----------------------------- MODULE StoreProofs -----------------------------
(***************************************************************************)
(* For every size and any number of callers: the two ring buffers keep     *)
(* what they should, a report of the log is true, an upload is what its    *)
(* client was told, and what an install of a component or of an app said   *)
(* stays true, whatever power failures and failed accesses come between.   *)
(***************************************************************************)
EXTENDS PendingRing, LogBuffer, BlobStore, ComponentStore, AppStore, SequenceTheorems, TLAPS

(* PendingRing                                                             *)

\* The part of RingConsistent that every index computation rests on.
TailInv == tail = (head + count) % QueueMax

IInv == TypeOK /\ TailInv

-----------------------------------------------------------------------------
LEMMA ModSmall ==
  ASSUME NEW N \in Nat \ {0}, NEW a \in 0 .. N - 1
  PROVE  a % N = a
OBVIOUS

LEMMA ModRange ==
  ASSUME NEW N \in Nat \ {0}, NEW a \in Nat
  PROVE  a % N \in 0 .. N - 1
OBVIOUS

LEMMA ModOnce ==
  ASSUME NEW N \in Nat \ {0}, NEW a \in N .. 2 * N - 1
  PROVE  a % N = a - N
OBVIOUS

\* The end of a ring moves by one cell with its length, and stays where it is
\* when the ring is one cell shorter at its head.
LEMMA TailMoves ==
  ASSUME NEW N \in Nat \ {0}, NEW h \in 0 .. N - 1, NEW n \in 0 .. N - 1
  PROVE  (((h + n) % N) + 1) % N = (h + n + 1) % N
<1> PICK s \in 0 .. 2 * N - 2 : s = h + n
  OBVIOUS
<1> SUFFICES ((s % N) + 1) % N = (s + 1) % N
  OBVIOUS
<1>1. CASE s < N
  <2>1. s % N = s
    BY <1>1, ModSmall
  <2> QED BY <2>1
<1>2. CASE s >= N
  <2>1. s % N = s - N
    BY <1>2, ModOnce
  <2> PICK t \in N .. 2 * N - 1 : t = s + 1
    BY <1>2
  <2>2. t % N = t - N
    BY ModOnce
  <2> PICK r \in 0 .. N - 1 : r = s - N + 1 /\ r = t - N
    BY <1>2
  <2>3. r % N = r
    BY ModSmall
  <2> QED BY <2>1, <2>2, <2>3
<1> QED BY <1>1, <1>2

LEMMA HeadMoves ==
  ASSUME NEW N \in Nat \ {0}, NEW h \in 0 .. N - 1, NEW n \in 1 .. N
  PROVE  (((h + 1) % N) + (n - 1)) % N = (h + n) % N
<1>1. CASE h + 1 < N
  <2>1. (h + 1) % N = h + 1
    BY <1>1, ModSmall
  <2> QED BY <2>1
<1>2. CASE h + 1 = N
  <2>1. (h + 1) % N = 0
    BY <1>2
  <2>2. (h + n) % N = n - 1
    BY <1>2, ModOnce
  <2>3. (n - 1) % N = n - 1
    BY ModSmall
  <2> QED BY <2>1, <2>2, <2>3
<1> QED BY <1>1, <1>2

\* The cell of a position, without the remainder.
LEMMA CellOfPosition ==
  ASSUME TypeOK, NEW i \in 1 .. QueueMax
  PROVE  /\ CellOf(i) \in Cells
         /\ head + i - 1 < QueueMax => CellOf(i) = head + i - 1
         /\ head + i - 1 >= QueueMax => CellOf(i) = head + i - 1 - QueueMax
<1>1. QueueMax \in Nat \ {0} /\ head \in 0 .. QueueMax - 1
  BY RingAssumption DEF TypeOK, Cells
<1>2. CASE head + i - 1 < QueueMax
  <2>1. CellOf(i) = head + i - 1
    BY <1>1, <1>2, ModSmall DEF CellOf
  <2> QED BY <2>1, <1>1, <1>2 DEF Cells
<1>3. CASE head + i - 1 >= QueueMax
  <2>1. CellOf(i) = head + i - 1 - QueueMax
    BY <1>1, <1>3, ModOnce DEF CellOf
  <2> QED BY <2>1, <1>1, <1>3 DEF Cells
<1> QED BY <1>1, <1>2, <1>3

\* Two positions of the ring are two cells.
LEMMA CellsDistinct ==
  ASSUME TypeOK, NEW i \in 1 .. QueueMax, NEW j \in 1 .. QueueMax, CellOf(i) = CellOf(j)
  PROVE  i = j
BY CellOfPosition, RingAssumption DEF TypeOK, Cells

\* What emit overwrites when the ring is not full is the first free cell, and
\* when it is full the cell of the newest payload.
LEMMA TailCell ==
  ASSUME IInv
  PROVE  /\ count < QueueMax => tail = CellOf(count + 1)
         /\ count = QueueMax => (tail + QueueMax - 1) % QueueMax = CellOf(count)
<1>1. /\ QueueMax \in Nat \ {0}
      /\ head \in 0 .. QueueMax - 1 /\ count \in 0 .. QueueMax /\ tail \in 0 .. QueueMax - 1
  BY RingAssumption DEF IInv, TypeOK, Cells
<1>2. count < QueueMax => tail = CellOf(count + 1)
  BY <1>1 DEF IInv, TailInv, CellOf
<1>3. ASSUME count = QueueMax
      PROVE  (tail + QueueMax - 1) % QueueMax = CellOf(count)
  <2>1. tail = head
    BY <1>1, <1>3, ModOnce DEF IInv, TailInv
  <2> QED BY <2>1, <1>3, <1>1 DEF CellOf
<1> QED BY <1>2, <1>3

LEMMA ContentsSeq ==
  ASSUME TypeOK
  PROVE  /\ DOMAIN Contents = 1 .. count
         /\ Len(Contents) = count
         /\ \A i \in 1 .. count : Contents[i] = buf[CellOf(i)]
BY DEF Contents, TypeOK

-----------------------------------------------------------------------------
(* The indices of the ring stay in range and agree, whatever emits, takes   *)
(* and restarts do (lines 518-522, 291-295 and 665-673 of task_runtime.c).  *)
THEOREM RingInvariant == Spec => []IInv
<1>1. Init => IInv
  BY RingAssumption, ModSmall DEF Init, IInv, TypeOK, TailInv, Cells
<1>2. IInv /\ [Next]_vars => IInv'
  <2> SUFFICES ASSUME IInv, [Next]_vars
               PROVE  IInv'
    OBVIOUS
  <2> USE DEF Cells
  <2>0. /\ QueueMax \in Nat \ {0}
        /\ head \in Cells /\ count \in 0 .. QueueMax /\ tail \in Cells
    BY RingAssumption DEF IInv, TypeOK
  <2>1. ASSUME NEW p \in Payloads, PushFree(p)
        PROVE  IInv'
    <3>1. tail' \in Cells /\ count' \in 0 .. QueueMax /\ head' = head
      BY <2>0, <2>1 DEF PushFree
    <3>2. tail' = (head' + count') % QueueMax
      <4>1. head \in 0 .. QueueMax - 1 /\ count \in 0 .. QueueMax - 1
        BY <2>0, <2>1 DEF PushFree
      <4>2. tail = (head + count) % QueueMax
        BY DEF IInv, TailInv
      <4>3. tail' = (tail + 1) % QueueMax /\ head' = head /\ count' = count + 1
        BY <2>1 DEF PushFree
      <4>4. head + (count + 1) = head + count + 1
        BY <4>1
      <4> QED BY <2>0, <4>1, <4>2, <4>3, <4>4, TailMoves
    <3>3. buf' \in [Cells -> Payloads \cup {Empty}]
      BY <2>1 DEF PushFree, IInv, TypeOK
    <3> QED BY <3>1, <3>2, <3>3, <2>0 DEF IInv, TypeOK, TailInv
  <2>2. ASSUME NEW p \in Payloads, PushFull(p)
        PROVE  IInv'
    BY <2>0, <2>2 DEF PushFull, IInv, TypeOK, TailInv
  <2>3. CASE Pop
    <3>1. head' \in Cells /\ count' \in 0 .. QueueMax /\ tail' = tail
      BY <2>0, <2>3 DEF Pop
    <3>2. tail' = (head' + count') % QueueMax
      <4>1. head \in 0 .. QueueMax - 1 /\ count \in 1 .. QueueMax
        BY <2>0, <2>3 DEF Pop
      <4>2. tail = (head + count) % QueueMax
        BY DEF IInv, TailInv
      <4>3. head' = (head + 1) % QueueMax /\ count' = count - 1 /\ tail' = tail
        BY <2>3 DEF Pop
      <4> QED BY <2>0, <4>1, <4>2, <4>3, HeadMoves
    <3>3. buf' \in [Cells -> Payloads \cup {Empty}]
      BY <2>3 DEF Pop, IInv, TypeOK
    <3> QED BY <3>1, <3>2, <3>3, <2>0 DEF IInv, TypeOK, TailInv
  <2>4. CASE Reset
    BY <2>0, <2>4, ModSmall DEF Reset, IInv, TypeOK, TailInv
  <2>5. CASE UNCHANGED vars
    BY <2>5 DEF vars, IInv, TypeOK, TailInv
  <2> QED BY <2>1, <2>2, <2>3, <2>4, <2>5 DEF Next
<1> QED BY <1>1, <1>2, PTL DEF Spec

-----------------------------------------------------------------------------
LEMMA PushFreeAppends ==
  ASSUME IInv, IInv', NEW p \in Payloads, PushFree(p)
  PROVE  Contents' = Append(Contents, p)
<1>1. /\ QueueMax \in Nat \ {0} /\ count \in 0 .. QueueMax - 1 /\ count' = count + 1
      /\ head' = head /\ TypeOK /\ TypeOK'
  BY RingAssumption DEF PushFree, IInv, TypeOK
<1>2. tail = CellOf(count + 1) /\ tail \in Cells
  BY <1>1, TailCell DEF TypeOK
<1>3. \A i \in 1 .. count + 1 : CellOf(i)' = CellOf(i) /\ CellOf(i) \in Cells
  BY <1>1, CellOfPosition DEF CellOf
<1>4. \A i \in 1 .. count : buf'[CellOf(i)'] = buf[CellOf(i)]
  BY <1>1, <1>2, <1>3, CellsDistinct DEF PushFree, TypeOK
<1>5. buf'[CellOf(count)'] = p
  <2>1. CellOf(count)' = tail
    BY <1>1, <1>2 DEF CellOf
  <2>2. buf'[tail] = p
    BY <1>1, <1>2 DEF PushFree, TypeOK
  <2> QED BY <2>1, <2>2
<1>6. /\ Contents = [i \in 1 .. count |-> buf[CellOf(i)]]
      /\ Contents' = [i \in 1 .. count + 1 |-> buf'[CellOf(i)']]
      /\ Len(Contents) = count
  BY <1>1, ContentsSeq DEF Contents
<1>7. Append(Contents, p) = [i \in 1 .. count + 1 |-> IF i = count + 1 THEN p ELSE Contents[i]]
  BY <1>1, <1>6
<1>8. \A i \in 1 .. count + 1 :
        buf'[CellOf(i)'] = IF i = count + 1 THEN p ELSE Contents[i]
  <2>1. \A i \in 1 .. count : buf'[CellOf(i)'] = Contents[i]
    BY <1>4, <1>6
  <2>2. \A i \in 1 .. count + 1 : i = count + 1 => CellOf(i)' = CellOf(count)'
    BY <1>1 DEF CellOf
  <2>3. \A i \in 1 .. count + 1 : i # count + 1 => i \in 1 .. count
    BY <1>1
  <2> QED BY <2>1, <2>2, <2>3, <1>5
<1> QED BY <1>6, <1>7, <1>8

LEMMA PushFullReplacesNewest ==
  ASSUME IInv, IInv', NEW p \in Payloads, PushFull(p)
  PROVE  Contents' = [Contents EXCEPT ![QueueMax] = p]
<1>1. /\ QueueMax \in Nat \ {0} /\ count = QueueMax /\ count' = count
      /\ head' = head /\ TypeOK
  BY RingAssumption DEF PushFull, IInv, TypeOK
<1>2. (tail + QueueMax - 1) % QueueMax = CellOf(count)
  BY <1>1, TailCell
<1>3. \A i \in 1 .. count : CellOf(i)' = CellOf(i) /\ CellOf(i) \in Cells
  BY <1>1, CellOfPosition DEF CellOf
<1>4. \A i \in 1 .. count - 1 : buf'[CellOf(i)'] = buf[CellOf(i)]
  BY <1>1, <1>2, <1>3, CellsDistinct DEF PushFull, TypeOK
<1>5. buf'[CellOf(count)'] = p
  BY <1>1, <1>2, <1>3 DEF PushFull, TypeOK
<1>6. Contents = [i \in 1 .. count |-> buf[CellOf(i)]]
      /\ Contents' = [i \in 1 .. count |-> buf'[CellOf(i)']]
  BY <1>1 DEF Contents
<1>7. QueueMax \in 1 .. count /\ \A i \in 1 .. count : i # QueueMax => i \in 1 .. count - 1
  BY <1>1
<1> QED BY <1>1, <1>4, <1>5, <1>6, <1>7

\* When the oldest payload is taken, each other moves up by one position.
LEMMA PopShiftsCells ==
  ASSUME IInv, Pop
  PROVE  \A i \in 1 .. count - 1 : CellOf(i)' = CellOf(i + 1)
<1>0. /\ QueueMax \in Nat \ {0} /\ count \in 1 .. QueueMax
      /\ head \in Cells /\ head' = (head + 1) % QueueMax
  BY RingAssumption DEF Pop, IInv, TypeOK
<1> SUFFICES ASSUME NEW i \in 1 .. count - 1
             PROVE  CellOf(i)' = CellOf(i + 1)
  OBVIOUS
<1>1. CellOf(i)' = (head' + i - 1) % QueueMax
  BY DEF CellOf
<1>2. CellOf(i + 1) = (head + i) % QueueMax
  BY <1>0 DEF CellOf, Cells
<1>3. CASE head + 1 < QueueMax
  <2>1. head' = head + 1
    BY <1>3, <1>0, ModSmall DEF Cells
  <2>2. head' + i - 1 = head + i
    BY <2>1, <1>0 DEF Cells
  <2> QED BY <1>1, <1>2, <2>2
<1>4. CASE head + 1 = QueueMax
  <2>1. head' = 0
    BY <1>4, <1>0, ModOnce DEF Cells
  <2>2. (head + i) % QueueMax = i - 1
    <3> DEFINE a == head + i
    <3>1. a \in QueueMax .. 2 * QueueMax - 1 /\ a - QueueMax = i - 1
      BY <1>4, <1>0 DEF Cells
    <3> HIDE DEF a
    <3>2. a % QueueMax = a - QueueMax
      BY <1>0, <3>1, ModOnce, Zenon
    <3> QED BY <3>1, <3>2, Zenon DEF a
  <2>3. (0 + i - 1) % QueueMax = i - 1
    BY <1>0, ModSmall
  <2> QED BY <1>1, <1>2, <2>1, <2>2, <2>3
<1> QED BY <1>3, <1>4, <1>0 DEF Cells

LEMMA PopTakesOldest ==
  ASSUME IInv, IInv', Pop
  PROVE  Contents # <<>> /\ Contents' = Tail(Contents)
<1>1. /\ QueueMax \in Nat \ {0} /\ count \in 1 .. QueueMax /\ count' = count - 1
      /\ head \in Cells /\ head' = (head + 1) % QueueMax /\ TypeOK /\ TypeOK'
  BY RingAssumption DEF Pop, IInv, TypeOK
<1>2. head = CellOf(1)
  BY <1>1, CellOfPosition DEF Cells
<1>3. \A i \in 1 .. count - 1 : CellOf(i)' = CellOf(i + 1)
  BY PopShiftsCells
<1>4. \A i \in 1 .. count - 1 : buf'[CellOf(i)'] = buf[CellOf(i + 1)]
  <2> SUFFICES ASSUME NEW i \in 1 .. count - 1
               PROVE  buf'[CellOf(i + 1)] = buf[CellOf(i + 1)]
    BY <1>3
  <2>1. CellOf(i + 1) # CellOf(1) /\ CellOf(i + 1) \in Cells
    BY <1>1, CellsDistinct, CellOfPosition
  <2> QED BY <2>1, <1>1, <1>2 DEF Pop, TypeOK
<1> QED BY <1>1, <1>4, ContentsSeq DEF Contents

(* The refinement: every emit, take and restart on the ring is the          *)
(* corresponding step of the bounded queue, so what a task handles are the  *)
(* payloads that were stored for it, oldest first.                          *)
THEOREM RingImplementsQueue == Spec => ImplementsQueue
<1>1. Init => Queue!Init
  BY DEF Init, Queue!Init, Contents
<1>2. IInv /\ IInv' /\ [Next]_vars => [Queue!Next]_Contents
  <2> SUFFICES ASSUME IInv, IInv', [Next]_vars
               PROVE  [Queue!Next]_Contents
    OBVIOUS
  <2>0. QueueMax \in Nat \ {0} /\ count \in 0 .. QueueMax /\ TypeOK /\ Len(Contents) = count
    BY RingAssumption, ContentsSeq DEF IInv, TypeOK
  <2>1. ASSUME NEW p \in Payloads, PushFree(p)
        PROVE  Queue!Push(p)
    BY <2>0, <2>1, PushFreeAppends DEF PushFree, Queue!Push, Queue!Pushed
  <2>2. ASSUME NEW p \in Payloads, PushFull(p)
        PROVE  Queue!Push(p)
    <3>1. Contents' = [Contents EXCEPT ![QueueMax] = p]
      BY <2>2, PushFullReplacesNewest
    <3>2. ~ (Len(Contents) < QueueMax)
      BY <2>0, <2>2 DEF PushFull
    <3> QED BY <3>1, <3>2 DEF Queue!Push, Queue!Pushed
  <2>3. CASE Pop
    BY <2>3, PopTakesOldest DEF Queue!Next, Queue!Pop
  <2>4. CASE Reset
    BY <2>4 DEF Reset, Contents, Queue!Next, Queue!Clear
  <2>5. CASE UNCHANGED vars
    BY <2>5 DEF vars, Contents, CellOf
  <2> QED BY <2>1, <2>2, <2>3, <2>4, <2>5 DEF Next, Queue!Next
<1> QED BY <1>1, <1>2, RingInvariant, PTL DEF Spec, ImplementsQueue, Queue!Spec

-----------------------------------------------------------------------------
\* A cell holds a payload exactly when it is the cell of a position.
CellsInv == \A c \in Cells : buf[c] # Empty <=> \E i \in 1 .. count : CellOf(i) = c

LEMMA StepKeepsCellsInv ==
  ASSUME IInv, IInv', CellsInv, [Next]_vars
  PROVE  CellsInv'
<1>1. /\ QueueMax \in Nat \ {0} /\ count \in 0 .. QueueMax
      /\ head \in Cells /\ tail \in Cells /\ TypeOK /\ Empty \notin Payloads
  BY RingAssumption DEF IInv, TypeOK
<1>2. ASSUME NEW p \in Payloads, PushFree(p) PROVE CellsInv'
  <2>1. count < QueueMax /\ count' = count + 1 /\ buf' = [buf EXCEPT ![tail] = p] /\ head' = head
    BY <1>2 DEF PushFree
  <2>2. tail = CellOf(count + 1) /\ \A i : CellOf(i)' = CellOf(i)
    BY <2>1, TailCell DEF CellOf
  <2>3. \A c \in Cells : buf'[c] = IF c = tail THEN p ELSE buf[c]
    BY <2>1, <1>1 DEF TypeOK
  <2>4. 1 .. count + 1 = (1 .. count) \cup {count + 1}
    BY <1>1
  <2> QED BY <1>1, <2>1, <2>2, <2>3, <2>4 DEF CellsInv
<1>3. ASSUME NEW p \in Payloads, PushFull(p) PROVE CellsInv'
  <2> DEFINE last == (tail + QueueMax - 1) % QueueMax
  <2>1. count = QueueMax /\ count' = count /\ buf' = [buf EXCEPT ![last] = p] /\ head' = head
    BY <1>1, <1>3 DEF PushFull
  <2>2. last = CellOf(count) /\ \A i : CellOf(i)' = CellOf(i)
    BY <2>1, TailCell DEF CellOf
  <2> HIDE DEF last
  <2>3. \A c \in Cells : buf'[c] = IF c = last THEN p ELSE buf[c]
    BY <2>1, <1>1 DEF TypeOK
  <2>4. count \in 1 .. count
    BY <1>1, <2>1
  <2> QED BY <1>1, <2>1, <2>2, <2>3, <2>4 DEF CellsInv
<1>4. CASE Pop
  <2>1. count > 0 /\ count' = count - 1 /\ buf' = [buf EXCEPT ![head] = Empty]
    BY <1>4 DEF Pop
  <2>2. head = CellOf(1)
    BY <1>1, <2>1, CellOfPosition DEF Cells
  <2>3. \A c \in Cells : buf'[c] = IF c = head THEN Empty ELSE buf[c]
    BY <2>1, <1>1 DEF TypeOK
  <2>4. \A i \in 1 .. count - 1 : CellOf(i)' = CellOf(i + 1)
    BY <1>4, PopShiftsCells
  <2>5. \A i \in 1 .. count : i = 1 <=> CellOf(i) = head
    BY <1>1, <2>1, <2>2, CellsDistinct
  <2> SUFFICES ASSUME NEW c \in Cells
               PROVE  buf'[c] # Empty <=> \E i \in 1 .. count - 1 : CellOf(i)' = c
    BY <2>1 DEF CellsInv, Cells
  <2>6. ASSUME buf'[c] # Empty PROVE \E i \in 1 .. count - 1 : CellOf(i)' = c
    <3>1. c # head /\ buf[c] # Empty
      BY <2>3, <2>6
    <3>2. PICK k \in 1 .. count : CellOf(k) = c
      BY <3>1 DEF CellsInv
    <3>3. k - 1 \in 1 .. count - 1 /\ (k - 1) + 1 = k
      BY <1>1, <2>5, <3>1, <3>2
    <3> QED BY <2>4, <3>2, <3>3
  <2>7. ASSUME NEW i \in 1 .. count - 1, CellOf(i)' = c PROVE buf'[c] # Empty
    <3>1. i + 1 \in 1 .. count /\ i + 1 # 1 /\ CellOf(i + 1) = c
      BY <1>1, <2>4, <2>7
    <3>2. c # head
      BY <2>5, <3>1
    <3>3. buf[c] # Empty
      BY <3>1 DEF CellsInv
    <3> QED BY <2>3, <3>2, <3>3
  <2> QED BY <2>6, <2>7
<1>5. CASE Reset
  BY <1>5 DEF Reset, CellsInv, Cells
<1>6. CASE UNCHANGED vars
  BY <1>6 DEF vars, CellsInv, CellOf
<1> QED BY <1>2, <1>3, <1>4, <1>5, <1>6 DEF Next

\* The two indices of a task's ring never drift apart, and its cells hold payloads
\* exactly from head on, whatever emits, takes and restarts do.
THEOREM RingIsConsistent == Spec => []RingConsistent
<1>1. Init => CellsInv
  BY RingAssumption DEF Init, CellsInv, Cells
<1>2. IInv /\ CellsInv => RingConsistent
  <2> SUFFICES ASSUME IInv, CellsInv PROVE {c \in Cells : buf[c] # Empty} = {CellOf(i) : i \in 1 .. count}
    BY DEF IInv, TailInv, RingConsistent
  <2>1. \A i \in 1 .. count : CellOf(i) \in Cells
    BY CellOfPosition, RingAssumption DEF IInv, TypeOK
  <2> QED BY <2>1 DEF CellsInv
<1> QED BY <1>1, <1>2, StepKeepsCellsInv, RingInvariant, PTL DEF Spec
-----------------------------------------------------------------------------
(* LogBuffer                                                               *)

\* What LogKeepsNewest says of the bytes, cell by cell.
HoldsNewest == \A i \in 1 .. size : ring[(start + i - 1) % LogCapacity] = total - size + i

LogIInv ==
  /\ LogTypeOK
  /\ size = AtMost(total, LogCapacity)
  /\ HoldsNewest
  /\ size + dropped + missed = total

-----------------------------------------------------------------------------
\* The remainders that indices into the ring are made of.
LEMMA ModBelow ==
  ASSUME NEW N \in Nat \ {0}, NEW a \in 0 .. N - 1
  PROVE  a % N = a
OBVIOUS

LEMMA ModAbove ==
  ASSUME NEW N \in Nat \ {0}, NEW a \in N .. 2 * N - 1
  PROVE  a % N = a - N
OBVIOUS

LEMMA ModNegative ==
  ASSUME NEW N \in Nat \ {0}, NEW a \in -N .. -1
  PROVE  a % N = a + N
OBVIOUS

LEMMA ModMoreNegative ==
  ASSUME NEW N \in Nat \ {0}, NEW a \in -(2 * N) .. -N - 1
  PROVE  a % N = a + 2 * N
OBVIOUS

\* An index into the ring wraps at most once.
LEMMA WrapsOnce ==
  ASSUME NEW C \in Nat \ {0}, NEW b \in 0 .. C - 1, NEW j \in 0 .. C - 1
  PROVE  /\ b + j < C => (b + j) % C = b + j
         /\ b + j >= C => (b + j) % C = (b + j) - C
         /\ (b + j) % C \in 0 .. C - 1
<1>1. CASE b + j < C
  <2>1. b + j \in 0 .. C - 1
    BY <1>1
  <2>2. (b + j) % C = b + j
    BY <2>1, ModBelow, Zenon
  <2> QED BY <1>1, <2>1, <2>2
<1>2. CASE b + j >= C
  <2> DEFINE a == b + j
  <2>1. a \in C .. 2 * C - 1
    BY <1>2
  <2> HIDE DEF a
  <2>2. a % C = a - C
    BY <2>1, ModAbove, Zenon
  <2>3. a - C \in 0 .. C - 1
    BY <2>1
  <2>4. (b + j) % C = (b + j) - C /\ (b + j) % C \in 0 .. C - 1
    BY <2>2, <2>3, Zenon DEF a
  <2> QED BY <1>2, <2>4
<1> QED BY <1>1, <1>2

\* The way back from a cell to the position that RingWith takes.
LEMMA PositionOfCell ==
  ASSUME NEW C \in Nat \ {0}, NEW b \in 0 .. C - 1, NEW j \in 0 .. C - 1, NEW s \in 0 .. C
  PROVE  /\ j >= s => (((b + j) % C) - b - s) % C = j - s
         /\ j < s => (((b + j) % C) - b - s) % C = j - s + C
<1> DEFINE c == (b + j) % C
           a == c - b - s
<1>1. c = b + j \/ c = b + j - C
  <2> HIDE DEF c
  <2>1. /\ b + j < C => c = b + j
        /\ b + j >= C => c = (b + j) - C
    BY WrapsOnce, Zenon DEF c
  <2> QED BY <2>1
<1> HIDE DEF c
<1>2. a = j - s \/ a = j - s - C
  BY <1>1
<1> HIDE DEF a
<1>3. ASSUME j >= s PROVE a % C = j - s
  <2>1. CASE a = j - s
    <3>1. a \in 0 .. C - 1
      BY <1>3, <2>1
    <3>2. a % C = a
      BY <3>1, ModBelow, Zenon
    <3> QED BY <2>1, <3>2, Zenon
  <2>2. CASE a = j - s - C
    <3>1. a \in -C .. -1
      BY <1>3, <2>2
    <3>2. a % C = a + C
      BY <3>1, ModNegative, Zenon
    <3>3. a + C = j - s
      BY <2>2
    <3> QED BY <3>2, <3>3, Zenon
  <2> QED BY <1>2, <2>1, <2>2, Zenon
<1>4. ASSUME j < s PROVE a % C = j - s + C
  <2>1. CASE a = j - s
    <3>1. a \in -C .. -1
      BY <1>4, <2>1
    <3>2. a % C = a + C
      BY <3>1, ModNegative, Zenon
    <3> QED BY <2>1, <3>2, Zenon
  <2>2. CASE a = j - s - C
    <3>1. a \in -(2 * C) .. -C - 1
      BY <1>4, <2>2
    <3>2. a % C = a + 2 * C
      BY <3>1, ModMoreNegative, Zenon
    <3>3. a + 2 * C = j - s + C
      BY <2>2
    <3> QED BY <3>2, <3>3, Zenon
  <2> QED BY <1>2, <2>1, <2>2, Zenon
<1> QED BY <1>3, <1>4, Zenon DEF a, c

\* Moving the start of the ring by k moves every position by k.
LEMMA ShiftedCell ==
  ASSUME NEW C \in Nat \ {0}, NEW f \in 0 .. C - 1, NEW k \in 0 .. C - 1, NEW j \in 0 .. C - 1,
         k + j < C
  PROVE  (((f + k) % C) + j) % C = (f + (k + j)) % C
<1> DEFINE b == (f + k) % C
<1>1. /\ f + k < C => b = f + k
      /\ f + k >= C => b = (f + k) - C
      /\ b \in 0 .. C - 1
  BY WrapsOnce, Zenon
<1> HIDE DEF b
<1>2. CASE f + k < C
  <2>1. b + j = f + (k + j)
    BY <1>1, <1>2
  <2> QED BY <2>1, Zenon DEF b
<1>3. CASE f + k >= C
  <2>1. b + j \in 0 .. C - 1 /\ f + (k + j) \in C .. 2 * C - 1
    BY <1>1, <1>3
  <2>2. (b + j) % C = b + j
    BY <2>1, ModBelow, Zenon
  <2> DEFINE a == f + (k + j)
  <2>3. a \in C .. 2 * C - 1 /\ b + j = a - C
    BY <1>1, <1>3, <2>1
  <2> HIDE DEF a
  <2>4. a % C = a - C
    BY <2>3, ModAbove, Zenon
  <2> QED BY <2>2, <2>3, <2>4, Zenon DEF a, b
<1>4. f + k < C \/ f + k >= C
  OBVIOUS
<1> QED BY <1>2, <1>3, <1>4, Zenon

LEMMA LogInitInv == LogInit => LogIInv
BY LogAssumption
DEF LogInit, LogIInv, LogTypeOK, LogCells, HoldsNewest, AtMost

\* What RingWith stores, and what it leaves, behind s bytes from cell b on.
LEMMA RingWithBytes ==
  ASSUME LogTypeOK, NEW b \in LogCells, NEW s \in 0 .. LogCapacity, NEW first \in Nat,
         NEW n \in 0 .. LogCapacity, s + n <= LogCapacity
  PROVE  /\ RingWith(b, s, first, n) \in [LogCells -> Nat]
         /\ \A i \in 1 .. s + n :
              RingWith(b, s, first, n)[(b + i - 1) % LogCapacity] =
                IF i > s THEN first + i - s ELSE ring[(b + i - 1) % LogCapacity]
<1>1. LogCapacity \in Nat \ {0} /\ LogCells = 0 .. LogCapacity - 1 /\ ring \in [LogCells -> Nat]
  BY LogAssumption DEF LogCells, LogTypeOK
<1>2. \A c \in LogCells : (c - b - s) % LogCapacity \in Nat
  BY <1>1
<1>3. RingWith(b, s, first, n) \in [LogCells -> Nat]
  BY <1>1, <1>2 DEF RingWith
<1>4. ASSUME NEW i \in 1 .. s + n
      PROVE  RingWith(b, s, first, n)[(b + i - 1) % LogCapacity] =
               IF i > s THEN first + i - s ELSE ring[(b + i - 1) % LogCapacity]
  <2> DEFINE j == i - 1
             c == (b + j) % LogCapacity
  <2>1. j \in 0 .. LogCapacity - 1 /\ b \in 0 .. LogCapacity - 1
    BY <1>1
  <2> HIDE DEF j
  <2>2. c \in LogCells
    BY <1>1, <2>1, WrapsOnce, Zenon
  <2>3. /\ j >= s => (c - b - s) % LogCapacity = j - s
        /\ j < s => (c - b - s) % LogCapacity = (j - s) + LogCapacity
    BY <1>1, <2>1, PositionOfCell, Zenon
  <2> HIDE DEF c
  <2>4. RingWith(b, s, first, n)[c] =
          IF (c - b - s) % LogCapacity < n THEN first + ((c - b - s) % LogCapacity) + 1 ELSE ring[c]
    BY <2>2, Zenon DEF RingWith
  <2>5. CASE i > s
    <3>1. j >= s /\ j - s < n /\ first + (j - s) + 1 = first + (i - s)
      BY <2>5 DEF j
    <3>2. RingWith(b, s, first, n)[c] = first + (i - s)
      BY <2>3, <2>4, <3>1, Zenon
    <3> QED BY <2>5, <3>2, Zenon DEF c, j
  <2>6. CASE ~(i > s)
    <3>1. j < s /\ ~((j - s) + LogCapacity < n)
      BY <1>1, <2>6 DEF j
    <3>2. RingWith(b, s, first, n)[c] = ring[c]
      BY <2>3, <2>4, <3>1, Zenon
    <3> QED BY <2>6, <3>2, Zenon DEF c, j
  <2> QED BY <2>5, <2>6, Zenon
<1> QED BY <1>3, <1>4, Zenon

LEMMA LogShortKeepsInv ==
  ASSUME LogIInv, NEW n \in 1 .. AppendMax, LogShort(n), total' = total + n
  PROVE  LogIInv'
<1> DEFINE over == IF size + n > LogCapacity THEN size + n - LogCapacity ELSE 0
           b == (start + over) % LogCapacity
           s == size - over
<1>1. /\ LogCapacity \in Nat \ {0} /\ AppendMax \in Nat
      /\ start \in 0 .. LogCapacity - 1 /\ size \in 0 .. LogCapacity /\ ring \in [LogCells -> Nat]
      /\ dropped \in Nat /\ total \in Nat /\ missed \in Nat
      /\ size = AtMost(total, LogCapacity) /\ size + dropped + missed = total
      /\ n \in 0 .. LogCapacity /\ n > 0 /\ n < LogCapacity
  <2>1. n < LogCapacity
    BY DEF LogShort
  <2> QED BY <2>1, LogAssumption DEF LogIInv, LogTypeOK, LogCells
<1>2. /\ over \in 0 .. LogCapacity - 1 /\ over <= size
      /\ s \in 0 .. LogCapacity /\ s + n <= LogCapacity /\ over + s = size
      /\ over > 0 => s + n = LogCapacity
      /\ over = 0 => s = size
  BY <1>1
<1>3. /\ ring' = RingWith(b, s, total, n) /\ start' = b /\ size' = s + n
      /\ dropped' = dropped + over /\ missed' = missed
  BY <1>1 DEF LogShort
<1> HIDE DEF over, s
<1>4. b \in LogCells
  <2>1. start + over \in Nat
    BY <1>1, <1>2
  <2> QED BY <1>1, <2>1, ModRange DEF LogCells
<1>5. \A i \in 1 .. s : (b + i - 1) % LogCapacity = (start + (over + i) - 1) % LogCapacity
  <2> SUFFICES ASSUME NEW i \in 1 .. s
               PROVE  (b + i - 1) % LogCapacity = (start + (over + i) - 1) % LogCapacity
    OBVIOUS
  <2>1. i - 1 \in 0 .. LogCapacity - 1 /\ over + (i - 1) < LogCapacity
    BY <1>1, <1>2
  <2>2. (b + (i - 1)) % LogCapacity = (start + (over + (i - 1))) % LogCapacity
    BY <1>1, <1>2, <2>1, ShiftedCell
  <2>3. b + (i - 1) = b + i - 1 /\ start + (over + (i - 1)) = start + (over + i) - 1
    BY <1>1, <1>2, <1>4 DEF LogCells
  <2> HIDE DEF b
  <2> QED BY <2>2, <2>3
<1> HIDE DEF b
<1>6. /\ ring' \in [LogCells -> Nat]
      /\ \A i \in 1 .. s + n :
           ring'[(b + i - 1) % LogCapacity] =
             IF i > s THEN total + i - s ELSE ring[(b + i - 1) % LogCapacity]
  <2>1. LogTypeOK /\ total \in Nat /\ s \in 0 .. LogCapacity /\ n \in 0 .. LogCapacity
    BY <1>1, <1>2 DEF LogIInv
  <2> QED BY <1>2, <1>3, <1>4, <2>1, RingWithBytes, Zenon
<1>7. LogTypeOK'
  BY <1>1, <1>2, <1>3, <1>4, <1>6 DEF LogTypeOK
<1>8. size' = AtMost(total', LogCapacity)
  BY <1>1, <1>2, <1>3 DEF AtMost
<1>9. size' + dropped' + missed' = total'
  BY <1>1, <1>2, <1>3
<1>10. HoldsNewest'
  <2> SUFFICES ASSUME NEW i \in 1 .. s + n
               PROVE  ring'[(b + i - 1) % LogCapacity] = ((total + n) - (s + n)) + i
    BY <1>3, Zenon DEF HoldsNewest
  <2>1. CASE i > s
    BY <1>1, <1>2, <1>6, <2>1
  <2>2. CASE ~(i > s)
    <3>1. i \in 1 .. s /\ over + i \in 1 .. size
      BY <1>1, <1>2, <2>2
    <3>2. ring[(start + (over + i) - 1) % LogCapacity] = total - size + (over + i)
      BY <3>1 DEF LogIInv, HoldsNewest
    <3>3. ring'[(b + i - 1) % LogCapacity] = ring[(start + (over + i) - 1) % LogCapacity]
      BY <1>2, <1>5, <1>6, <2>2, <3>1
    <3> QED BY <1>1, <1>2, <3>1, <3>2, <3>3
  <2> QED BY <2>1, <2>2
<1> QED BY <1>7, <1>8, <1>9, <1>10 DEF LogIInv

LEMMA LogLongKeepsInv ==
  ASSUME LogIInv, NEW n \in 1 .. AppendMax, LogLong(n), total' = total + n
  PROVE  LogIInv'
<1>1. /\ LogCapacity \in Nat \ {0} /\ AppendMax \in Nat
      /\ size \in 0 .. LogCapacity /\ dropped \in Nat /\ total \in Nat /\ missed \in Nat
      /\ size + dropped + missed = total
      /\ n \in Nat /\ n >= LogCapacity /\ 0 \in LogCells /\ total + n - LogCapacity \in Nat
  BY LogAssumption DEF LogIInv, LogTypeOK, LogCells, LogLong
<1>2. /\ ring' = RingWith(0, 0, total + n - LogCapacity, LogCapacity)
      /\ start' = 0 /\ size' = LogCapacity
      /\ dropped' = dropped + n - LogCapacity /\ missed' = missed + size
  BY DEF LogLong
<1>3. /\ ring' \in [LogCells -> Nat]
      /\ \A i \in 1 .. LogCapacity :
           ring'[(0 + i - 1) % LogCapacity] = total + n - LogCapacity + i
  <2> DEFINE first == total + n - LogCapacity
             zero == 0
  <2>1. /\ LogTypeOK /\ first \in Nat /\ zero \in LogCells
        /\ zero \in 0 .. LogCapacity /\ LogCapacity \in 0 .. LogCapacity
        /\ zero + LogCapacity <= LogCapacity /\ ring' = RingWith(zero, zero, first, LogCapacity)
    BY <1>1, <1>2 DEF LogIInv
  <2> HIDE DEF first, zero
  <2>2. /\ ring' \in [LogCells -> Nat]
        /\ \A i \in 1 .. zero + LogCapacity :
             ring'[(zero + i - 1) % LogCapacity] =
               IF i > zero THEN first + i - zero ELSE ring[(zero + i - 1) % LogCapacity]
    BY <2>1, RingWithBytes, Zenon
  <2> QED BY <1>1, <2>2 DEF first, zero
<1>4. LogTypeOK' /\ size' = AtMost(total', LogCapacity) /\ size' + dropped' + missed' = total'
  BY <1>1, <1>2, <1>3 DEF LogTypeOK, AtMost
<1>5. HoldsNewest'
  BY <1>1, <1>2, <1>3 DEF HoldsNewest
<1> QED BY <1>4, <1>5 DEF LogIInv

LEMMA LogStepKeepsInv ==
  ASSUME LogIInv, [LogNext]_logVars
  PROVE  LogIInv'
<1>1. CASE LogAppend
  <2>1. PICK n \in 1 .. AppendMax : (LogShort(n) \/ LogLong(n)) /\ total' = total + n
    BY <1>1 DEF LogAppend
  <2> QED BY <2>1, LogShortKeepsInv, LogLongKeepsInv
<1>2. CASE UNCHANGED <<ring, start, size, dropped, total, missed>>
  BY <1>2 DEF LogIInv, LogTypeOK, HoldsNewest
<1>3. ASSUME NEW r \in LogReaders, ReadSize(r) \/ ReadDropped(r) \/ CopyTail(r) \/ Rendered(r)
      PROVE  UNCHANGED <<ring, start, size, dropped, total, missed>>
  BY <1>3 DEF ReadSize, ReadDropped, CopyTail, Rendered
<1> QED BY <1>1, <1>2, <1>3 DEF LogNext, logVars

\* The ring always holds the newest bytes logged, in order and as many as fit, and
\* every other byte was counted once, except those that a text as long as the ring
\* threw out: espclaw_log_buffer_append for every capacity.
THEOREM KeepsNewest == LogSpec => []LogKeepsNewest
<1>1. LogIInv => LogKeepsNewest
  <2> SUFFICES ASSUME LogIInv PROVE Copy(start, size) = Newest(total, size)
    BY DEF LogIInv, LogKeepsNewest
  <2>1. Copy(start, size) = [i \in 1 .. size |-> ring[(start + i - 1) % LogCapacity]]
    BY DEF Copy
  <2>2. Newest(total, size) = [i \in 1 .. size |-> total - size + i]
    BY DEF Newest
  <2>3. \A i \in 1 .. size : ring[(start + i - 1) % LogCapacity] = total - size + i
    BY DEF LogIInv, HoldsNewest
  <2> QED BY <2>1, <2>2, <2>3
<1> QED BY <1>1, LogInitInv, LogStepKeepsInv, PTL DEF LogSpec
-----------------------------------------------------------------------------
(* The report, made while others log.                                      *)

Readers ==
  [pc : {"rest", "dropped", "copy", "done"}, want : Nat, stored : Nat, dropped : Nat,
   text : Seq(Nat), from : Nat, upto : Nat]

\* What a reader remembers of a shorter log: the size never shrinks, and what left
\* the ring since was counted.
ReadersBehind ==
  \A r \in LogReaders : reader[r].pc # "rest" =>
    /\ reader[r].stored <= size
    /\ reader[r].from <= total
    /\ reader[r].pc = "dropped" /\ missed = 0 => reader[r].from <= reader[r].stored + dropped

ReportInv == LogIInv /\ reader \in [LogReaders -> Readers] /\ ReadersBehind /\ LogReportTrue

\* A text that is logged shortens nothing.
LEMMA LogGrows ==
  ASSUME LogIInv, LogAppend
  PROVE  /\ size <= size' /\ dropped <= dropped' /\ total <= total'
         /\ missed' = 0 => missed = 0
<1>1. PICK n \in 1 .. AppendMax : (LogShort(n) \/ LogLong(n)) /\ total' = total + n
  BY DEF LogAppend
<1>2. /\ LogCapacity \in Nat /\ n \in Nat /\ size \in 0 .. LogCapacity /\ dropped \in Nat
      /\ total \in Nat /\ missed \in Nat
  BY LogAssumption DEF LogIInv, LogTypeOK
<1>3. CASE LogShort(n)
  BY <1>1, <1>2, <1>3 DEF LogShort
<1>4. CASE LogLong(n)
  BY <1>1, <1>2, <1>4 DEF LogLong
<1> QED BY <1>1, <1>3, <1>4

\* Copying from behind the first size - asked bytes gives the newest asked bytes, as
\* many of them as are copied.
LEMMA CopiedBytes ==
  ASSUME LogIInv, NEW asked \in 0 .. size, NEW n \in 0 .. asked
  PROVE  /\ Copy((start + size - asked) % LogCapacity, n) = [i \in 1 .. n |-> total - asked + i]
         /\ \A i \in 1 .. n : total - asked + i \in Nat
<1>1. /\ LogCapacity \in Nat \ {0} /\ start \in 0 .. LogCapacity - 1 /\ size \in 0 .. LogCapacity
      /\ total \in Nat /\ size <= total
  BY LogAssumption DEF LogIInv, LogTypeOK, LogCells, AtMost
<1> DEFINE first == (start + (size - asked)) % LogCapacity
<1>2. ASSUME NEW i \in 1 .. n
      PROVE  ring[(first + i - 1) % LogCapacity] = total - asked + i
  <2>1. /\ size - asked \in 0 .. LogCapacity - 1 /\ i - 1 \in 0 .. LogCapacity - 1
        /\ (size - asked) + (i - 1) < LogCapacity
    BY <1>1
  <2>2. (first + (i - 1)) % LogCapacity = (start + ((size - asked) + (i - 1))) % LogCapacity
    BY <1>1, <2>1, ShiftedCell
  <2>3. ring[(start + ((size - asked) + i) - 1) % LogCapacity] = total - size + ((size - asked) + i)
    <3>1. (size - asked) + i \in 1 .. size
      BY <1>1
    <3> QED BY <3>1 DEF LogIInv, HoldsNewest
  <2>4. first \in Int
    BY <1>1
  <2> HIDE DEF first
  <2>5. /\ first + (i - 1) = first + i - 1
        /\ start + ((size - asked) + (i - 1)) = start + ((size - asked) + i) - 1
        /\ total - size + ((size - asked) + i) = total - asked + i
    BY <1>1, <2>4
  <2> QED BY <2>2, <2>3, <2>5
<1>3. start + size - asked = start + (size - asked)
  BY <1>1
<1>4. Copy(first, n) = [i \in 1 .. n |-> total - asked + i]
  <2> HIDE DEF first
  <2> QED BY <1>2 DEF Copy
<1> QED BY <1>1, <1>3, <1>4

\* The third critical section writes what the report is to show.
LEMMA CopyTailShows ==
  ASSUME ReportInv, NEW r \in LogReaders, CopyTail(r)
  PROVE  LET kept == AtMost(total, LogCapacity)
             asked == IF reader[r].want = 0 THEN kept ELSE AtMost(reader[r].want, kept) IN
         /\ reader'[r].text = SubSeq(Newest(total, asked), 1, AtMost(asked, TailMax - 1))
         /\ reader'[r].text \in Seq(Nat)
<1> DEFINE asked == Asked(reader[r].want)
           n == Fits(asked)
<1>1. /\ reader[r].want \in Nat /\ size \in Nat /\ size = AtMost(total, LogCapacity)
      /\ TailMax \in Nat \ {0} /\ total \in Nat
  BY LogAssumption DEF ReportInv, Readers, LogIInv, LogTypeOK
<1>2. /\ asked \in 0 .. size /\ n \in 0 .. asked /\ n = AtMost(asked, TailMax - 1)
      /\ asked = IF reader[r].want = 0 THEN size ELSE AtMost(reader[r].want, size)
  BY <1>1 DEF Asked, Fits, AtMost
<1>3. reader'[r].text = Copy((start + size - asked) % LogCapacity, n)
  BY DEF CopyTail, ReportInv, Readers
<1> HIDE DEF asked, n
<1>4. /\ reader'[r].text = [i \in 1 .. n |-> total - asked + i]
      /\ \A i \in 1 .. n : total - asked + i \in Nat
  BY <1>2, <1>3, CopiedBytes DEF ReportInv
<1>5. SubSeq(Newest(total, asked), 1, n) = [i \in 1 .. n |-> total - asked + i]
  <2>1. Newest(total, asked) = [i \in 1 .. asked |-> total - asked + i]
    BY DEF Newest
  <2>2. asked \in Nat /\ n \in 0 .. asked
    BY <1>1, <1>2
  <2>3. Newest(total, asked) \in Seq(Int) /\ Len(Newest(total, asked)) = asked
    BY <1>1, <2>1, <2>2
  <2> QED BY <2>1, <2>2, <2>3
<1>6. reader'[r].text \in Seq(Nat)
  <2>1. n \in Nat
    BY <1>1, <1>2
  <2>2. [i \in 1 .. n |-> total - asked + i] \in [1 .. n -> Nat]
    BY <1>4
  <2> QED BY <1>4, <2>1, <2>2
<1> QED BY <1>1, <1>2, <1>4, <1>5, <1>6

LEMMA ReportInit == LogInit => ReportInv
<1> SUFFICES ASSUME LogInit PROVE ReportInv
  OBVIOUS
<1>1. \A r \in LogReaders : reader[r] = Resting
  BY DEF LogInit
<1>2. Resting \in Readers /\ Resting.pc = "rest"
  BY DEF Resting, Readers
<1>3. reader \in [LogReaders -> Readers]
  BY <1>2 DEF LogInit
<1> QED BY <1>1, <1>2, <1>3, LogInitInv DEF ReportInv, ReadersBehind, LogReportTrue

\* What others log meanwhile takes nothing from a report.
LEMMA AppendKeepsReports ==
  ASSUME ReportInv, LogAppend
  PROVE  ReportInv'
<1>1. LogIInv' /\ reader' = reader
  BY LogStepKeepsInv DEF ReportInv, LogNext, LogAppend
<1>2. /\ size <= size' /\ dropped <= dropped' /\ total <= total' /\ (missed' = 0 => missed = 0)
      /\ {size, size', dropped, dropped', total, total'} \subseteq Int
  BY <1>1, LogGrows, LogAssumption DEF ReportInv, LogIInv, LogTypeOK
<1>3. \A r \in LogReaders :
        {reader[r].stored, reader[r].from, reader[r].dropped} \subseteq Nat
  BY DEF ReportInv, Readers
<1>4. ReadersBehind'
  BY <1>1, <1>2, <1>3 DEF ReportInv, ReadersBehind
<1>5. LogReportTrue'
  <2> SUFFICES ASSUME NEW r \in LogReaders, reader[r].pc \in {"copy", "done"}, missed' = 0
               PROVE  reader[r].stored + reader[r].dropped \in reader[r].from .. total'
    BY <1>1 DEF ReportInv, LogReportTrue
  <2>1. reader[r].stored + reader[r].dropped \in reader[r].from .. total
    BY <1>2 DEF ReportInv, LogReportTrue
  <2> QED BY <1>2, <1>3, <2>1
<1> QED BY <1>1, <1>4, <1>5 DEF ReportInv

\* Of a reader's step the others notice nothing.
LEMMA ReaderKeepsReports ==
  ASSUME ReportInv, NEW r \in LogReaders,
         ReadSize(r) \/ ReadDropped(r) \/ CopyTail(r) \/ Rendered(r)
  PROVE  ReportInv'
<1>1. /\ UNCHANGED <<ring, start, size, dropped, total, missed>>
      /\ \A q \in LogReaders \ {r} : reader'[q] = reader[q]
  BY DEF ReadSize, ReadDropped, CopyTail, Rendered, ReportInv
<1>2. LogIInv'
  BY <1>1 DEF ReportInv, LogIInv, LogTypeOK, HoldsNewest
<1>3. /\ LogCapacity \in Nat /\ size \in Nat /\ dropped \in Nat /\ total \in Nat /\ missed \in Nat
      /\ size + dropped + missed = total
  BY LogAssumption DEF ReportInv, LogIInv, LogTypeOK
<1> DEFINE old == reader[r]
           new == reader'[r]
<1>4. ASSUME new \in Readers, reader' = [reader EXCEPT ![r] = new],
             new.pc # "rest" =>
               /\ new.stored <= size /\ new.from <= total
               /\ new.pc = "dropped" /\ missed = 0 => new.from <= new.stored + dropped,
             new.pc = "done" =>
               LET kept == AtMost(new.upto, LogCapacity)
                   asked == IF new.want = 0 THEN kept ELSE AtMost(new.want, kept) IN
               new.text = SubSeq(Newest(new.upto, asked), 1, AtMost(asked, TailMax - 1)),
             new.pc \in {"copy", "done"} /\ missed = 0 => new.stored + new.dropped \in new.from .. total
      PROVE  ReportInv'
  <2> HIDE DEF new
  <2>1. reader' \in [LogReaders -> Readers]
    BY <1>4 DEF ReportInv
  <2>2. reader'[r] = new
    BY DEF new
  <2>3. ReadersBehind'
    BY <1>1, <1>4, <2>2 DEF ReportInv, ReadersBehind
  <2>4. LogReportTrue'
    BY <1>1, <1>4, <2>2 DEF ReportInv, LogReportTrue
  <2> QED BY <1>2, <2>1, <2>3, <2>4 DEF ReportInv
<1>5. old \in Readers
  BY DEF ReportInv
<1>6. CASE ReadSize(r)
  <2>1. PICK want \in LogRequests :
          reader' = [reader EXCEPT ![r] = [Resting EXCEPT !.pc = "dropped", !.want = want,
                                                          !.stored = size, !.from = total]]
    BY <1>6 DEF ReadSize
  <2>2. new = [pc |-> "dropped", want |-> want, stored |-> size, dropped |-> 0, text |-> <<>>,
               from |-> total, upto |-> 0]
    BY <2>1 DEF ReportInv, Resting
  <2>3. new \in Readers
    <3>1. want \in Nat /\ <<>> \in Seq(Nat)
      BY LogAssumption
    <3> HIDE DEF new
    <3> QED BY <1>3, <2>2, <3>1 DEF Readers
  <2>4. reader' = [reader EXCEPT ![r] = new]
    BY <2>1 DEF ReportInv
  <2> HIDE DEF new
  <2>5. new.pc = "dropped" /\ new.stored = size /\ new.from = total
    BY <2>2
  <2> QED BY <1>3, <1>4, <2>3, <2>4, <2>5
<1>7. CASE ReadDropped(r)
  <2>1. /\ old.pc = "dropped"
        /\ reader' = [reader EXCEPT ![r] = [old EXCEPT !.pc = "copy", !.dropped = dropped]]
    BY <1>7 DEF ReadDropped
  <2>2. /\ new \in Readers /\ new.pc = "copy" /\ new.dropped = dropped
        /\ new.stored = old.stored /\ new.from = old.from
        /\ reader' = [reader EXCEPT ![r] = new]
    BY <1>3, <1>5, <2>1 DEF ReportInv, Readers
  <2>3. /\ old.stored \in Nat /\ old.from \in Nat /\ old.stored <= size /\ old.from <= total
        /\ missed = 0 => old.from <= old.stored + dropped
    BY <1>5, <2>1 DEF ReportInv, ReadersBehind, Readers
  <2> HIDE DEF new, old
  <2> QED BY <1>3, <1>4, <2>2, <2>3
<1>8. CASE CopyTail(r)
  <2>1. /\ old.pc = "copy" /\ new.text \in Seq(Nat)
        /\ reader' = [reader EXCEPT ![r] = [old EXCEPT !.pc = "done", !.upto = total, !.text = new.text]]
    BY <1>8, CopyTailShows DEF CopyTail, ReportInv, Readers
  <2> DEFINE text == new.text
  <2>2. [old EXCEPT !.pc = "done", !.upto = total, !.text = text] \in Readers
    <3> HIDE DEF text, old
    <3>1. text \in Seq(Nat)
      BY <2>1 DEF text
    <3> QED BY <1>3, <1>5, <3>1 DEF Readers
  <2>3. new = [old EXCEPT !.pc = "done", !.upto = total, !.text = text]
    BY <2>1 DEF ReportInv
  <2>4. /\ new \in Readers /\ new.pc = "done" /\ new.upto = total /\ new.want = old.want
        /\ new.stored = old.stored /\ new.dropped = old.dropped /\ new.from = old.from
        /\ reader' = [reader EXCEPT ![r] = new]
    <3> HIDE DEF text, old
    <3>1. new \in Readers
      BY <2>2, <2>3
    <3> QED BY <1>5, <2>1, <2>3, <3>1 DEF Readers, text
  <2>5. LET kept == AtMost(total, LogCapacity)
            asked == IF old.want = 0 THEN kept ELSE AtMost(old.want, kept) IN
        new.text = SubSeq(Newest(total, asked), 1, AtMost(asked, TailMax - 1))
    BY <1>8, CopyTailShows
  <2>6. /\ old.stored <= size /\ old.from <= total
        /\ missed = 0 => old.stored + old.dropped \in old.from .. total
    BY <2>1 DEF ReportInv, ReadersBehind, LogReportTrue
  <2> HIDE DEF new, old, text
  <2> QED BY <1>4, <2>4, <2>5, <2>6
<1>9. CASE Rendered(r)
  <2>1. new \in Readers /\ new.pc = "rest" /\ reader' = [reader EXCEPT ![r] = new]
    BY <1>9 DEF Rendered, ReportInv, Resting, Readers
  <2> HIDE DEF new
  <2> QED BY <1>4, <2>1
<1> QED BY <1>6, <1>7, <1>8, <1>9

\* espclaw_log_buffer_render_json shows the newest bytes, or the oldest of those
\* asked for when they do not fit, and its counts add up to a length the log had
\* while it was made, however many tasks log between its critical sections.
THEOREM ReportsAreTrue == LogSpec => []LogReportTrue
<1>1. ReportInv /\ [LogNext]_logVars => ReportInv'
  <2> SUFFICES ASSUME ReportInv, [LogNext]_logVars PROVE ReportInv'
    OBVIOUS
  <2>1. CASE UNCHANGED logVars
    BY <2>1 DEF logVars, ReportInv, LogIInv, LogTypeOK, HoldsNewest, ReadersBehind, LogReportTrue
  <2> QED BY <2>1, AppendKeepsReports, ReaderKeepsReports DEF LogNext
<1>2. ReportInv => LogReportTrue
  BY DEF ReportInv
<1> QED BY <1>1, <1>2, ReportInit, PTL DEF LogSpec
-----------------------------------------------------------------------------
(* BlobStore                                                               *)

Beginning == {"beginUnlink", "beginOpen", "beginWrite"}
Appending == {"recv", "appendOpen", "appendWrite"}
Moved == {"commitOpen", "commitWrite", "unstage"}
Committing == {"rename"} \cup Moved

BeginRequests == [pc : Beginning, blob : Blobs, meta : {[named |-> TRUE, bytes |-> 0]}]
RecvRequests == [pc : {"recv"}, blob : Blobs, first : Nat, len : Nat, stored : Nat, counted : Nat]
MetaRequests ==
  [pc : {"appendOpen", "appendWrite"}, blob : Blobs, first : Nat, len : Nat, stored : Nat, counted : Nat,
   meta : Metas]
CommitRequests == [pc : Committing, blob : Blobs, meta : Metas]

BlobTypes ==
  /\ part \in [Blobs -> Seq(Nat) \cup {Absent}] /\ file \in [Blobs -> Seq(Nat) \cup {Absent}]
  /\ smeta \in [Blobs -> Metas \cup {Absent}] /\ cmeta \in [Blobs -> Metas \cup {Absent}]
  /\ req \in {Idle} \cup BeginRequests \cup RecvRequests \cup MetaRequests \cup CommitRequests
  /\ session \in [Blobs -> {"none", "open", "committing", "committed"}]
  /\ acked \in [Blobs -> SUBSET Nat] /\ begun \in [Blobs -> Nat]
  /\ sent \in Nat

\* A file that holds bytes in the order they were sent, all after the byte low
\* and none after the byte high.
InOrder(f, low, high) ==
  f # Absent =>
    /\ \A i, j \in DOMAIN f : i < j => f[i] < f[j]
    /\ \A i \in DOMAIN f : low < f[i] /\ f[i] <= high

\* The staging file of every upload is in order, and holds what was acknowledged.
StagedInv ==
  \A b \in Blobs :
    /\ begun[b] <= sent
    /\ InOrder(part[b], begun[b], sent)
    /\ part[b] # Absent => acked[b] \subseteq Stored(part[b])

\* What the files of an upload are when its client was told that it is open.
OpenInv ==
  \A b \in Blobs : session[b] = "open" =>
    /\ part[b] # Absent
    /\ smeta[b] # Absent => smeta[b].bytes <= Len(part[b])

\* What they are when its client was told that it is committed.
CommittedInv ==
  \A b \in Blobs : session[b] = "committed" =>
    smeta[b] = Absent /\ cmeta[b] # Absent /\ acked[b] \subseteq Stored(file[b])

\* Where a request stands.
BeginInv ==
  req.pc \in Beginning =>
    session[req.blob] = "none" /\ part[req.blob] = <<>> /\ acked[req.blob] = {}

AppendInv ==
  req.pc \in Appending =>
    /\ session[req.blob] = "open" /\ smeta[req.blob] # Absent
    /\ begun[req.blob] < req.first /\ req.first + req.len = sent + 1 /\ req.stored <= req.len
    /\ InOrder(part[req.blob], begun[req.blob], req.first + req.stored - 1)
    /\ req.first .. req.first + req.stored - 1 \subseteq Stored(part[req.blob])
    /\ IF req.pc = "recv" THEN req.stored <= req.counted /\ req.stored <= smeta[req.blob].bytes
                          ELSE req.stored <= req.meta.bytes /\ req.meta.bytes <= Len(part[req.blob])

CommitInv ==
  req.pc \in Committing =>
    /\ session[req.blob] = "committing"
    /\ req.pc \in Moved => acked[req.blob] \subseteq Stored(file[req.blob])
    /\ req.pc = "unstage" => cmeta[req.blob] # Absent

BlobIInv ==
  BlobTypes /\ StagedInv /\ OpenInv /\ CommittedInv /\ BeginInv /\ AppendInv /\ CommitInv

-----------------------------------------------------------------------------
\* n bytes from the byte next on.
BytesFrom(next, n) == [i \in 1 .. n |-> next + i - 1]

\* What a file is, that was opened and not yet written.
LEMMA EmptyFiles ==
  Torn \in Metas /\ Torn # Absent /\ <<>> \in Seq(Nat) /\ <<>> # Absent
<1>1. Torn \in Metas
  BY DEF Torn, Metas
<1>2. <<>> \in Seq(Nat)
  OBVIOUS
<1>3. Absent \notin Seq(Nat) /\ Absent \notin Metas
  BY BlobAssumption
<1> QED BY <1>1, <1>2, <1>3, Zenon

\* g is f and after it n bytes from next on, in order.
Extends(g, f, low, next, n) ==
  /\ g \in Seq(Nat) /\ g # Absent
  /\ Len(g) = Len(f) + n
  /\ InOrder(g, low, next + n - 1)
  /\ Stored(g) = Stored(f) \cup next .. next + n - 1

\* The next n bytes of a body, put after a file in order that has none of them.
LEMMA BodyInOrder ==
  ASSUME NEW f \in Seq(Nat), NEW low \in Nat, NEW next \in Nat, NEW n \in Nat,
         low < next, InOrder(f, low, next - 1)
  PROVE  Extends(f \o BytesFrom(next, n), f, low, next, n)
<1> DEFINE body == BytesFrom(next, n)
           g == f \o body
<1>1. body \in Seq(Nat) /\ Len(body) = n /\ \A i \in 1 .. n : body[i] = next + i - 1
  BY DEF BytesFrom
<1>2. f # Absent
  BY BlobAssumption
<1>3. /\ g \in Seq(Nat) /\ Len(g) = Len(f) + n
      /\ \A i \in 1 .. Len(f) : g[i] = f[i]
      /\ \A i \in Len(f) + 1 .. Len(f) + n : g[i] = next + (i - Len(f)) - 1
  <2>1. g \in Seq(Nat) /\ Len(g) = Len(f) + n /\ \A i \in 1 .. Len(f) : g[i] = f[i]
    BY <1>1 DEF BytesFrom
  <2>2. ASSUME NEW i \in Len(f) + 1 .. Len(f) + n PROVE g[i] = next + (i - Len(f)) - 1
    <3>1. i - Len(f) \in 1 .. n /\ g[i] = body[i - Len(f)]
      BY <1>1
    <3> QED BY <1>1, <3>1
  <2> QED BY <2>1, <2>2
<1> HIDE DEF g, body
<1>4. /\ DOMAIN g = 1 .. Len(f) + n /\ DOMAIN f = 1 .. Len(f) /\ Len(f) \in Nat
      /\ next \in Nat /\ low \in Nat /\ n \in Nat /\ low < next
  BY <1>3
<1>5. \A i \in 1 .. Len(f) : f[i] \in Nat /\ low < f[i] /\ f[i] <= next - 1
  BY <1>2, <1>4 DEF InOrder
<1>6. ASSUME NEW i \in DOMAIN g, i <= Len(f)
        PROVE  i \in DOMAIN f /\ g[i] = f[i] /\ g[i] \in Nat /\ low < g[i] /\ g[i] <= next - 1
  BY <1>6, <1>3, <1>4, <1>5
<1>7. ASSUME NEW i \in DOMAIN g, ~ (i <= Len(f))
      PROVE  g[i] = next + (i - Len(f)) - 1 /\ i - Len(f) \in 1 .. n
  <2>1. i - Len(f) \in 1 .. n /\ i \in Len(f) + 1 .. Len(f) + n
    BY <1>7, <1>4
  <2> QED BY <1>3, <2>1
<1>8. InOrder(g, low, next + n - 1)
  <2>1. ASSUME NEW i \in DOMAIN g PROVE low < g[i] /\ g[i] <= next + n - 1
    <3>1. CASE i <= Len(f)
      <4>1. g[i] \in Nat /\ low < g[i] /\ g[i] <= next - 1
        BY <3>1, <1>6
      <4> QED BY <4>1, <1>4
    <3>2. CASE ~ (i <= Len(f))
      <4>1. g[i] = next + (i - Len(f)) - 1 /\ i - Len(f) \in 1 .. n
        BY <3>2, <1>7
      <4> QED BY <4>1, <1>4
    <3> QED BY <3>1, <3>2
  <2>2. ASSUME NEW i \in DOMAIN g, NEW j \in DOMAIN g, i < j
        PROVE  g[i] < g[j]
    <3>0. i \in Nat /\ j \in Nat
      BY <1>4
    <3>1. CASE j <= Len(f)
      <4>1. i <= Len(f)
        BY <1>4, <2>2, <3>0, <3>1
      <4>2. g[i] = f[i] /\ g[j] = f[j] /\ i \in DOMAIN f /\ j \in DOMAIN f
        BY <3>1, <4>1, <1>6
      <4> QED BY <1>2, <2>2, <4>2 DEF InOrder
    <3>2. CASE ~ (i <= Len(f))
      <4>1. ~ (j <= Len(f))
        BY <1>4, <2>2, <3>0, <3>2
      <4>2. g[i] = next + (i - Len(f)) - 1 /\ g[j] = next + (j - Len(f)) - 1
        BY <3>2, <4>1, <1>7
      <4> QED BY <1>4, <2>2, <3>0, <4>2
    <3>3. CASE i <= Len(f) /\ ~ (j <= Len(f))
      <4>1. g[i] \in Nat /\ g[i] <= next - 1
        BY <3>3, <1>6
      <4>2. g[j] = next + (j - Len(f)) - 1 /\ j - Len(f) \in 1 .. n
        BY <3>3, <1>7
      <4> QED BY <1>4, <4>1, <4>2
    <3> QED BY <3>1, <3>2, <3>3
  <2> QED BY <2>1, <2>2 DEF InOrder
<1>9. Stored(g) = Stored(f) \cup next .. next + n - 1
  <2>1. g # Absent /\ Stored(g) = {g[i] : i \in DOMAIN g} /\ Stored(f) = {f[i] : i \in DOMAIN f}
    BY <1>2, <1>3, BlobAssumption DEF Stored, ToSet
  <2>2. ASSUME NEW x \in next .. next + n - 1 PROVE x \in Stored(g)
    <3> DEFINE k == Len(f) + (x - next) + 1
    <3>1. k \in DOMAIN g /\ ~ (k <= Len(f)) /\ k - Len(f) = x - next + 1
      BY <1>4
    <3>2. g[k] = next + (k - Len(f)) - 1
      BY <3>1, <1>7
    <3>3. g[k] = x
      BY <1>4, <3>1, <3>2
    <3> HIDE DEF k
    <3> QED BY <2>1, <3>1, <3>3
  <2>3. ASSUME NEW i \in DOMAIN f PROVE f[i] \in Stored(g)
    <3>1. i \in DOMAIN g /\ i <= Len(f)
      BY <1>4
    <3>2. g[i] = f[i]
      BY <3>1, <1>6
    <3> QED BY <2>1, <3>1, <3>2
  <2>4. ASSUME NEW i \in DOMAIN g PROVE g[i] \in Stored(f) \cup next .. next + n - 1
    <3>1. CASE i <= Len(f)
      <4>1. i \in DOMAIN f /\ g[i] = f[i]
        BY <3>1, <1>6
      <4> QED BY <2>1, <4>1
    <3>2. CASE ~ (i <= Len(f))
      <4>1. g[i] = next + (i - Len(f)) - 1 /\ i - Len(f) \in 1 .. n
        BY <3>2, <1>7
      <4> QED BY <1>4, <4>1
    <3> QED BY <3>1, <3>2
  <2> QED BY <2>1, <2>2, <2>3, <2>4
<1> QED BY <1>3, <1>8, <1>9, BlobAssumption DEF g, body, Extends

\* What the handlers know of the request under way.
LEMMA ReqTypes ==
  ASSUME BlobTypes
  PROVE  /\ req.pc \in {"idle"} \cup Beginning \cup Appending \cup Committing
         /\ req.pc \in Beginning => req \in BeginRequests
         /\ req.pc = "recv" => req \in RecvRequests
         /\ req.pc \in {"appendOpen", "appendWrite"} => req \in MetaRequests
         /\ req.pc \in Committing => req \in CommitRequests
         /\ req.pc # "idle" => req.blob \in Blobs
BY DEF BlobTypes, Idle, BeginRequests, RecvRequests, MetaRequests, CommitRequests, Beginning, Appending,
       Moved, Committing

\* No upload, no file and no request.
LEMMA BlobInitInv == BlobInit => BlobIInv
<1> SUFFICES ASSUME BlobInit PROVE BlobIInv
  OBVIOUS
<1>1. BlobTypes
  BY DEF BlobInit, BlobTypes
<1>2. StagedInv /\ OpenInv /\ CommittedInv
  BY DEF BlobInit, StagedInv, OpenInv, CommittedInv, InOrder
<1>3. BeginInv /\ AppendInv /\ CommitInv
  BY DEF BlobInit, BeginInv, AppendInv, CommitInv, Idle, Beginning, Appending, Moved, Committing
<1> QED BY <1>1, <1>2, <1>3 DEF BlobIInv

-----------------------------------------------------------------------------
\* The steps of begin.
LEMMA BeginSteps ==
  ASSUME BlobIInv,
         (\E b \in Blobs : BeginTruncate(b)) \/ BeginUnlink \/ BeginOpen \/ BeginWrite
  PROVE  BlobIInv'
<1> USE DEF BlobIInv
<1>0. BlobTypes /\ StagedInv /\ OpenInv /\ CommittedInv /\ BeginInv
  OBVIOUS
<1>1. ASSUME NEW b \in Blobs, BeginTruncate(b) PROVE BlobIInv'
  <2>1. BlobTypes'
    <3>1. req' \in BeginRequests
      BY <1>1 DEF BeginTruncate, BeginRequests, Beginning
    <3>2. UNCHANGED <<smeta, cmeta, file, sent>> /\ sent \in Nat
      BY <1>1 DEF BeginTruncate, BlobTypes
    <3>3. part' \in [Blobs -> Seq(Nat) \cup {Absent}] /\ acked' \in [Blobs -> SUBSET Nat]
          /\ begun' \in [Blobs -> Nat] /\ session' \in [Blobs -> {"none", "open", "committing", "committed"}]
      BY <1>1, <3>2 DEF BeginTruncate, BlobTypes
    <3> QED BY <3>1, <3>2, <3>3 DEF BlobTypes
  <2>2. /\ \A a \in Blobs : a # b => UNCHANGED <<part[a], session[a], acked[a], begun[a]>>
        /\ part'[b] = <<>> /\ session'[b] = "none" /\ acked'[b] = {} /\ begun'[b] = sent
        /\ UNCHANGED <<smeta, cmeta, file, sent>>
        /\ req'.pc = "beginUnlink" /\ req'.blob = b
    BY <1>1 DEF BeginTruncate, BlobTypes
  <2>3. StagedInv'
    <3>1. begun'[b] <= sent' /\ acked'[b] \subseteq Stored(part'[b])
      BY <2>2 DEF BlobTypes
    <3>2. InOrder(part'[b], begun'[b], sent')
      BY <2>2 DEF InOrder
    <3> QED BY <2>2, <3>1, <3>2 DEF StagedInv
  <2>4. OpenInv' /\ CommittedInv'
    BY <2>2 DEF OpenInv, CommittedInv
  <2>5. BeginInv' /\ AppendInv' /\ CommitInv'
    BY <2>2 DEF BeginInv, AppendInv, CommitInv, Beginning, Appending, Moved, Committing
  <2> QED BY <2>1, <2>3, <2>4, <2>5
<1>2. ASSUME BeginUnlink \/ BeginOpen PROVE BlobIInv'
  <2>1. req.pc \in Beginning /\ req \in BeginRequests /\ req.blob \in Blobs
    BY <1>2, ReqTypes DEF BeginUnlink, BeginOpen, Beginning
  <2>2. PICK pc \in Beginning : req' = [req EXCEPT !.pc = pc]
    BY <1>2 DEF BeginUnlink, BeginOpen, Goto, Beginning
  <2>3. req' \in BeginRequests /\ req'.pc = pc /\ req'.blob = req.blob
    BY <2>1, <2>2 DEF BeginRequests
  <2>4. PICK m \in {Absent, Torn} : smeta' = [smeta EXCEPT ![req.blob] = m]
    BY <1>2 DEF BeginUnlink, BeginOpen
  <2>5. UNCHANGED <<part, cmeta, file, session, acked, begun, sent>>
    BY <1>2 DEF BeginUnlink, BeginOpen
  <2>6. BlobTypes'
    <3>1. m \in Metas \cup {Absent}
      BY EmptyFiles
    <3>2. smeta' \in [Blobs -> Metas \cup {Absent}]
      BY <2>1, <2>4, <3>1 DEF BlobTypes
    <3> QED BY <2>3, <2>5, <3>2 DEF BlobTypes
  <2>7. session[req.blob] = "none" /\ part[req.blob] = <<>> /\ acked[req.blob] = {}
    BY <2>1 DEF BeginInv
  <2>8. StagedInv' /\ BeginInv'
    BY <2>3, <2>5, <2>7 DEF StagedInv, InOrder, Stored, BeginInv
  <2>9. OpenInv' /\ CommittedInv'
    BY <2>1, <2>4, <2>5, <2>7 DEF OpenInv, CommittedInv, BlobTypes
  <2>10. AppendInv' /\ CommitInv'
    BY <2>3 DEF AppendInv, CommitInv, Beginning, Appending, Moved, Committing
  <2> QED BY <2>6, <2>8, <2>9, <2>10
<1>3. ASSUME BeginWrite PROVE BlobIInv'
  <2>1. req.pc \in Beginning /\ req \in BeginRequests /\ req.blob \in Blobs
    BY <1>3, ReqTypes DEF BeginWrite, Beginning
  <2>2. session[req.blob] = "none" /\ part[req.blob] = <<>> /\ acked[req.blob] = {}
    BY <2>1 DEF BeginInv
  <2>3. req.meta = [named |-> TRUE, bytes |-> 0]
    BY <2>1 DEF BeginRequests
  <2>4. /\ smeta' = [smeta EXCEPT ![req.blob] = req.meta] /\ session' = [session EXCEPT ![req.blob] = "open"]
        /\ req' = Idle /\ UNCHANGED <<part, cmeta, file, acked, begun, sent>>
    BY <1>3 DEF BeginWrite, Told
  <2>5. BlobTypes'
    BY <2>1, <2>3, <2>4 DEF BlobTypes, Metas
  <2>6. StagedInv'
    BY <2>4 DEF StagedInv, InOrder, Stored
  <2>7. OpenInv'
    <3>1. part[req.blob] # Absent /\ Len(part[req.blob]) = 0
      BY <2>2, EmptyFiles
    <3>2. smeta'[req.blob] = req.meta
      BY <2>1, <2>4 DEF BlobTypes
    <3>3. smeta'[req.blob].bytes = 0
      BY <2>3, <3>2
    <3> QED BY <2>1, <2>4, <3>1, <3>3 DEF OpenInv, BlobTypes
  <2>8. CommittedInv'
    BY <2>1, <2>4 DEF CommittedInv, BlobTypes
  <2>9. BeginInv' /\ AppendInv' /\ CommitInv'
    BY <2>4 DEF BeginInv, AppendInv, CommitInv, Idle, Beginning, Appending, Moved, Committing
  <2> QED BY <2>5, <2>6, <2>7, <2>8, <2>9
<1> QED BY <1>1, <1>2, <1>3

\* A request of an append begins.
LEMMA AppendBegins ==
  ASSUME BlobIInv, NEW b \in Blobs, NEW len \in 1 .. MaxBody, AppendBegin(b, len)
  PROVE  BlobIInv'
<1> USE DEF BlobIInv
<1>1. /\ sent' = sent + len /\ sent \in Nat /\ len \in Nat
      /\ req' = [pc |-> "recv", blob |-> b, first |-> sent + 1, len |-> len, stored |-> 0, counted |-> 0]
      /\ UNCHANGED <<part, smeta, cmeta, file, session, acked, begun>>
      /\ session[b] = "open" /\ smeta[b] # Absent
  BY BlobAssumption DEF AppendBegin, files, BlobTypes
<1>2. BlobTypes'
  BY <1>1 DEF BlobTypes, RecvRequests
<1>3. ASSUME NEW a \in Blobs
      PROVE  begun[a] <= sent' /\ InOrder(part[a], begun[a], sent')
  <2>1. begun[a] \in Nat /\ begun[a] <= sent /\ InOrder(part[a], begun[a], sent)
    BY DEF StagedInv, BlobTypes
  <2>2. part[a] \in Seq(Nat) \cup {Absent}
    BY DEF BlobTypes
  <2> QED BY <1>1, <2>1, <2>2 DEF InOrder
<1>4. StagedInv' /\ OpenInv' /\ CommittedInv'
  BY <1>1, <1>3 DEF StagedInv, OpenInv, CommittedInv, Stored
<1>5. BeginInv' /\ CommitInv'
  BY <1>1 DEF BeginInv, CommitInv, Beginning, Moved, Committing
<1>6. AppendInv'
  <2>1. /\ begun[b] \in Nat /\ begun[b] <= sent /\ InOrder(part[b], begun[b], sent)
        /\ smeta[b] \in Metas
    BY <1>1 DEF StagedInv, BlobTypes
  <2>2. sent + 1 + 0 - 1 = sent /\ (sent + 1) .. sent = {} /\ sent + 1 + len = (sent + len) + 1
    BY <1>1
  <2>3. smeta[b].bytes \in Nat /\ begun[b] < sent + 1
    BY <1>1, <2>1 DEF Metas
  <2> QED BY <1>1, <2>1, <2>2, <2>3 DEF AppendInv
<1> QED BY <1>2, <1>4, <1>5, <1>6

\* What one call of httpd_req_recv and fwrite puts after the staging file.
LEMMA AppendedPart ==
  ASSUME BlobTypes, OpenInv, AppendInv, req.pc = "recv", NEW n \in Nat, n <= req.len - req.counted,
         part' = [part EXCEPT ![req.blob] = IF @ = Absent THEN Body(n) ELSE @ \o Body(n)]
  PROVE  /\ req \in RecvRequests
         /\ part' \in [Blobs -> Seq(Nat) \cup {Absent}]
         /\ part'[req.blob] # Absent
         /\ Len(part'[req.blob]) = Len(part[req.blob]) + n /\ Len(part[req.blob]) \in Nat
         /\ InOrder(part'[req.blob], begun[req.blob], req.first + (req.stored + n) - 1)
         /\ InOrder(part'[req.blob], begun[req.blob], sent)
         /\ Stored(part[req.blob]) \subseteq Stored(part'[req.blob])
         /\ req.first .. req.first + (req.stored + n) - 1 \subseteq Stored(part'[req.blob])
         /\ req.stored + n <= req.len
         /\ \A a \in Blobs : a # req.blob => part'[a] = part[a]
<1>1. /\ req \in RecvRequests /\ req.blob \in Blobs
      /\ req.first \in Nat /\ req.stored \in Nat /\ req.len \in Nat /\ req.counted \in Nat
  BY ReqTypes DEF RecvRequests
<1> DEFINE b == req.blob
           next == req.first + req.stored
<1>2. /\ begun[b] < req.first /\ req.first + req.len = sent + 1 /\ req.stored <= req.counted
      /\ InOrder(part[b], begun[b], req.first + req.stored - 1)
      /\ req.first .. req.first + req.stored - 1 \subseteq Stored(part[b])
      /\ session[b] = "open"
  BY DEF AppendInv, Appending
<1>3. begun[b] \in Nat /\ sent \in Nat
  BY <1>1 DEF BlobTypes
<1>4. next \in Nat /\ begun[b] < next /\ InOrder(part[b], begun[b], next - 1)
  BY <1>1, <1>2, <1>3
<1>5. part[b] \in Seq(Nat) /\ part[b] # Absent
  BY <1>1, <1>2 DEF BlobTypes, OpenInv
<1>6. Body(n) = BytesFrom(next, n)
  BY DEF Body, BytesFrom
<1> DEFINE g == part[b] \o BytesFrom(next, n)
<1>7. part'[b] = g /\ part' = [part EXCEPT ![b] = g] /\ \A a \in Blobs : a # b => part'[a] = part[a]
  BY <1>1, <1>5, <1>6 DEF BlobTypes
<1>8. Extends(g, part[b], begun[b], next, n)
  <2> HIDE DEF b, next
  <2> QED BY <1>3, <1>4, <1>5, BodyInOrder
<1>9. /\ g \in Seq(Nat) /\ g # Absent /\ Len(g) = Len(part[b]) + n
      /\ InOrder(g, begun[b], next + n - 1)
      /\ Stored(g) = Stored(part[b]) \cup next .. next + n - 1
  BY <1>8, Zenon DEF Extends
<1> HIDE DEF g
<1>10. next + n - 1 = req.first + (req.stored + n) - 1 /\ next + n - 1 <= sent /\ req.stored + n <= req.len
  BY <1>1, <1>2, <1>3
<1>11. InOrder(g, begun[b], sent)
  <2>1. DOMAIN g = 1 .. Len(g) /\ \A i \in DOMAIN g : g[i] \in Nat
    BY <1>9
  <2>2. ASSUME NEW i \in DOMAIN g PROVE g[i] <= sent
    <3> HIDE DEF b, next
    <3>1. g[i] \in Nat /\ g[i] <= next + n - 1
      BY <1>9, <2>1 DEF InOrder
    <3> QED BY <1>3, <1>4, <1>10, <3>1
  <2> QED BY <1>9, <2>2 DEF InOrder
<1>12. req.first .. req.first + (req.stored + n) - 1
         \subseteq (req.first .. req.first + req.stored - 1) \cup (next .. next + n - 1)
  BY <1>1
<1>13. part' \in [Blobs -> Seq(Nat) \cup {Absent}]
  BY <1>7, <1>9 DEF BlobTypes
<1>14. Len(part[b]) \in Nat
  BY <1>5
<1> QED BY <1>1, <1>2, <1>7, <1>9, <1>10, <1>11, <1>12, <1>13, <1>14

\* The data of an append is in its file before the metadata counts it.
LEMMA AppendWritesData ==
  ASSUME BlobIInv, AppendData \/ AppendShort
  PROVE  BlobIInv'
<1> USE DEF BlobIInv
<1> DEFINE b == req.blob
<1>0. PICK n \in Nat :
        /\ req.pc = "recv" /\ n <= req.len - req.counted
        /\ part' = [part EXCEPT ![req.blob] = IF @ = Absent THEN Body(n) ELSE @ \o Body(n)]
        /\ UNCHANGED <<smeta, cmeta, file, session, acked, begun, sent>>
        /\ \/ req' = Idle
           \/ req' = [pc |-> "appendOpen", blob |-> req.blob, first |-> req.first, len |-> req.len,
                      stored |-> req.stored + n, counted |-> req.counted,
                      meta |-> [smeta[req.blob] EXCEPT !.bytes = @ + n]]
  <2>1. CASE AppendData
    <3>1. PICK n \in Received :
            /\ part' = [part EXCEPT ![req.blob] = IF @ = Absent THEN Body(n) ELSE @ \o Body(n)]
            /\ req' = [pc |-> "appendOpen", blob |-> req.blob, first |-> req.first, len |-> req.len,
                       stored |-> req.stored + n, counted |-> req.counted,
                       meta |-> [smeta[req.blob] EXCEPT !.bytes = @ + n]]
      BY <2>1 DEF AppendData
    <3>2. n \in Nat /\ n <= req.len - req.counted
      BY BlobAssumption DEF Received
    <3>3. req.pc = "recv" /\ UNCHANGED <<smeta, cmeta, file, session, acked, begun, sent>>
      BY <2>1 DEF AppendData
    <3> QED BY <3>1, <3>2, <3>3
  <2>2. CASE AppendShort
    <3>1. req.pc = "recv" /\ req \in RecvRequests
      BY <2>2, ReqTypes DEF AppendShort
    <3>2. PICK m \in Received : \E n \in 0 .. m - 1 :
            part' = [part EXCEPT ![req.blob] = IF @ = Absent THEN Body(n) ELSE @ \o Body(n)]
      BY <2>2 DEF AppendShort
    <3>3. PICK n \in 0 .. m - 1 :
            part' = [part EXCEPT ![req.blob] = IF @ = Absent THEN Body(n) ELSE @ \o Body(n)]
      BY <3>2
    <3>4. n \in Nat /\ n <= req.len - req.counted
      BY <3>1, BlobAssumption DEF Received, RecvRequests
    <3> QED BY <2>2, <3>1, <3>3, <3>4 DEF AppendShort
  <2> QED BY <2>1, <2>2
<1>1. /\ req \in RecvRequests
      /\ part' \in [Blobs -> Seq(Nat) \cup {Absent}]
      /\ part'[req.blob] # Absent
      /\ Len(part'[req.blob]) = Len(part[req.blob]) + n /\ Len(part[req.blob]) \in Nat
      /\ InOrder(part'[req.blob], begun[req.blob], req.first + (req.stored + n) - 1)
      /\ InOrder(part'[req.blob], begun[req.blob], sent)
      /\ Stored(part[req.blob]) \subseteq Stored(part'[req.blob])
      /\ req.first .. req.first + (req.stored + n) - 1 \subseteq Stored(part'[req.blob])
      /\ req.stored + n <= req.len
      /\ \A a \in Blobs : a # req.blob => part'[a] = part[a]
  BY <1>0, AppendedPart
<1>2. /\ req.blob \in Blobs /\ req.first \in Nat /\ req.stored \in Nat /\ req.len \in Nat /\ req.counted \in Nat
  BY <1>1 DEF RecvRequests
<1>3. /\ session[b] = "open" /\ smeta[b] # Absent /\ part[b] # Absent
      /\ begun[b] < req.first /\ req.first + req.len = sent + 1 /\ req.stored <= smeta[b].bytes
      /\ smeta[b].bytes <= Len(part[b]) /\ smeta[b] \in Metas /\ smeta[b].bytes \in Nat
  BY <1>0, <1>2 DEF AppendInv, Appending, OpenInv, BlobTypes, Metas
<1> DEFINE m == [smeta[b] EXCEPT !.bytes = @ + n]
<1>4. m \in Metas /\ m.bytes = smeta[b].bytes + n
  BY <1>3 DEF Metas
<1>5. BlobTypes'
  <2>1. CASE req' = Idle
    BY <1>0, <1>1, <2>1 DEF BlobTypes
  <2>2. CASE req' # Idle
    <3>1. req' \in MetaRequests
      BY <1>0, <1>2, <1>4, <2>2 DEF MetaRequests
    <3> QED BY <1>0, <1>1, <3>1 DEF BlobTypes
  <2> QED BY <2>1, <2>2
<1>6. StagedInv'
  <2>1. ASSUME NEW a \in Blobs, a # b
        PROVE  /\ begun'[a] <= sent' /\ InOrder(part'[a], begun'[a], sent')
               /\ part'[a] # Absent => acked'[a] \subseteq Stored(part'[a])
    BY <1>0, <1>1, <2>1 DEF StagedInv
  <2>2. begun'[b] <= sent' /\ InOrder(part'[b], begun'[b], sent') /\ acked'[b] \subseteq Stored(part'[b])
    BY <1>0, <1>1, <1>2, <1>3 DEF StagedInv
  <2> QED BY <2>1, <2>2 DEF StagedInv
<1>7. OpenInv'
  <2>1. part'[b] # Absent /\ smeta'[b].bytes <= Len(part'[b])
    BY <1>0, <1>1, <1>3
  <2>2. \A a \in Blobs : a # b => part'[a] = part[a] /\ smeta'[a] = smeta[a] /\ session'[a] = session[a]
    BY <1>0, <1>1
  <2> HIDE DEF b, m
  <2> QED BY <2>1, <2>2 DEF OpenInv
<1>8. CommittedInv'
  BY <1>0 DEF CommittedInv
<1>9. BeginInv' /\ CommitInv'
  BY <1>0 DEF BeginInv, CommitInv, Idle, Beginning, Moved, Committing
<1>10. AppendInv'
  <2>1. CASE req' = Idle
    BY <2>1 DEF AppendInv, Idle, Appending
  <2>2. CASE req' # Idle
    <3>1. /\ req'.pc = "appendOpen" /\ req'.blob = b /\ req'.first = req.first /\ req'.len = req.len
          /\ req'.stored = req.stored + n /\ req'.meta = m
      BY <1>0, <2>2
    <3>2. req.stored + n <= m.bytes /\ m.bytes <= Len(part'[b])
      <4>1. m.bytes = smeta[b].bytes + n
        BY <1>4
      <4>2. Len(part'[b]) = Len(part[b]) + n /\ Len(part[b]) \in Nat
        BY <1>1
      <4> HIDE DEF m
      <4> QED BY <1>2, <1>3, <4>1, <4>2
    <3>3. /\ InOrder(part'[b], begun'[b], req'.first + req'.stored - 1)
          /\ req'.first .. req'.first + req'.stored - 1 \subseteq Stored(part'[b])
      BY <1>0, <1>1, <3>1
    <3>4. /\ session'[b] = "open" /\ smeta'[b] # Absent
          /\ begun'[b] < req'.first /\ req'.first + req'.len = sent' + 1 /\ req'.stored <= req'.len
      BY <1>0, <1>1, <1>3, <3>1
    <3>5. req'.stored <= req'.meta.bytes /\ req'.meta.bytes <= Len(part'[b]) /\ req'.pc # "recv" /\ req'.blob = b
      BY <3>1, <3>2
    <3> HIDE DEF b, m
    <3> QED BY <3>3, <3>4, <3>5 DEF AppendInv
  <2> QED BY <2>1, <2>2
<1> QED BY <1>5, <1>6, <1>7, <1>8, <1>9, <1>10

\* The metadata of an append is opened and written.
LEMMA AppendWritesMeta ==
  ASSUME BlobIInv, AppendOpen \/ AppendWrite
  PROVE  BlobIInv'
<1> USE DEF BlobIInv
<1> DEFINE b == req.blob
<1>0. req.pc \in {"appendOpen", "appendWrite"} /\ UNCHANGED <<part, cmeta, file, session, begun, sent>>
  BY DEF AppendOpen, AppendWrite
<1>1. req \in MetaRequests /\ b \in Blobs
  BY <1>0, ReqTypes
<1>2. /\ req.first \in Nat /\ req.stored \in Nat /\ req.len \in Nat /\ req.counted \in Nat
      /\ req.meta \in Metas /\ req.meta.bytes \in Nat
  BY <1>1 DEF MetaRequests, Metas
<1>3. /\ session[b] = "open" /\ smeta[b] # Absent /\ begun[b] < req.first /\ req.first + req.len = sent + 1
      /\ req.stored <= req.len /\ InOrder(part[b], begun[b], req.first + req.stored - 1)
      /\ req.first .. req.first + req.stored - 1 \subseteq Stored(part[b])
      /\ req.stored <= req.meta.bytes /\ req.meta.bytes <= Len(part[b])
      /\ part[b] # Absent
  BY <1>0, <1>1 DEF AppendInv, Appending, OpenInv
<1>4. part[b] \in Seq(Nat) /\ Len(part[b]) \in Nat
  BY <1>1, <1>3 DEF BlobTypes
<1>5. CASE AppendOpen
  <2>1. smeta' = [smeta EXCEPT ![b] = Torn] /\ req' = [req EXCEPT !.pc = "appendWrite"] /\ UNCHANGED acked
    BY <1>5 DEF AppendOpen, Goto
  <2>2. /\ req' \in MetaRequests /\ req'.pc = "appendWrite" /\ req'.blob = b /\ req'.first = req.first
        /\ req'.len = req.len /\ req'.stored = req.stored /\ req'.meta = req.meta
    BY <1>1, <2>1 DEF MetaRequests
  <2>3. BlobTypes'
    BY <1>0, <1>1, <2>1, <2>2, EmptyFiles DEF BlobTypes
  <2>4. StagedInv'
    BY <1>0, <2>1 DEF StagedInv
  <2>5. smeta'[b] = Torn /\ \A a \in Blobs : a # b => smeta'[a] = smeta[a]
    BY <1>1, <2>1 DEF BlobTypes
  <2>6. OpenInv'
    <3>1. Torn.bytes <= Len(part[b])
      BY <1>4 DEF Torn
    <3> QED BY <1>0, <1>3, <2>5, <3>1 DEF OpenInv
  <2>7. CommittedInv'
    BY <1>0, <1>3, <2>1, <2>5 DEF CommittedInv
  <2>8. BeginInv' /\ CommitInv'
    BY <2>2 DEF BeginInv, CommitInv, Beginning, Moved, Committing
  <2>9. AppendInv'
    BY <1>0, <1>3, <2>2, <2>5, EmptyFiles DEF AppendInv
  <2> QED BY <2>3, <2>4, <2>6, <2>7, <2>8, <2>9
<1>6. CASE AppendWrite
  <2>1. /\ smeta' = [smeta EXCEPT ![b] = req.meta]
        /\ \/ /\ req' = [pc |-> "recv", blob |-> b, first |-> req.first, len |-> req.len,
                         stored |-> req.stored, counted |-> req.meta.bytes]
              /\ UNCHANGED acked
           \/ /\ req' = Idle
              /\ acked' = [acked EXCEPT ![b] = @ \cup (req.first .. req.first + req.stored - 1)]
    BY <1>6 DEF AppendWrite
  <2>2. smeta'[b] = req.meta /\ smeta'[b] # Absent /\ \A a \in Blobs : a # b => smeta'[a] = smeta[a]
    BY <1>1, <1>2, <2>1, BlobAssumption DEF BlobTypes
  <2>3. /\ \A a \in Blobs : a # b => acked'[a] = acked[a]
        /\ acked'[b] \subseteq acked[b] \cup (req.first .. req.first + req.stored - 1)
        /\ acked' \in [Blobs -> SUBSET Nat]
    <3> DEFINE mine == req.first .. req.first + req.stored - 1
    <3>1. mine \subseteq Nat /\ acked \in [Blobs -> SUBSET Nat]
      BY <1>2 DEF BlobTypes
    <3>2. acked' = acked \/ acked' = [acked EXCEPT ![b] = @ \cup mine]
      BY <2>1
    <3> HIDE DEF b, mine
    <3>3. acked'[b] \subseteq acked[b] \cup mine
      BY <1>1, <3>1, <3>2
    <3>4. acked' \in [Blobs -> SUBSET Nat] /\ \A a \in Blobs : a # b => acked'[a] = acked[a]
      <4>1. acked[b] \cup mine \in SUBSET Nat
        BY <1>1, <3>1
      <4> QED BY <1>1, <3>1, <3>2, <4>1
    <3> QED BY <3>3, <3>4 DEF b, mine
  <2>4. BlobTypes'
    <3>1. smeta' \in [Blobs -> Metas \cup {Absent}]
      BY <1>1, <1>2, <2>1 DEF BlobTypes
    <3>2. req' \in {Idle} \cup RecvRequests
      BY <1>1, <1>2, <2>1 DEF RecvRequests
    <3> QED BY <1>0, <2>3, <3>1, <3>2 DEF BlobTypes
  <2>5. StagedInv'
    <3>1. acked[b] \subseteq Stored(part[b])
      BY <1>1, <1>3 DEF StagedInv
    <3> QED BY <1>0, <1>3, <2>3, <3>1 DEF StagedInv
  <2>6. OpenInv'
    BY <1>0, <1>3, <2>2 DEF OpenInv
  <2>7. CommittedInv'
    BY <1>0, <1>3, <2>2, <2>3 DEF CommittedInv
  <2>8. BeginInv' /\ CommitInv'
    BY <2>1 DEF BeginInv, CommitInv, Idle, Beginning, Moved, Committing
  <2>9. AppendInv'
    <3>1. CASE req' = Idle
      BY <3>1 DEF AppendInv, Idle, Appending
    <3>2. CASE req' # Idle
      <4>1. /\ req'.pc = "recv" /\ req'.blob = b /\ req'.first = req.first
            /\ req'.len = req.len /\ req'.stored = req.stored /\ req'.counted = req.meta.bytes
        BY <2>1, <3>2
      <4> QED BY <1>0, <1>3, <2>2, <4>1 DEF AppendInv
    <3> QED BY <3>1, <3>2
  <2> QED BY <2>4, <2>5, <2>6, <2>7, <2>8, <2>9
<1> QED BY <1>5, <1>6

\* The steps of commit.
LEMMA CommitSteps ==
  ASSUME BlobIInv,
         \/ \E b \in Blobs : CommitUnlink(b)
         \/ CommitRename \/ CommitRenameFails \/ CommitOpen \/ CommitWrite \/ CommitUnstage
  PROVE  BlobIInv'
<1> USE DEF BlobIInv
<1>0. /\ BlobTypes /\ StagedInv /\ OpenInv /\ CommittedInv /\ CommitInv
      /\ req.pc \in Committing => req \in CommitRequests /\ req.blob \in Blobs /\ req.meta \in Metas
  BY ReqTypes DEF CommitRequests
<1>1. ASSUME NEW b \in Blobs, CommitUnlink(b) PROVE BlobIInv'
  <2>1. /\ smeta[b] # Absent /\ UNCHANGED <<part, smeta, cmeta, acked, begun, sent>>
        /\ file' = [file EXCEPT ![b] = Absent]
        /\ session' = [session EXCEPT ![b] = IF @ = "committed" THEN @ ELSE "committing"]
        /\ req'.pc = "rename" /\ req'.blob = b
    BY <1>1 DEF CommitUnlink
  <2>2. session[b] # "committed"
    BY <2>1 DEF CommittedInv
  <2>3. /\ session'[b] = "committing" /\ file'[b] = Absent
        /\ \A a \in Blobs : a # b => session'[a] = session[a] /\ file'[a] = file[a]
    BY <2>1, <2>2 DEF BlobTypes
  <2>4. req' \in CommitRequests
    <3>1. smeta[b] \in Metas
      BY <2>1 DEF BlobTypes
    <3>2. part[b] # Absent => Len(part[b]) \in Nat
      BY DEF BlobTypes
    <3>3. (IF part[b] = Absent THEN smeta[b] ELSE [smeta[b] EXCEPT !.bytes = Len(part[b])]) \in Metas
      BY <3>1, <3>2 DEF Metas
    <3> QED BY <1>1, <3>3 DEF CommitUnlink, CommitRequests, Committing
  <2>5. BlobTypes'
    BY <2>1, <2>4 DEF BlobTypes
  <2>6. StagedInv' /\ OpenInv'
    BY <2>1, <2>3 DEF StagedInv, OpenInv
  <2>7. CommittedInv'
    BY <2>1, <2>3 DEF CommittedInv
  <2>8. BeginInv' /\ AppendInv' /\ CommitInv'
    BY <2>1, <2>3 DEF BeginInv, AppendInv, CommitInv, Beginning, Appending, Moved, Committing
  <2> QED BY <2>5, <2>6, <2>7, <2>8
<1>2. ASSUME CommitRename PROVE BlobIInv'
  <2> DEFINE b == req.blob
  <2>1. /\ req.pc \in Committing /\ part[b] # Absent /\ UNCHANGED <<smeta, cmeta, session, acked, begun, sent>>
        /\ file' = [file EXCEPT ![b] = part[b]] /\ part' = [part EXCEPT ![b] = Absent]
        /\ req' = [req EXCEPT !.pc = "commitOpen"]
    BY <1>2 DEF CommitRename, Goto, Committing
  <2>2. session[b] = "committing" /\ acked[b] \subseteq Stored(part[b])
    BY <1>0, <2>1 DEF CommitInv, StagedInv
  <2>3. /\ file'[b] = part[b] /\ part'[b] = Absent
        /\ \A a \in Blobs : a # b => part'[a] = part[a] /\ file'[a] = file[a]
    BY <1>0, <2>1 DEF BlobTypes
  <2>4. req' \in CommitRequests /\ req'.pc = "commitOpen" /\ req'.blob = b
    BY <1>0, <2>1 DEF CommitRequests, Committing, Moved
  <2>5. BlobTypes'
    BY <1>0, <2>1, <2>4 DEF BlobTypes
  <2>6. StagedInv'
    BY <2>1, <2>3 DEF StagedInv, InOrder
  <2>7. OpenInv' /\ CommittedInv'
    BY <2>1, <2>2, <2>3 DEF OpenInv, CommittedInv
  <2>8. BeginInv' /\ AppendInv' /\ CommitInv'
    BY <2>1, <2>2, <2>3, <2>4 DEF BeginInv, AppendInv, CommitInv, Beginning, Appending, Moved, Committing
  <2> QED BY <2>5, <2>6, <2>7, <2>8
<1>3. ASSUME CommitRenameFails PROVE BlobIInv'
  <2>1. req' = Idle /\ UNCHANGED <<part, smeta, cmeta, file, session, acked, begun, sent>>
    BY <1>3 DEF CommitRenameFails, files
  <2>2. BlobTypes'
    BY <2>1 DEF BlobTypes
  <2> QED BY <2>1, <2>2 DEF StagedInv, OpenInv, CommittedInv, BeginInv, AppendInv, CommitInv, Idle, Beginning,
             Appending, Moved, Committing
<1>4. ASSUME CommitOpen \/ CommitWrite PROVE BlobIInv'
  <2> DEFINE b == req.blob
  <2>1. req.pc \in Moved /\ req.pc \in Committing /\ UNCHANGED <<part, smeta, file, session, acked, begun, sent>>
    BY <1>4 DEF CommitOpen, CommitWrite, Moved, Committing
  <2>2. PICK pc \in {"commitWrite", "unstage"} : req' = [req EXCEPT !.pc = pc]
    BY <1>4 DEF CommitOpen, CommitWrite, Goto
  <2>3. PICK m \in Metas : cmeta' = [cmeta EXCEPT ![b] = m]
    BY <1>0, <1>4, <2>1, EmptyFiles DEF CommitOpen, CommitWrite
  <2>4. req' \in CommitRequests /\ req'.pc = pc /\ req'.blob = b
    BY <1>0, <2>1, <2>2 DEF CommitRequests, Committing, Moved
  <2>5. session[b] = "committing" /\ acked[b] \subseteq Stored(file[b])
    BY <1>0, <2>1 DEF CommitInv
  <2>6. cmeta'[b] # Absent /\ cmeta' \in [Blobs -> Metas \cup {Absent}]
        /\ \A a \in Blobs : a # b => cmeta'[a] = cmeta[a]
    BY <1>0, <2>1, <2>3, BlobAssumption DEF BlobTypes
  <2>7. BlobTypes'
    BY <2>1, <2>4, <2>6 DEF BlobTypes
  <2>8. StagedInv' /\ OpenInv'
    BY <2>1 DEF StagedInv, OpenInv
  <2>9. CommittedInv'
    BY <2>1, <2>5, <2>6 DEF CommittedInv
  <2>10. BeginInv' /\ AppendInv' /\ CommitInv'
    BY <2>1, <2>4, <2>5, <2>6 DEF BeginInv, AppendInv, CommitInv, Beginning, Appending, Moved, Committing
  <2> QED BY <2>7, <2>8, <2>9, <2>10
<1>5. ASSUME CommitUnstage PROVE BlobIInv'
  <2> DEFINE b == req.blob
  <2>1. /\ req.pc = "unstage" /\ req.pc \in Committing /\ req.pc \in Moved
        /\ UNCHANGED <<part, cmeta, file, acked, begun, sent>> /\ req' = Idle
        /\ smeta' = [smeta EXCEPT ![b] = Absent] /\ session' = [session EXCEPT ![b] = "committed"]
    BY <1>5 DEF CommitUnstage, Told, Committing, Moved
  <2>2. b \in Blobs /\ acked[b] \subseteq Stored(file[b]) /\ cmeta[b] # Absent
    BY <1>0, <2>1 DEF CommitInv
  <2>3. /\ smeta'[b] = Absent /\ session'[b] = "committed"
        /\ \A a \in Blobs : a # b => smeta'[a] = smeta[a] /\ session'[a] = session[a]
    BY <2>1, <2>2 DEF BlobTypes
  <2>4. BlobTypes'
    BY <2>1, <2>2 DEF BlobTypes
  <2>5. StagedInv'
    BY <2>1 DEF StagedInv
  <2>6. OpenInv' /\ CommittedInv'
    BY <2>1, <2>2, <2>3 DEF OpenInv, CommittedInv
  <2>7. BeginInv' /\ AppendInv' /\ CommitInv'
    BY <2>1 DEF BeginInv, AppendInv, CommitInv, Idle, Beginning, Appending, Moved, Committing
  <2> QED BY <2>4, <2>5, <2>6, <2>7
<1> QED BY <1>1, <1>2, <1>3, <1>4, <1>5

\* Every step keeps the invariant, a power failure included: it leaves the files
\* as they are and the request behind.
LEMMA BlobStepInv == BlobIInv /\ [BlobNext]_blobVars => BlobIInv'
<1> SUFFICES ASSUME BlobIInv, [BlobNext]_blobVars PROVE BlobIInv'
  OBVIOUS
<1>1. CASE Crash
  <2>1. req' = Idle /\ UNCHANGED <<part, smeta, cmeta, file, session, acked, begun, sent>>
    BY <1>1 DEF Crash, files
  <2>2. BlobTypes'
    BY <2>1 DEF BlobIInv, BlobTypes
  <2> QED BY <2>1, <2>2 DEF BlobIInv, StagedInv, OpenInv, CommittedInv, BeginInv, AppendInv, CommitInv, Idle,
             Beginning, Appending, Moved, Committing
<1>2. CASE UNCHANGED blobVars
  BY <1>2 DEF blobVars, BlobIInv, BlobTypes, StagedInv, OpenInv, CommittedInv, BeginInv, AppendInv, CommitInv
<1> QED BY <1>1, <1>2, BeginSteps, AppendBegins, AppendWritesData, AppendWritesMeta, CommitSteps DEF BlobNext

\* The staging file of every upload holds bytes in the order in which they were
\* sent, none twice and none from before the last begin, through any power
\* failures and full disks.
THEOREM UploadsInOrder == BlobSpec => []UploadInOrder
<1>1. BlobIInv => UploadInOrder
  BY DEF BlobIInv, StagedInv, InOrder, UploadInOrder
<1> QED BY <1>1, BlobInitInv, BlobStepInv, PTL DEF BlobSpec

\* While a client holds an upload open, what was acknowledged is in the staging
\* file.
THEOREM OpenUploadsKeep == BlobSpec => []AckedBytesStaged
<1>1. BlobIInv => AckedBytesStaged
  BY DEF BlobIInv, StagedInv, OpenInv, AckedBytesStaged
<1> QED BY <1>1, BlobInitInv, BlobStepInv, PTL DEF BlobSpec

\* The metadata of an open upload counts no byte that is not in the staging file,
\* wherever between the two power fails.
THEOREM MetaBehindData == BlobSpec => []MetaNeverAhead
<1>1. BlobIInv => MetaNeverAhead
  BY DEF BlobIInv, OpenInv, MetaNeverAhead
<1> QED BY <1>1, BlobInitInv, BlobStepInv, PTL DEF BlobSpec

\* A commit that was answered stays: what was acknowledged is in the target, and
\* nothing is staged that a commit sent again could put in its place.
THEOREM CommitsStay == BlobSpec => []AckedCommitStays
<1>1. BlobIInv => AckedCommitStays
  BY DEF BlobIInv, CommittedInv, AckedCommitStays, Stage
<1> QED BY <1>1, BlobInitInv, BlobStepInv, PTL DEF BlobSpec
-----------------------------------------------------------------------------
(* ComponentStore                                                          *)

Origins == {"call", "registry", Missing, Cut}
FileTexts == Texts \cup {Missing, Cut}
InstallFrames == [comp : Components, todo : SUBSET Components]
InstallParts == [comp : Components, files : {Whole("registry", t) : t \in Texts \cup {Missing}}]
InstallCalls ==
  [pc : {"open", "fill", "download", "fetch", "read", "next", "reopen", "refill", "remove"},
   kind : {"text", "own", "url", "manifest", "remove"}, goal : Components, text : Texts \cup {Missing},
   leaf : 1 .. 3, stack : Seq(InstallFrames),
   done : SUBSET InstallParts, lost : SUBSET (Components \X {"manifest", "module", "lib"}), alone : BOOLEAN]

ComponentFiles == [manifest : Origins, module : FileTexts, lib : FileTexts]
DiskStates == [Components -> ComponentFiles]
StagedStates == [{StagingFile(c) : c \in Components} -> Texts \cup {Missing}]
FetchedStates == [Depths -> Components \cup {Missing}]
PromiseStates == [Components -> ComponentFiles \cup {Missing}]

ComponentTypes ==
  /\ disk \in DiskStates
  /\ staged \in StagedStates
  /\ fetched \in FetchedStates
  /\ installer \in [Installers -> InstallCalls \cup {Free}]
  /\ promised \in PromiseStates

Installs(i) == ~At(i, "free")

\* The shape of a call: one frame if it names its component.
CallShape(i) ==
  /\ Len(installer[i].stack) \in 1 .. DepthMax + 1
  /\ installer[i].kind # "manifest" =>
       /\ Len(installer[i].stack) = 1 /\ Comp(i) = installer[i].goal /\ installer[i].done = {}
       /\ installer[i].pc \notin {"fetch", "read", "next", "reopen", "refill"}
  /\ At(i, "remove") <=> installer[i].kind = "remove"
  /\ At(i, "download") => installer[i].kind \in {"url", "manifest"} /\ installer[i].leaf = 1
  /\ installer[i].kind = "own" => ~installer[i].alone

\* Nobody relies on a component a call has begun to write.
Writing(i) ==
  \/ installer[i].pc \in {"fill", "reopen", "refill"}
  \/ installer[i].pc \in {"open", "remove"} /\ installer[i].leaf > 1
WritesUnpromised(i) == Writing(i) => promised[Comp(i)] = Missing

\* What a file of the component holds once v was written to it, with or without
\* success.
Wrote(i, leaf, v) == IF <<Comp(i), leaf>> \in installer[i].lost THEN Cut ELSE v

\* The file that is open is empty, and not lost yet.
Opened(i, leaf) == disk[Comp(i)][leaf] = Cut /\ <<Comp(i), leaf>> \notin installer[i].lost

\* How far a call that is alone has come with its component, and that what it has
\* done before is still there.
CallProgress(i) ==
  LET now == disk[Comp(i)]  call == installer[i] IN
  /\ call.pc \in {"open", "fill"} =>
       /\ call.leaf > 1 => now.manifest = Wrote(i, "manifest", "call")
       /\ call.leaf > 2 => now.module = Wrote(i, "module", call.text)
       /\ call.kind \in {"url", "manifest"} => staged[StagingFile(Comp(i))] = call.text
  /\ call.pc = "fill" => Opened(i, Leaf(i))
  /\ call.pc \in {"open", "fill", "reopen", "refill"} => call.text \in Texts
  /\ call.pc \in {"reopen", "refill"} => /\ now.module = Wrote(i, "module", call.text)
                                        /\ now.lib = Wrote(i, "lib", call.text)
  /\ call.pc = "refill" => Opened(i, "manifest")
  /\ call.pc = "remove" => /\ call.leaf > 1 => now.lib = Missing
                           /\ call.leaf > 2 => now.manifest = Missing
  /\ \A d \in call.done : \/ disk[d.comp] = Left(d.files, d.comp, call.lost)
                          \/ Writing(i) /\ d.comp = Comp(i)

\* The components a call from a manifest has done hold all that they need, no
\* component of them needs itself, and a frame waits for nothing else than they and
\* the frame above.
Done(i) == {d.comp : d \in installer[i].done}
Waits(i, k) == Requires[installer[i].stack[k].comp] \ installer[i].stack[k].todo
CallNeeds(i) ==
  LET n == Len(installer[i].stack) IN
  installer[i].kind = "manifest" =>
    /\ installer[i].stack[1].comp = installer[i].goal
    /\ At(i, "read") => fetched[Depth(i)] = Comp(i)
    /\ installer[i].pc \notin {"fetch", "read", "next"} => Top(i).todo = {}
    /\ installer[i].pc \notin {"fetch", "read"} => Waits(i, n) \subseteq Done(i)
    /\ \A k \in 1 .. n - 1 : Waits(i, k) \subseteq Done(i) \cup {installer[i].stack[k + 1].comp}
    /\ \A d \in installer[i].done : /\ Requires[d.comp] \subseteq Done(i) /\ d.comp \notin Needed(d.comp)
                                    /\ \E t \in Texts : d.files = Whole("registry", t)

CallInv(i) ==
  Installs(i) => /\ CallShape(i) /\ WritesUnpromised(i)
                 /\ installer[i].alone => CallProgress(i) /\ CallNeeds(i)

Undisturbed ==
  \A i, j \in Installers :
    i # j /\ Installs(i) /\ Installs(j) /\ Overlap(installer[i], installer[j]) => ~installer[i].alone

ComponentInv == ComponentTypes /\ Undisturbed /\ InstalledIsWhole /\ \A i \in Installers : CallInv(i)
-----------------------------------------------------------------------------
LEMMA InstallFields ==
  ASSUME ComponentInv, NEW i \in Installers, Installs(i)
  PROVE  /\ installer[i] \in InstallCalls /\ CallInv(i) /\ CallShape(i) /\ WritesUnpromised(i)
         /\ Len(installer[i].stack) \in 1 .. DepthMax + 1
         /\ Top(i) \in InstallFrames /\ Comp(i) \in Components /\ Depth(i) \in Depths
         /\ installer[i].alone => CallProgress(i) /\ CallNeeds(i)
<1>1. installer[i] \in InstallCalls /\ CallInv(i)
  BY DEF ComponentInv, ComponentTypes, Installs, At, Free
<1>2. /\ CallShape(i) /\ WritesUnpromised(i)
      /\ installer[i].alone => CallProgress(i) /\ CallNeeds(i)
  BY <1>1 DEF CallInv
<1>3. Len(installer[i].stack) \in 1 .. DepthMax + 1
  BY <1>2 DEF CallShape
<1>4. Top(i) \in InstallFrames
  <2>1. installer[i].stack \in Seq(InstallFrames)
    BY <1>1 DEF InstallCalls
  <2> QED BY <1>3, <2>1, ComponentAssumption DEF Top
<1>5. Depth(i) \in Depths
  BY <1>3, ComponentAssumption DEF Depth, Depths
<1> QED BY <1>1, <1>2, <1>3, <1>4, <1>5 DEF Comp, InstallFrames

\* A call that is alone works on a component of its own, and on no other.
LEMMA AloneApart ==
  ASSUME ComponentInv, NEW i \in Installers, NEW j \in Installers, i # j, Installs(i), Installs(j),
         installer[i].alone
  PROVE  installer[i].kind # "manifest" /\ installer[j].kind # "manifest" /\ Comp(i) # Comp(j)
<1>1. ~Overlap(installer[i], installer[j])
  BY DEF ComponentInv, Undisturbed
<1>2. CallShape(i) /\ CallShape(j)
  BY InstallFields
<1> QED BY <1>1, <1>2 DEF Overlap, CallShape

LEMMA StagingApart ==
  ASSUME NEW c \in Components, NEW d \in Components, c # d
  PROVE  StagingFile(c) # StagingFile(d)
BY DEF StagingFile

\* What holds of another call stays when a call touches only what is its own.
LEMMA OtherCallStands ==
  ASSUME ComponentInv, NEW i \in Installers, Installs(i), NEW j \in Installers, i # j,
         installer'[j] = installer[j],
         \A c \in Components : c # Comp(i) => /\ disk'[c] = disk[c]
                                              /\ staged'[StagingFile(c)] = staged[StagingFile(c)],
         fetched' = fetched \/ installer[i].kind = "manifest",
         \A c \in Components : \/ promised'[c] = promised[c] \/ promised'[c] = Missing
                               \/ installer[i].alone /\ (c = Comp(i) \/ installer[i].kind = "manifest")
  PROVE  CallInv(j)'
<1> SUFFICES ASSUME Installs(j) PROVE CallInv(j)'
  BY DEF CallInv, Installs, At
<1>1. CallShape(j) /\ WritesUnpromised(j) /\ Comp(j) \in Components
  BY InstallFields
<1>2. CallShape(j)'
  BY <1>1 DEF CallShape, At, Comp, Top
<1>3. WritesUnpromised(j)'
  <2>1. promised'[Comp(j)] \in {promised[Comp(j)], Missing}
    BY <1>1, AloneApart
  <2> QED BY <1>1, <2>1 DEF WritesUnpromised, Writing, Comp, Top
<1>4. ASSUME installer[j].alone PROVE CallProgress(j)' /\ CallNeeds(j)'
  <2>1. Comp(j) # Comp(i) /\ installer[i].kind # "manifest" /\ installer[j].kind # "manifest"
    BY <1>4, AloneApart
  <2>2. /\ disk'[Comp(j)] = disk[Comp(j)] /\ staged'[StagingFile(Comp(j))] = staged[StagingFile(Comp(j))]
        /\ installer[j].done = {} /\ CallProgress(j)
    BY <1>1, <1>4, <2>1, InstallFields DEF CallShape
  <2>3. CallProgress(j)'
    <3>1. Comp(j)' = Comp(j) /\ installer'[j] = installer[j] /\ Writing(j)' = Writing(j) /\ Leaf(j)' = Leaf(j)
      BY <1>1 DEF Comp, Top, Writing, Leaf
    <3> QED BY <2>2, <3>1 DEF CallProgress, Wrote, Opened
  <2> QED BY <2>1, <2>3 DEF CallNeeds
<1> QED BY <1>2, <1>3, <1>4 DEF CallInv

LEMMA CallStepKeeps ==
  ASSUME ComponentInv, NEW i \in Installers, Installs(i), NEW k \in InstallCalls \cup {Free},
         installer' = [installer EXCEPT ![i] = k],
         k # Free => k.kind = installer[i].kind /\ k.goal = installer[i].goal /\ (k.alone => installer[i].alone),
         disk' \in DiskStates,
         staged' \in StagedStates,
         fetched' \in FetchedStates,
         promised' \in PromiseStates,
         \A c \in Components : c # Comp(i) => /\ disk'[c] = disk[c]
                                              /\ staged'[StagingFile(c)] = staged[StagingFile(c)],
         fetched' = fetched \/ installer[i].kind = "manifest",
         \A c \in Components : \/ promised'[c] = promised[c] \/ promised'[c] = Missing
                               \/ installer[i].alone /\ (c = Comp(i) \/ installer[i].kind = "manifest"),
         InstalledIsWhole', k # Free => CallInv(i)'
  PROVE  ComponentInv'
<1>1. /\ installer'[i] = k /\ \A j \in Installers : j # i => installer'[j] = installer[j]
      /\ installer' \in [Installers -> InstallCalls \cup {Free}]
  BY DEF ComponentInv, ComponentTypes
<1>2. ComponentTypes'
  BY <1>1 DEF ComponentTypes
<1>3. ASSUME NEW a \in Installers, NEW b \in Installers, a # b, Installs(a)', Installs(b)',
             Overlap(installer[a], installer[b])'
      PROVE  ~installer'[a].alone
  <2>1. \A x \in Installers : Installs(x)' => /\ Installs(x) /\ installer'[x].kind = installer[x].kind
                                              /\ installer'[x].goal = installer[x].goal
                                              /\ (installer'[x].alone => installer[x].alone)
    BY <1>1 DEF Installs, At, Free
  <2>2. Overlap(installer[a], installer[b])
    BY <1>3, <2>1 DEF Overlap
  <2> QED BY <1>3, <2>1, <2>2 DEF ComponentInv, Undisturbed
<1>4. CallInv(i)'
  BY <1>1 DEF CallInv, Installs, At, Free
<1>5. ASSUME NEW j \in Installers, j # i PROVE CallInv(j)'
  BY <1>1, <1>5, OtherCallStands
<1> QED BY <1>2, <1>3, <1>4, <1>5 DEF ComponentInv, Undisturbed

LEMMA NewCall ==
  ASSUME NEW c \in Components, NEW t \in Texts \cup {Missing}, NEW a \in BOOLEAN,
         NEW kind \in {"text", "own", "url", "manifest", "remove"},
         NEW pc \in {"open", "download", "fetch", "remove"}
  PROVE  [pc |-> pc, kind |-> kind, goal |-> c, text |-> t, leaf |-> 1,
          stack |-> <<Frame(c, {})>>, done |-> {}, lost |-> {}, alone |-> a] \in InstallCalls
<1>1. Frame(c, {}) \in InstallFrames
  BY DEF Frame, InstallFrames
<1>2. <<Frame(c, {})>> \in Seq(InstallFrames)
  BY <1>1
<1> QED BY <1>2 DEF InstallCalls

\* A call that begins disturbs those it overlaps, and has written nothing.
LEMMA CallKeeps ==
  ASSUME ComponentInv, NEW i \in Installers, NEW c \in Components, NEW t \in Texts \cup {Missing},
         NEW kind \in {"text", "own", "url", "manifest", "remove"},
         NEW pc \in {"open", "download", "fetch", "remove"}, Call(i, kind, c, t, pc),
         pc = "open" => kind \in {"text", "own"} /\ t \in Texts,
         pc = "fetch" <=> kind = "manifest", pc = "remove" <=> kind = "remove", pc = "download" => kind = "url",
         UNCHANGED <<disk, staged, fetched, promised>>
  PROVE  ComponentInv'
<1> DEFINE call == [pc |-> pc, kind |-> kind, goal |-> c, text |-> t, leaf |-> 1,
                    stack |-> <<Frame(c, {})>>, done |-> {}, lost |-> {}, alone |-> TRUE]
           Meets(j) == j # i /\ ~At(j, "free") /\ Overlap(installer[j], call)
<1> PICK a \in BOOLEAN : a <=> kind # "own" /\ \A j \in Installers : ~Meets(j)
  OBVIOUS
<1> PICK k : k = [call EXCEPT !.alone = a]
  OBVIOUS
<1>1. /\ At(i, "free")
      /\ installer' = [j \in Installers |-> IF j = i THEN k
                                            ELSE IF Meets(j) THEN [installer[j] EXCEPT !.alone = FALSE]
                                            ELSE installer[j]]
  <2>1. a = (kind # "own" /\ \A j \in Installers : ~Meets(j))
    OBVIOUS
  <2> QED BY <2>1 DEF Call
<1>2. /\ k.pc = pc /\ k.kind = kind /\ k.goal = c /\ k.text = t /\ k.leaf = 1 /\ k.done = {} /\ k.alone = a
      /\ k.stack = <<Frame(c, {})>> /\ Len(k.stack) = 1 /\ k.stack[1] = Frame(c, {})
      /\ Frame(c, {}) \in InstallFrames /\ Frame(c, {}).comp = c /\ Frame(c, {}).todo = {}
  BY DEF Frame, InstallFrames
<1>3. k \in InstallCalls
  <2>1. k = [pc |-> pc, kind |-> kind, goal |-> c, text |-> t, leaf |-> 1,
             stack |-> <<Frame(c, {})>>, done |-> {}, lost |-> {}, alone |-> a]
    OBVIOUS
  <2>2. [pc |-> pc, kind |-> kind, goal |-> c, text |-> t, leaf |-> 1,
         stack |-> <<Frame(c, {})>>, done |-> {}, lost |-> {}, alone |-> a] \in InstallCalls
    BY NewCall, ZenonT(30)
  <2> HIDE DEF call
  <2> QED BY <2>1, <2>2, Zenon
<1>4. ASSUME NEW j \in Installers, j # i
      PROVE  /\ Installs(j)' <=> Installs(j)
             /\ installer'[j] \in InstallCalls \cup {Free}
             /\ Installs(j) =>
                  /\ installer'[j].pc = installer[j].pc /\ installer'[j].kind = installer[j].kind
                  /\ installer'[j].goal = installer[j].goal /\ installer'[j].text = installer[j].text
                  /\ installer'[j].leaf = installer[j].leaf /\ installer'[j].stack = installer[j].stack
                  /\ installer'[j].done = installer[j].done /\ installer'[j].lost = installer[j].lost
                  /\ installer'[j].alone => installer[j].alone /\ ~Overlap(installer[j], call)
  <2>1. CASE Meets(j)
    <3>1. PICK l : l = [installer[j] EXCEPT !.alone = FALSE]
      OBVIOUS
    <3>2. installer'[j] = l /\ installer[j] \in InstallCalls /\ Installs(j)
      BY <1>1, <1>4, <2>1, <3>1, InstallFields DEF Installs
    <3>3. l \in InstallCalls /\ ~l.alone
      BY <3>1, <3>2 DEF InstallCalls
    <3>4. l.pc = installer[j].pc /\ l.kind = installer[j].kind /\ l.goal = installer[j].goal
          /\ l.text = installer[j].text /\ l.leaf = installer[j].leaf /\ l.stack = installer[j].stack
          /\ l.done = installer[j].done /\ l.lost = installer[j].lost
      BY <3>1, <3>2 DEF InstallCalls
    <3>5. Installs(j)'
      BY <3>2, <3>4 DEF Installs, At
    <3> HIDE DEF call
    <3> QED BY <3>2, <3>3, <3>4, <3>5
  <2>2. CASE ~Meets(j)
    <3>1. installer'[j] = installer[j]
      BY <1>1, <1>4, <2>2
    <3>2. installer[j] \in InstallCalls \cup {Free} /\ (Installs(j)' <=> Installs(j))
      BY <3>1 DEF ComponentInv, ComponentTypes, Installs, At
    <3>3. Installs(j) => ~Overlap(installer[j], call)
      BY <1>4, <2>2 DEF Installs
    <3> HIDE DEF call
    <3> QED BY <3>1, <3>2, <3>3
  <2> QED BY <2>1, <2>2
<1>5. installer'[i] = k /\ Installs(i)' /\ ~Installs(i)
  BY <1>1, <1>2 DEF Installs, At
<1>6. ComponentTypes'
  <2>1. installer' \in [Installers -> InstallCalls \cup {Free}]
    BY <1>1, <1>3, <1>4, <1>5
  <2> QED BY <2>1 DEF ComponentInv, ComponentTypes
<1>7. CallInv(i)'
  <2>1. Comp(i)' = c /\ ~Writing(i)' /\ Len(installer'[i].stack) = 1 /\ Top(i)'.todo = {}
    BY <1>2, <1>5 DEF Comp, Top, Writing
  <2>2. CallShape(i)'
    BY <1>2, <1>5, <2>1, ComponentAssumption DEF CallShape, At
  <2>3. WritesUnpromised(i)' /\ CallProgress(i)'
    BY <1>2, <1>5, <2>1 DEF WritesUnpromised, CallProgress
  <2>4. CallNeeds(i)'
    BY <1>2, <1>5, <2>1 DEF CallNeeds, At
  <2> QED BY <2>2, <2>3, <2>4 DEF CallInv
<1>8. ASSUME NEW j \in Installers, j # i PROVE CallInv(j)'
  <2> SUFFICES ASSUME Installs(j) PROVE CallInv(j)'
    BY <1>4, <1>8 DEF CallInv
  <2>1. Comp(j)' = Comp(j) /\ Top(j)' = Top(j) /\ (Writing(j)' <=> Writing(j)) /\ Depth(j)' = Depth(j)
        /\ Done(j)' = Done(j) /\ \A x : Waits(j, x)' = Waits(j, x)
    BY <1>4, <1>8 DEF Comp, Top, Writing, Depth, Done, Waits
  <2>1a. Installs(j) => Leaf(j)' = Leaf(j)
    BY <1>4, <1>8 DEF Leaf
  <2>2. CallShape(j)' /\ WritesUnpromised(j)'
    BY <1>4, <1>8, <2>1, InstallFields DEF CallShape, WritesUnpromised, At
  <2>3. ASSUME installer'[j].alone PROVE CallProgress(j)' /\ CallNeeds(j)'
    <3>1. CallProgress(j) /\ CallNeeds(j)
      BY <1>4, <1>8, <2>3, InstallFields
    <3>2. CallProgress(j)'
      BY <1>4, <1>8, <2>1, <2>1a, <3>1 DEF CallProgress, Wrote, Opened
    <3>3. CallNeeds(j)'
      BY <1>4, <1>8, <2>1, <3>1 DEF CallNeeds, At
    <3> QED BY <3>2, <3>3
  <2> QED BY <2>2, <2>3 DEF CallInv
<1>9. ASSUME NEW x \in Installers, NEW y \in Installers, x # y, Installs(x)', Installs(y)',
             Overlap(installer[x], installer[y])'
      PROVE  ~installer'[x].alone
  <2>1. CASE x # i /\ y # i
    <3>1. Installs(x) /\ Installs(y) /\ Overlap(installer[x], installer[y])
      BY <1>4, <1>9, <2>1 DEF Overlap
    <3> QED BY <1>4, <1>9, <2>1, <3>1 DEF ComponentInv, Undisturbed
  <2>2. CASE x = i
    <3>1. Meets(y)
      BY <1>2, <1>4, <1>5, <1>9, <2>2 DEF Overlap, Installs
    <3> QED BY <1>2, <1>5, <2>2, <3>1
  <2>3. CASE y = i
    <3>1. Installs(x) /\ Overlap(installer[x], call)
      BY <1>2, <1>4, <1>5, <1>9, <2>3 DEF Overlap
    <3> QED BY <1>4, <1>9, <2>3, <3>1
  <2> QED BY <2>1, <2>2, <2>3
<1> QED BY <1>6, <1>7, <1>8, <1>9 DEF ComponentInv, Undisturbed, InstalledIsWhole

LEMMA CallsKeep ==
  ASSUME ComponentInv, NEW i \in Installers,
         InstallText(i) \/ InstallOwn(i) \/ InstallUrl(i) \/ InstallManifest(i) \/ RemoveBegin(i)
  PROVE  ComponentInv'
<1>1. CASE InstallText(i)
  BY <1>1, CallKeeps DEF InstallText
<1>2. CASE InstallOwn(i)
  <2>1. PICK c \in Components : /\ disk[c].module \in Texts /\ Call(i, "own", c, disk[c].module, "open")
                                /\ UNCHANGED <<disk, staged, fetched, promised>>
    BY <1>2, ComponentAssumption DEF InstallOwn
  <2>2. PICK t \in Texts : t = disk[c].module
    BY <2>1
  <2> QED BY <2>1, <2>2, CallKeeps
<1>3. CASE InstallUrl(i)
  BY <1>3, CallKeeps DEF InstallUrl
<1>4. CASE InstallManifest(i)
  BY <1>4, CallKeeps DEF InstallManifest
<1>5. CASE RemoveBegin(i)
  BY <1>5, CallKeeps DEF RemoveBegin
<1> QED BY <1>1, <1>2, <1>3, <1>4, <1>5

\* The call fails: whatever it has written, nobody relies on.
LEMMA FailKeeps ==
  ASSUME ComponentInv, NEW i \in Installers, Installs(i), Fail(i), disk' = disk,
         staged' \in StagedStates,
         \A c \in Components : c # Comp(i) => staged'[StagingFile(c)] = staged[StagingFile(c)],
         fetched' = fetched \/ fetched' = Unfetched(i)
  PROVE  ComponentInv'
<1>1. installer' = [installer EXCEPT ![i] = Free] /\ promised' = promised
  BY DEF Fail
<1>2. /\ fetched' \in FetchedStates
      /\ fetched' = fetched \/ installer[i].kind = "manifest"
  <2>1. fetched \in FetchedStates
    BY DEF ComponentInv, ComponentTypes
  <2>2. CASE installer[i].kind = "manifest"
    BY <2>1, <2>2 DEF Unfetched, FetchedStates
  <2>3. CASE installer[i].kind # "manifest"
    BY <2>1, <2>3 DEF Unfetched
  <2> QED BY <2>2, <2>3
<1>3. InstalledIsWhole'
  BY <1>1 DEF ComponentInv, InstalledIsWhole
<1>4. /\ disk' \in DiskStates
      /\ promised' \in PromiseStates
  BY <1>1 DEF ComponentInv, ComponentTypes
<1> QED BY <1>1, <1>2, <1>3, <1>4, CallStepKeeps

\* What is left of files is files again.
LEMMA LeftFiles ==
  ASSUME NEW fs \in ComponentFiles, NEW c, NEW lost
  PROVE  /\ Left(fs, c, lost) \in ComponentFiles
         /\ Left(fs, c, lost).manifest = IF <<c, "manifest">> \in lost THEN Cut ELSE fs.manifest
         /\ Left(fs, c, lost).module = IF <<c, "module">> \in lost THEN Cut ELSE fs.module
         /\ Left(fs, c, lost).lib = IF <<c, "lib">> \in lost THEN Cut ELSE fs.lib
BY DEF Left, ComponentFiles, Origins, FileTexts

LEMMA FilesWhole ==
  ASSUME NEW o \in {"call", "registry"}, NEW t \in Texts \cup {Missing}
  PROVE  /\ Whole(o, t) \in ComponentFiles /\ Nothing \in ComponentFiles
         /\ Whole(o, t).manifest = o /\ Whole(o, t).module = t /\ Whole(o, t).lib = t
BY DEF Whole, Nothing, ComponentFiles, Origins, FileTexts

LEMMA FilesEqual ==
  ASSUME NEW f \in ComponentFiles, NEW g \in ComponentFiles,
         f.manifest = g.manifest, f.module = g.module, f.lib = g.lib
  PROVE  f = g
BY DEF ComponentFiles

\* The call succeeds: if it was alone, what it has done is as it says.
LEMMA SucceedKeeps ==
  ASSUME ComponentInv, NEW i \in Installers, Installs(i), NEW done, NEW lost, Succeed(i, done, lost),
         disk' \in DiskStates,
         staged' \in StagedStates,
         fetched' \in FetchedStates,
         \A c \in Components : c # Comp(i) => /\ disk'[c] = disk[c]
                                              /\ staged'[StagingFile(c)] = staged[StagingFile(c)],
         fetched' = fetched \/ installer[i].kind = "manifest",
         promised[Comp(i)] = Missing, \E d \in done : d.comp = Comp(i),
         \A d \in done :
           /\ d.comp \in Components /\ (d.comp = Comp(i) \/ installer[i].kind = "manifest")
           /\ d.files \in ComponentFiles
           /\ installer[i].alone => disk'[d.comp] = Left(d.files, d.comp, lost)
  PROVE  ComponentInv'
<1> DEFINE By(c) == \E d \in done : d.comp = c
           Said(c) == Left((CHOOSE d \in done : d.comp = c).files, c, lost)
<1>1. installer' = [installer EXCEPT ![i] = Free]
  BY DEF Succeed
<1>2. ASSUME NEW c \in Components, By(c)
      PROVE  /\ Said(c) \in ComponentFiles
             /\ installer[i].alone => disk'[c] = Said(c)
             /\ c = Comp(i) \/ installer[i].kind = "manifest"
  <2>1. PICK d \in done : d = (CHOOSE x \in done : x.comp = c) /\ d.comp = c
    BY <1>2
  <2>2. Said(c) = Left(d.files, c, lost) /\ d.files \in ComponentFiles
    BY <2>1
  <2>3. Left(d.files, c, lost) \in ComponentFiles
    BY <2>2, LeftFiles
  <2>4. installer[i].alone => disk'[c] = Left(d.files, c, lost)
    BY <2>1
  <2> HIDE DEF Said
  <2> QED BY <2>1, <2>2, <2>3, <2>4
<1>3. promised' = IF installer[i].alone THEN [c \in Components |-> IF By(c) THEN Said(c) ELSE promised[c]]
                  ELSE promised
  BY DEF Succeed
<1> HIDE DEF By, Said
<1>4. promised' \in PromiseStates
  <2>1. promised \in PromiseStates
    BY DEF ComponentInv, ComponentTypes
  <2> QED BY <1>2, <1>3, <2>1 DEF PromiseStates
<1>5. \A c \in Components : \/ promised'[c] = promised[c] \/ promised'[c] = Missing
                            \/ installer[i].alone /\ (c = Comp(i) \/ installer[i].kind = "manifest")
  BY <1>2, <1>3
<1>6. ASSUME NEW c \in Components, promised'[c] # Missing PROVE disk'[c] = promised'[c]
  <2>1. CASE installer[i].alone /\ By(c)
    BY <1>2, <1>3, <2>1
  <2>2. CASE ~(installer[i].alone /\ By(c))
    <3>1. promised'[c] = promised[c]
      BY <1>3, <2>2
    <3>2. c # Comp(i)
      BY <1>6, <3>1
    <3> QED BY <1>6, <3>1, <3>2 DEF ComponentInv, InstalledIsWhole
  <2> QED BY <2>1, <2>2
<1>7. InstalledIsWhole'
  BY <1>6 DEF InstalledIsWhole
<1> QED BY <1>1, <1>4, <1>5, <1>7, CallStepKeeps

\* A step within a call: the record of the call changes, and with it at most the files
\* of its component, which nobody relies on, or the staging files.
LEMMA ProceedKeeps ==
  ASSUME ComponentInv, NEW i \in Installers, Installs(i), NEW k \in InstallCalls,
         installer' = [installer EXCEPT ![i] = k],
         k.kind = installer[i].kind /\ k.goal = installer[i].goal /\ (k.alone => installer[i].alone),
         disk' \in DiskStates,
         staged' \in StagedStates,
         fetched' \in FetchedStates,
         \A c \in Components : c # Comp(i) => /\ disk'[c] = disk[c] /\ promised'[c] = promised[c]
                                              /\ staged'[StagingFile(c)] = staged[StagingFile(c)],
         fetched' = fetched \/ installer[i].kind = "manifest",
         \/ disk' = disk /\ promised' = promised
         \/ promised' \in {promised, [promised EXCEPT ![Comp(i)] = Missing]} /\ promised'[Comp(i)] = Missing,
         CallInv(i)'
  PROVE  ComponentInv'
<1>1. promised' \in PromiseStates
  BY DEF ComponentInv, ComponentTypes, PromiseStates
<1>2. InstalledIsWhole'
  BY InstallFields DEF ComponentInv, InstalledIsWhole
<1>3. \A c \in Components : promised'[c] = promised[c] \/ promised'[c] = Missing
  BY InstallFields
<1>4. k # Free
  <2>1. k.pc # "free"
    BY DEF InstallCalls
  <2> QED BY <2>1 DEF Free
<1> QED BY <1>1, <1>2, <1>3, <1>4, CallStepKeeps

LEMMA NeedsStand ==
  ASSUME NEW i \in Installers, CallNeeds(i),
         installer'[i].stack = installer[i].stack, installer'[i].done = installer[i].done,
         installer'[i].kind = installer[i].kind, installer'[i].goal = installer[i].goal,
         installer[i].pc \notin {"fetch", "read"}, installer'[i].pc \notin {"fetch", "read"},
         installer[i].pc = "next" => installer'[i].pc = "next" \/ Top(i).todo = {}
  PROVE  CallNeeds(i)'
<1>1. Done(i)' = Done(i) /\ Top(i)' = Top(i) /\ \A x : Waits(i, x)' = Waits(i, x)
  BY DEF Done, Top, Waits
<1> QED BY <1>1 DEF CallNeeds, At

\* One of the three files of a component changes.
Becomes(c, f, v) == disk' = [disk EXCEPT ![c][f] = v]

LEMMA LeafChanges ==
  ASSUME ComponentInv, NEW c \in Components, NEW f \in {"manifest", "module", "lib"}, NEW v, Becomes(c, f, v),
         f = "manifest" => v \in Origins, f # "manifest" => v \in FileTexts
  PROVE  /\ disk' \in DiskStates /\ \A d \in Components : d # c => disk'[d] = disk[d]
         /\ disk'[c].manifest = IF f = "manifest" THEN v ELSE disk[c].manifest
         /\ disk'[c].module = IF f = "module" THEN v ELSE disk[c].module
         /\ disk'[c].lib = IF f = "lib" THEN v ELSE disk[c].lib
<1>1. disk \in DiskStates /\ disk[c] \in ComponentFiles
  BY DEF ComponentInv, ComponentTypes, DiskStates
<1> PICK r : r = [disk[c] EXCEPT ![f] = v]
  OBVIOUS
<1>2. /\ r \in ComponentFiles
      /\ r.manifest = IF f = "manifest" THEN v ELSE disk[c].manifest
      /\ r.module = IF f = "module" THEN v ELSE disk[c].module
      /\ r.lib = IF f = "lib" THEN v ELSE disk[c].lib
  <2>1. CASE f = "manifest"
    BY <1>1, <2>1 DEF ComponentFiles
  <2>2. CASE f = "module"
    BY <1>1, <2>2 DEF ComponentFiles
  <2>3. CASE f = "lib"
    BY <1>1, <2>3 DEF ComponentFiles
  <2> QED BY <2>1, <2>2, <2>3
<1>3. disk'[c] = r /\ disk' \in DiskStates /\ \A d \in Components : d # c => disk'[d] = disk[d]
  BY <1>1, <1>2 DEF Becomes, DiskStates
<1> QED BY <1>2, <1>3

LEMMA StagingChanges ==
  ASSUME ComponentInv, NEW c \in Components, NEW v \in Texts \cup {Missing},
         staged' = [staged EXCEPT ![StagingFile(c)] = v]
  PROVE  /\ staged' \in StagedStates /\ staged'[StagingFile(c)] = v
         /\ \A d \in Components : d # c => staged'[StagingFile(d)] = staged[StagingFile(d)]
<1>1. staged \in StagedStates
  BY DEF ComponentInv, ComponentTypes
<1>2. \A d \in Components : StagingFile(d) \in {StagingFile(x) : x \in Components}
  OBVIOUS
<1>3. \A d \in Components : d # c => StagingFile(d) # StagingFile(c)
  BY StagingApart
<1> QED BY <1>1, <1>2, <1>3 DEF StagedStates

LEMMA LeafOf ==
  ASSUME ComponentInv, NEW i \in Installers, Installs(i)
  PROVE  /\ installer[i].leaf = 1 => Leaf(i) = "manifest"
         /\ installer[i].leaf = 2 => Leaf(i) = "module"
         /\ installer[i].leaf = 3 => Leaf(i) = "lib"
         /\ installer[i].leaf \in {1, 2, 3}
BY InstallFields DEF Leaf, Leaves, InstallCalls

LEMMA DownloadKeeps ==
  ASSUME ComponentInv, NEW i \in Installers, Download(i)
  PROVE  ComponentInv'
<1>1. Installs(i) /\ installer[i].pc = "download" /\ disk' = disk
  BY DEF Download, Installs, At
<1>2. /\ installer[i] \in InstallCalls /\ CallShape(i) /\ Comp(i) \in Components
      /\ (installer[i].alone => CallProgress(i) /\ CallNeeds(i))
  BY <1>1, InstallFields
<1>3. ASSUME NEW t \in Texts, staged' = [staged EXCEPT ![StagingFile(Comp(i))] = t],
             installer' = [installer EXCEPT ![i].pc = "open", ![i].text = t],
             UNCHANGED <<fetched, promised, spent>>
      PROVE  ComponentInv'
  <2>1. PICK k : k = [installer[i] EXCEPT !.pc = "open", !.text = t]
    OBVIOUS
  <2>2. /\ k \in InstallCalls /\ k.pc = "open" /\ k.text = t /\ k.kind = installer[i].kind
        /\ k.goal = installer[i].goal /\ k.leaf = installer[i].leaf /\ k.stack = installer[i].stack
        /\ k.done = installer[i].done /\ k.alone = installer[i].alone /\ k.lost = installer[i].lost
    BY <1>2, <2>1 DEF InstallCalls
  <2>3. installer' = [installer EXCEPT ![i] = k] /\ installer'[i] = k
    BY <1>3, <2>1 DEF ComponentInv, ComponentTypes
  <2>4. /\ staged' \in StagedStates /\ staged'[StagingFile(Comp(i))] = t
        /\ \A d \in Components : d # Comp(i) => staged'[StagingFile(d)] = staged[StagingFile(d)]
    BY <1>2, <1>3, StagingChanges
  <2>5. Comp(i)' = Comp(i) /\ Top(i)' = Top(i) /\ ~Writing(i)' /\ ~Writing(i)
    BY <1>1, <1>2, <2>2, <2>3 DEF Comp, Top, Writing, CallShape, At
  <2>6. CallShape(i)' /\ WritesUnpromised(i)'
    BY <1>1, <1>2, <2>2, <2>3, <2>5 DEF CallShape, WritesUnpromised, At
  <2>7. installer[i].alone => CallProgress(i)'
    <3>1. k.leaf = 1
      BY <1>1, <1>2, <2>2 DEF CallShape, At
    <3> QED BY <1>1, <1>2, <2>2, <2>3, <2>4, <2>5, <3>1 DEF CallProgress, Wrote
  <2>8. installer[i].alone => CallNeeds(i)'
    BY <1>1, <1>2, <2>2, <2>3, NeedsStand
  <2>9. CallInv(i)'
    BY <2>2, <2>3, <2>6, <2>7, <2>8 DEF CallInv
  <2>10. disk' \in DiskStates /\ fetched' \in FetchedStates
    BY <1>1, <1>3 DEF ComponentInv, ComponentTypes
  <2> QED BY <1>1, <1>3, <2>2, <2>3, <2>4, <2>9, <2>10, ProceedKeeps
<1>4. ASSUME staged' = [staged EXCEPT ![StagingFile(Comp(i))] = Missing], fetched' = Unfetched(i), Fail(i)
      PROVE  ComponentInv'
  BY <1>1, <1>2, <1>4, StagingChanges, FailKeeps
<1> QED BY <1>3, <1>4 DEF Download

LEMMA OpenLeafKeeps ==
  ASSUME ComponentInv, NEW i \in Installers, OpenLeaf(i)
  PROVE  ComponentInv'
<1>1. Installs(i) /\ installer[i].pc = "open" /\ UNCHANGED <<staged, fetched>>
  BY DEF OpenLeaf, Installs, At
<1>2. /\ installer[i] \in InstallCalls /\ CallShape(i) /\ Comp(i) \in Components
      /\ (installer[i].alone => CallProgress(i) /\ CallNeeds(i))
  BY <1>1, InstallFields
<1> PICK ls : ls = installer[i].lost \ {<<Comp(i), Leaf(i)>>}
  OBVIOUS
<1>3. PICK k : k = [installer[i] EXCEPT !.pc = "fill", !.lost = ls]
  OBVIOUS
<1>4. /\ k \in InstallCalls /\ k.pc = "fill" /\ k.text = installer[i].text /\ k.kind = installer[i].kind
      /\ k.goal = installer[i].goal /\ k.leaf = installer[i].leaf /\ k.stack = installer[i].stack
      /\ k.done = installer[i].done /\ k.alone = installer[i].alone /\ k.lost = ls
  BY <1>2, <1>3 DEF InstallCalls
<1>5. installer' = [installer EXCEPT ![i] = k] /\ installer'[i] = k
  BY <1>3 DEF OpenLeaf, ComponentInv, ComponentTypes
<1>6. Comp(i)' = Comp(i) /\ Top(i)' = Top(i) /\ Writing(i)'
  BY <1>4, <1>5 DEF Comp, Top, Writing
<1>7. /\ installer[i].leaf = 1 => Leaf(i) = "manifest"
      /\ installer[i].leaf = 2 => Leaf(i) = "module"
      /\ installer[i].leaf = 3 => Leaf(i) = "lib"
      /\ installer[i].leaf \in {1, 2, 3}
  BY <1>1, LeafOf
<1>8. promised' = [promised EXCEPT ![Comp(i)] = Missing] /\ promised'[Comp(i)] = Missing
  BY <1>2 DEF OpenLeaf, ComponentInv, ComponentTypes, PromiseStates
<1>9. disk' = [disk EXCEPT ![Comp(i)][Leaf(i)] = Cut] /\ Cut \in Origins /\ Cut \in FileTexts
  BY DEF OpenLeaf, Origins, FileTexts
<1>10. /\ disk' \in DiskStates /\ \A d \in Components : d # Comp(i) => disk'[d] = disk[d]
       /\ disk'[Comp(i)].manifest = IF Leaf(i) = "manifest" THEN Cut ELSE disk[Comp(i)].manifest
       /\ disk'[Comp(i)].module = IF Leaf(i) = "module" THEN Cut ELSE disk[Comp(i)].module
       /\ disk'[Comp(i)].lib = IF Leaf(i) = "lib" THEN Cut ELSE disk[Comp(i)].lib
  <2>1. PICK c \in Components, f \in {"manifest", "module", "lib"} : c = Comp(i) /\ f = Leaf(i)
    BY <1>2, <1>7
  <2>2. Becomes(c, f, Cut)
    BY <1>9, <2>1 DEF Becomes
  <2>3. /\ disk' \in DiskStates /\ \A d \in Components : d # c => disk'[d] = disk[d]
        /\ disk'[c].manifest = IF f = "manifest" THEN Cut ELSE disk[c].manifest
        /\ disk'[c].module = IF f = "module" THEN Cut ELSE disk[c].module
        /\ disk'[c].lib = IF f = "lib" THEN Cut ELSE disk[c].lib
    <3>1. (f = "manifest" => Cut \in Origins) /\ (f # "manifest" => Cut \in FileTexts)
      BY <1>9
    <3> QED BY <2>2, <3>1, LeafChanges
  <2> QED BY <2>1, <2>3
<1>11. CallShape(i)' /\ WritesUnpromised(i)'
  BY <1>1, <1>2, <1>4, <1>5, <1>6, <1>8 DEF CallShape, WritesUnpromised, At
<1>12. installer[i].alone => CallProgress(i)'
  <2>1. \A d \in installer[i].done : d.comp \in Components
    BY <1>2 DEF InstallCalls, InstallParts
  <2> SUFFICES ASSUME installer[i].alone PROVE CallProgress(i)'
    OBVIOUS
  <2>2. CallProgress(i)
    BY <1>2
  <2>3. Leaf(i)' = Leaf(i) /\ Opened(i, Leaf(i))'
    <3>1. Leaf(i)' = Leaf(i)
      BY <1>4, <1>5 DEF Leaf
    <3>2. disk'[Comp(i)][Leaf(i)] = Cut
      BY <1>7, <1>10
    <3> QED BY <1>4, <1>5, <1>6, <3>1, <3>2 DEF Opened
  <2>4. /\ installer[i].leaf > 1 => disk'[Comp(i)].manifest = Wrote(i, "manifest", "call")'
        /\ installer[i].leaf > 2 => disk'[Comp(i)].module = Wrote(i, "module", installer[i].text)'
    BY <1>1, <1>4, <1>5, <1>6, <1>7, <1>10, <2>2 DEF CallProgress, Wrote
  <2>5. \A d \in installer[i].done :
          d.comp = Comp(i) \/ disk'[d.comp] = Left(d.files, d.comp, ls)
    <3>1. \A d \in installer[i].done : d.comp = Comp(i) \/ disk[d.comp] = Left(d.files, d.comp, installer[i].lost)
      BY <2>2 DEF CallProgress
    <3>2. ASSUME NEW d \in installer[i].done, d.comp # Comp(i)
          PROVE  Left(d.files, d.comp, ls) = Left(d.files, d.comp, installer[i].lost)
      <4>1. \A x : <<d.comp, x>> \in ls <=> <<d.comp, x>> \in installer[i].lost
        BY <3>2
      <4> QED BY <4>1 DEF Left
    <3> QED BY <1>10, <2>1, <3>1, <3>2
  <2>6. /\ installer[i].kind \in {"url", "manifest"} => staged'[StagingFile(Comp(i))] = installer[i].text
        /\ installer[i].text \in Texts
    BY <1>1, <2>2 DEF CallProgress
  <2> QED BY <1>1, <1>4, <1>5, <1>6, <2>3, <2>4, <2>5, <2>6 DEF CallProgress
<1>13. installer[i].alone => CallNeeds(i)'
  BY <1>1, <1>2, <1>4, <1>5, NeedsStand
<1>14. CallInv(i)'
  BY <1>4, <1>5, <1>11, <1>12, <1>13 DEF CallInv
<1>15. fetched' \in FetchedStates /\ staged' \in StagedStates
       /\ \A c \in Components : c # Comp(i) => promised'[c] = promised[c]
  BY <1>1, <1>8 DEF ComponentInv, ComponentTypes, PromiseStates
<1> QED BY <1>1, <1>4, <1>5, <1>8, <1>10, <1>14, <1>15, ProceedKeeps

\* What is copied is the text of the call, if the call is alone.
LEMMA SourceOf ==
  ASSUME ComponentInv, NEW i \in Installers, Installs(i), installer[i].pc = "fill"
  PROVE  /\ Leaf(i) = "manifest" => Source(i) = "call"
         /\ Leaf(i) # "manifest" => Source(i) \in FileTexts
         /\ Leaf(i) # "manifest" /\ installer[i].alone => Source(i) = installer[i].text
<1>1. /\ installer[i] \in InstallCalls /\ CallShape(i) /\ Comp(i) \in Components
      /\ (installer[i].alone => CallProgress(i))
  BY InstallFields
<1>2. Leaf(i) = "manifest" => Source(i) = "call"
  BY DEF Source
<1>3. CASE Leaf(i) # "manifest"
  <2>1. CASE installer[i].kind = "text"
    BY <1>1, <1>3, <2>1 DEF Source, InstallCalls, FileTexts
  <2>2. CASE installer[i].kind = "own"
    <3>1. disk[Comp(i)].module \in FileTexts
      BY <1>1 DEF ComponentInv, ComponentTypes, DiskStates, ComponentFiles
    <3> QED BY <1>1, <1>3, <2>2, <3>1 DEF Source, CallShape
  <2>3. CASE installer[i].kind \notin {"text", "own"}
    <3>1. Source(i) = staged[StagingFile(Comp(i))]
      BY <1>3, <2>3 DEF Source
    <3>2. Source(i) \in FileTexts
      BY <1>1, <3>1 DEF ComponentInv, ComponentTypes, StagedStates, FileTexts
    <3>3. installer[i].kind \in {"url", "manifest"}
      BY <1>1, <2>3 DEF InstallCalls, CallShape, At
    <3> QED BY <1>1, <1>3, <3>1, <3>2, <3>3 DEF CallProgress
  <2> QED BY <2>1, <2>2, <2>3
<1> QED BY <1>2, <1>3

\* The frame of a manifest keeps its staging files to itself; the others have none.
LEMMA UnstagedStands ==
  ASSUME ComponentInv, NEW i \in Installers, Installs(i), staged' = Unstaged(i)
  PROVE  /\ staged' \in StagedStates
         /\ \A d \in Components : d # Comp(i) => staged'[StagingFile(d)] = staged[StagingFile(d)]
<1>1. CASE installer[i].kind \in {"url", "manifest"}
  BY <1>1, StagingChanges, InstallFields DEF Unstaged
<1>2. CASE installer[i].kind \notin {"url", "manifest"}
  BY <1>2 DEF Unstaged, ComponentInv, ComponentTypes
<1> QED BY <1>1, <1>2

\* A file of the component is written, with or without success: it holds v.
LEMMA GoOnKeeps ==
  ASSUME ComponentInv, NEW i \in Installers, Installs(i), installer[i].pc = "fill",
         NEW lost \in SUBSET (Components \X {"manifest", "module", "lib"}), GoOn(i, lost),
         lost \in {installer[i].lost, installer[i].lost \cup {<<Comp(i), Leaf(i)>>}},
         fetched' = fetched, NEW v,
         disk' \in DiskStates, \A d \in Components : d # Comp(i) => disk'[d] = disk[d],
         disk'[Comp(i)].manifest = IF Leaf(i) = "manifest" THEN v ELSE disk[Comp(i)].manifest,
         disk'[Comp(i)].module = IF Leaf(i) = "module" THEN v ELSE disk[Comp(i)].module,
         disk'[Comp(i)].lib = IF Leaf(i) = "lib" THEN v ELSE disk[Comp(i)].lib,
         installer[i].alone => v = IF <<Comp(i), Leaf(i)>> \in lost THEN Cut
                                   ELSE IF Leaf(i) = "manifest" THEN "call" ELSE installer[i].text
  PROVE  ComponentInv'
<1>2. /\ installer[i] \in InstallCalls /\ CallShape(i) /\ Comp(i) \in Components
      /\ (installer[i].alone => CallProgress(i) /\ CallNeeds(i))
  BY InstallFields
<1>3. Writing(i) /\ promised[Comp(i)] = Missing
  BY InstallFields DEF Writing, WritesUnpromised
<1>4. /\ installer[i].leaf = 1 => Leaf(i) = "manifest"
      /\ installer[i].leaf = 2 => Leaf(i) = "module"
      /\ installer[i].leaf = 3 => Leaf(i) = "lib"
      /\ installer[i].leaf \in {1, 2, 3}
  BY LeafOf
<1>5. fetched' \in FetchedStates /\ \A d \in installer[i].done : d.comp \in Components
  BY <1>2 DEF ComponentInv, ComponentTypes, InstallCalls, InstallParts
<1>6. \A leaf \in {"manifest", "module", "lib"} :
        leaf # Leaf(i) => (<<Comp(i), leaf>> \in lost <=> <<Comp(i), leaf>> \in installer[i].lost)
  OBVIOUS
<1>7. installer[i].alone => \A d \in installer[i].done :
        d.comp = Comp(i) \/ disk'[d.comp] = Left(d.files, d.comp, lost)
  <2> SUFFICES ASSUME installer[i].alone, NEW d \in installer[i].done, d.comp # Comp(i)
               PROVE  disk'[d.comp] = Left(d.files, d.comp, lost)
    OBVIOUS
  <2>1. disk[d.comp] = Left(d.files, d.comp, installer[i].lost)
    BY <1>2 DEF CallProgress
  <2>2. Left(d.files, d.comp, lost) = Left(d.files, d.comp, installer[i].lost)
    <3>1. \A x : <<d.comp, x>> \in lost <=> <<d.comp, x>> \in installer[i].lost
      OBVIOUS
    <3> QED BY <3>1 DEF Left
  <2> QED BY <1>5, <2>1, <2>2
<1>8. installer[i].alone =>
        /\ disk'[Comp(i)].manifest = IF <<Comp(i), "manifest">> \in lost THEN Cut ELSE "call"
        /\ installer[i].leaf > 1 =>
             disk'[Comp(i)].module = IF <<Comp(i), "module">> \in lost THEN Cut ELSE installer[i].text
        /\ installer[i].leaf > 2 =>
             disk'[Comp(i)].lib = IF <<Comp(i), "lib">> \in lost THEN Cut ELSE installer[i].text
        /\ installer[i].text \in Texts
  <2> SUFFICES ASSUME installer[i].alone
               PROVE  /\ disk'[Comp(i)].manifest = IF <<Comp(i), "manifest">> \in lost THEN Cut ELSE "call"
                      /\ installer[i].leaf > 1 =>
                           disk'[Comp(i)].module = IF <<Comp(i), "module">> \in lost THEN Cut ELSE installer[i].text
                      /\ installer[i].leaf > 2 =>
                           disk'[Comp(i)].lib = IF <<Comp(i), "lib">> \in lost THEN Cut ELSE installer[i].text
                      /\ installer[i].text \in Texts
    OBVIOUS
  <2>1. /\ installer[i].leaf > 1 => disk[Comp(i)].manifest = Wrote(i, "manifest", "call")
        /\ installer[i].leaf > 2 => disk[Comp(i)].module = Wrote(i, "module", installer[i].text)
        /\ installer[i].text \in Texts
    BY <1>2 DEF CallProgress
  <2>2. CASE installer[i].leaf = 1
    BY <1>4, <2>1, <2>2
  <2>3. CASE installer[i].leaf = 2
    BY <1>4, <1>6, <2>1, <2>3 DEF Wrote
  <2>4. CASE installer[i].leaf = 3
    BY <1>4, <1>6, <2>1, <2>4 DEF Wrote
  <2> QED BY <1>4, <2>2, <2>3, <2>4
<1>9. CASE installer[i].leaf < 3
  <2> PICK n \in 1 .. 3 : n = installer[i].leaf + 1
    BY <1>4, <1>9
  <2>1. PICK k : k = [installer[i] EXCEPT !.pc = "open", !.leaf = n, !.lost = lost]
    OBVIOUS
  <2>2. /\ k \in InstallCalls /\ k.pc = "open" /\ k.text = installer[i].text /\ k.kind = installer[i].kind
        /\ k.goal = installer[i].goal /\ k.leaf = n /\ k.stack = installer[i].stack
        /\ k.done = installer[i].done /\ k.alone = installer[i].alone /\ k.lost = lost
    BY <1>2, <2>1 DEF InstallCalls
  <2>3. /\ installer' = [installer EXCEPT ![i] = k] /\ installer'[i] = k
        /\ UNCHANGED <<promised, staged>>
    BY <1>9, <2>1 DEF GoOn, ComponentInv, ComponentTypes
  <2>4. Comp(i)' = Comp(i) /\ Top(i)' = Top(i) /\ Writing(i)'
    BY <1>4, <2>2, <2>3 DEF Comp, Top, Writing
  <2>5. CallShape(i)' /\ WritesUnpromised(i)'
    BY <1>2, <1>3, <2>2, <2>3, <2>4 DEF CallShape, WritesUnpromised, At
  <2>6. installer[i].alone => CallProgress(i)'
    <3> SUFFICES ASSUME installer[i].alone PROVE CallProgress(i)'
      OBVIOUS
    <3>1. installer[i].kind \in {"url", "manifest"} => staged'[StagingFile(Comp(i))] = installer[i].text
      BY <1>2, <2>3 DEF CallProgress
    <3>2. /\ Wrote(i, "manifest", "call")' = (IF <<Comp(i), "manifest">> \in lost THEN Cut ELSE "call")
          /\ Wrote(i, "module", installer[i].text)' = (IF <<Comp(i), "module">> \in lost THEN Cut ELSE installer[i].text)
      BY <2>2, <2>3, <2>4 DEF Wrote
    <3> QED BY <1>4, <1>7, <1>8, <1>9, <2>2, <2>3, <2>4, <3>1, <3>2 DEF CallProgress
  <2>7. installer[i].alone => CallNeeds(i)'
    BY <1>2, <2>2, <2>3, NeedsStand
  <2>8. CallInv(i)'
    BY <2>2, <2>3, <2>5, <2>6, <2>7 DEF CallInv
  <2>9. staged' \in StagedStates
    BY <2>3 DEF ComponentInv, ComponentTypes
  <2> QED BY <1>3, <1>5, <2>2, <2>3, <2>8, <2>9, ProceedKeeps
<1>10. CASE ~(installer[i].leaf < 3)
  <2>1. Copied(i, lost) /\ staged' = Unstaged(i) /\ installer[i].leaf = 3
    BY <1>4, <1>10 DEF GoOn
  <2>2. /\ staged' \in StagedStates
        /\ \A d \in Components : d # Comp(i) => staged'[StagingFile(d)] = staged[StagingFile(d)]
    BY <2>1, UnstagedStands
  <2>4. CASE installer[i].kind = "manifest"
    <3>1. PICK k : k = [installer[i] EXCEPT !.pc = "reopen", !.lost = lost]
      OBVIOUS
    <3>2. /\ k \in InstallCalls /\ k.pc = "reopen" /\ k.text = installer[i].text /\ k.kind = installer[i].kind
          /\ k.goal = installer[i].goal /\ k.leaf = installer[i].leaf /\ k.stack = installer[i].stack
          /\ k.done = installer[i].done /\ k.alone = installer[i].alone /\ k.lost = lost
      BY <1>2, <3>1 DEF InstallCalls
    <3>3. installer' = [installer EXCEPT ![i] = k] /\ installer'[i] = k /\ promised' = promised
      BY <2>1, <2>4, <3>1 DEF Copied, ComponentInv, ComponentTypes
    <3>4. Comp(i)' = Comp(i) /\ Top(i)' = Top(i) /\ Writing(i)'
      BY <3>2, <3>3 DEF Comp, Top, Writing
    <3>5. CallShape(i)' /\ WritesUnpromised(i)'
      BY <1>2, <1>3, <2>4, <3>2, <3>3, <3>4 DEF CallShape, WritesUnpromised, At
    <3>6. installer[i].alone => CallProgress(i)'
      <4>1. /\ Wrote(i, "module", installer[i].text)' = (IF <<Comp(i), "module">> \in lost THEN Cut ELSE installer[i].text)
            /\ Wrote(i, "lib", installer[i].text)' = (IF <<Comp(i), "lib">> \in lost THEN Cut ELSE installer[i].text)
        BY <3>2, <3>3, <3>4 DEF Wrote
      <4> QED BY <1>7, <1>8, <2>1, <3>2, <3>3, <3>4, <4>1 DEF CallProgress
    <3>7. installer[i].alone => CallNeeds(i)'
      BY <1>2, <3>2, <3>3, NeedsStand
    <3>8. CallInv(i)'
      BY <3>2, <3>3, <3>5, <3>6, <3>7 DEF CallInv
    <3> QED BY <1>3, <1>5, <2>2, <3>2, <3>3, <3>8, ProceedKeeps
  <2>5. CASE installer[i].kind # "manifest"
    <3>1. PICK d : d = Installed(i, "call")
      OBVIOUS
    <3>2. d.comp = Comp(i) /\ d.files = Whole("call", installer[i].text)
      BY <3>1 DEF Installed
    <3>3. Succeed(i, {d}, lost)
      BY <2>1, <2>5, <3>1 DEF Copied
    <3>4. /\ d.files \in ComponentFiles /\ d.files.manifest = "call"
          /\ d.files.module = installer[i].text /\ d.files.lib = installer[i].text
      <4>1. installer[i].text \in Texts \cup {Missing}
        BY <1>2 DEF InstallCalls
      <4> QED BY <3>2, <4>1, FilesWhole
    <3>5. installer[i].alone => disk'[Comp(i)] = Left(d.files, Comp(i), lost)
      <4>1. disk'[Comp(i)] \in ComponentFiles
        BY <1>2 DEF DiskStates
      <4>2. /\ Left(d.files, Comp(i), lost) \in ComponentFiles
            /\ Left(d.files, Comp(i), lost).manifest = IF <<Comp(i), "manifest">> \in lost THEN Cut ELSE "call"
            /\ Left(d.files, Comp(i), lost).module = IF <<Comp(i), "module">> \in lost THEN Cut ELSE installer[i].text
            /\ Left(d.files, Comp(i), lost).lib = IF <<Comp(i), "lib">> \in lost THEN Cut ELSE installer[i].text
        BY <3>4, LeftFiles
      <4> QED BY <1>8, <2>1, <4>1, <4>2, FilesEqual
    <3> QED BY <1>2, <1>3, <1>5, <2>2, <3>2, <3>3, <3>4, <3>5, SucceedKeeps
  <2> QED BY <2>4, <2>5
<1> QED BY <1>9, <1>10

LEMMA FillLeafKeeps ==
  ASSUME ComponentInv, NEW i \in Installers, FillLeaf(i)
  PROVE  ComponentInv'
<1>1. Installs(i) /\ installer[i].pc = "fill" /\ fetched' = fetched /\ GoOn(i, installer[i].lost)
  BY DEF FillLeaf, Installs, At
<1>2. /\ installer[i] \in InstallCalls /\ Comp(i) \in Components
      /\ (installer[i].alone => CallProgress(i))
  BY <1>1, InstallFields
<1>3. Leaf(i) \in {"manifest", "module", "lib"}
  BY <1>1, LeafOf
<1>4. PICK v : v = Source(i)
  OBVIOUS
<1>5. /\ Leaf(i) = "manifest" => v = "call"
      /\ Leaf(i) # "manifest" => v \in FileTexts
      /\ Leaf(i) # "manifest" /\ installer[i].alone => v = installer[i].text
  BY <1>1, <1>4, SourceOf
<1>6. PICK c \in Components, f \in {"manifest", "module", "lib"} : c = Comp(i) /\ f = Leaf(i)
  BY <1>2, <1>3
<1>7. Becomes(c, f, v) /\ (f = "manifest" => v \in Origins) /\ (f # "manifest" => v \in FileTexts)
  BY <1>4, <1>5, <1>6 DEF FillLeaf, Becomes, Origins
<1>8. /\ disk' \in DiskStates /\ \A d \in Components : d # c => disk'[d] = disk[d]
      /\ disk'[c].manifest = IF f = "manifest" THEN v ELSE disk[c].manifest
      /\ disk'[c].module = IF f = "module" THEN v ELSE disk[c].module
      /\ disk'[c].lib = IF f = "lib" THEN v ELSE disk[c].lib
  BY <1>7, LeafChanges
<1>9. PICK lost : lost = installer[i].lost
  OBVIOUS
<1>10. /\ lost \in SUBSET (Components \X {"manifest", "module", "lib"}) /\ GoOn(i, lost)
       /\ lost \in {installer[i].lost, installer[i].lost \cup {<<Comp(i), Leaf(i)>>}}
  BY <1>1, <1>2, <1>9 DEF InstallCalls
<1>11. installer[i].alone => <<Comp(i), Leaf(i)>> \notin lost
  BY <1>1, <1>2, <1>9 DEF CallProgress, Opened
<1>12. /\ disk'[Comp(i)].manifest = IF Leaf(i) = "manifest" THEN v ELSE disk[Comp(i)].manifest
       /\ disk'[Comp(i)].module = IF Leaf(i) = "module" THEN v ELSE disk[Comp(i)].module
       /\ disk'[Comp(i)].lib = IF Leaf(i) = "lib" THEN v ELSE disk[Comp(i)].lib
       /\ \A d \in Components : d # Comp(i) => disk'[d] = disk[d]
  BY <1>6, <1>8
<1>13. installer[i].alone => v = IF <<Comp(i), Leaf(i)>> \in lost THEN Cut
                                 ELSE IF Leaf(i) = "manifest" THEN "call" ELSE installer[i].text
  BY <1>5, <1>11
<1> QED BY <1>1, <1>8, <1>10, <1>12, <1>13, GoOnKeeps

LEMMA FillLeafIsLostKeeps ==
  ASSUME ComponentInv, NEW i \in Installers, FillLeafIsLost(i)
  PROVE  ComponentInv'
<1>0. PICK lost : lost = installer[i].lost \cup {<<Comp(i), Leaf(i)>>}
  OBVIOUS
<1>1. Installs(i) /\ installer[i].pc = "fill" /\ fetched' = fetched /\ disk' = disk /\ GoOn(i, lost)
  BY <1>0 DEF FillLeafIsLost, Installs, At
<1>2. /\ installer[i] \in InstallCalls /\ Comp(i) \in Components
      /\ (installer[i].alone => CallProgress(i))
  BY <1>1, InstallFields
<1>3. Leaf(i) \in {"manifest", "module", "lib"}
  BY <1>1, LeafOf
<1>4. lost \in SUBSET (Components \X {"manifest", "module", "lib"})
  BY <1>0, <1>2, <1>3 DEF InstallCalls
<1>4a. PICK v : v = IF Leaf(i) = "manifest" THEN disk[Comp(i)].manifest
                 ELSE IF Leaf(i) = "module" THEN disk[Comp(i)].module ELSE disk[Comp(i)].lib
  OBVIOUS
<1>5. /\ disk'[Comp(i)].manifest = IF Leaf(i) = "manifest" THEN v ELSE disk[Comp(i)].manifest
      /\ disk'[Comp(i)].module = IF Leaf(i) = "module" THEN v ELSE disk[Comp(i)].module
      /\ disk'[Comp(i)].lib = IF Leaf(i) = "lib" THEN v ELSE disk[Comp(i)].lib
  BY <1>1, <1>3, <1>4a
<1>6. installer[i].alone => v = Cut
  <2>1. installer[i].alone => disk[Comp(i)][Leaf(i)] = Cut
    BY <1>1, <1>2 DEF CallProgress, Opened
  <2> QED BY <1>3, <1>4a, <2>1
<1>7. /\ disk' \in DiskStates /\ \A d \in Components : d # Comp(i) => disk'[d] = disk[d]
      /\ lost \in {installer[i].lost, installer[i].lost \cup {<<Comp(i), Leaf(i)>>}}
      /\ <<Comp(i), Leaf(i)>> \in lost
  BY <1>0, <1>1 DEF ComponentInv, ComponentTypes
<1>8. installer[i].alone => v = IF <<Comp(i), Leaf(i)>> \in lost THEN Cut
                                ELSE IF Leaf(i) = "manifest" THEN "call" ELSE installer[i].text
  BY <1>6, <1>7
<1> QED BY <1>1, <1>4, <1>5, <1>7, <1>8, GoOnKeeps

LEMMA FillLeafFailsKeeps ==
  ASSUME ComponentInv, NEW i \in Installers, FillLeafFails(i)
  PROVE  ComponentInv'
<1>1. Installs(i) /\ disk' = disk /\ Fail(i) /\ staged' = Unstaged(i) /\ fetched' = Unfetched(i)
  BY DEF FillLeafFails, Installs, At
<1> QED BY <1>1, UnstagedStands, FailKeeps

\* The stack of a call: its top changes, a frame is put on top, a frame is taken off.
LEMMA TopReplaced ==
  ASSUME NEW st \in Seq(InstallFrames), Len(st) \in Nat \ {0}, NEW f \in InstallFrames,
         NEW nst, nst = [st EXCEPT ![Len(st)] = f]
  PROVE  /\ nst \in Seq(InstallFrames) /\ Len(nst) = Len(st) /\ nst[Len(st)] = f
         /\ \A x \in 1 .. Len(st) - 1 : nst[x] = st[x]
OBVIOUS

LEMMA FramePushed ==
  ASSUME NEW st \in Seq(InstallFrames), NEW f \in InstallFrames, NEW nst, nst = Append(st, f)
  PROVE  /\ nst \in Seq(InstallFrames) /\ Len(nst) = Len(st) + 1 /\ nst[Len(st) + 1] = f
         /\ \A x \in 1 .. Len(st) : nst[x] = st[x]
OBVIOUS

LEMMA FramePopped ==
  ASSUME NEW st \in Seq(InstallFrames), Len(st) \in Nat \ {0}, NEW nst, nst = Front(st)
  PROVE  /\ nst \in Seq(InstallFrames) /\ Len(nst) = Len(st) - 1
         /\ \A x \in 1 .. Len(st) - 1 : nst[x] = st[x]
<1> PICK n \in Nat : n = Len(st) - 1
  OBVIOUS
<1>1. nst = SubSeq(st, 1, n)
  BY DEF Front
<1>2. SubSeq(st, 1, n) \in Seq(InstallFrames) /\ Len(SubSeq(st, 1, n)) = n
  OBVIOUS
<1>3. \A x \in 1 .. n : SubSeq(st, 1, n)[x] = st[x]
  OBVIOUS
<1> QED BY <1>1, <1>2, <1>3

\* What the steps between two components have in common: nothing is written.
LEMMA BetweenKeeps ==
  ASSUME ComponentInv, NEW i \in Installers, Installs(i), installer[i].kind = "manifest", ~Writing(i),
         NEW k \in InstallCalls, installer' = [installer EXCEPT ![i] = k],
         k.pc \in {"fetch", "read", "next", "download"}, k.pc = "download" => k.leaf = 1,
         k.kind = "manifest", k.goal = installer[i].goal, k.done = installer[i].done,
         k.lost = installer[i].lost, k.alone = installer[i].alone, Len(k.stack) \in 1 .. DepthMax + 1,
         UNCHANGED <<disk, staged, promised>>, fetched' \in FetchedStates,
         installer[i].alone => CallNeeds(i)'
  PROVE  ComponentInv'
<1>1. /\ installer[i] \in InstallCalls /\ CallShape(i)
      /\ (installer[i].alone => CallProgress(i))
  BY InstallFields
<1>2. installer'[i] = k
  BY DEF ComponentInv, ComponentTypes
<1>3. ~Writing(i)'
  BY <1>2 DEF Writing
<1>4. CallShape(i)'
  BY <1>1, <1>2 DEF CallShape, At
<1>5. installer[i].alone => CallProgress(i)'
  BY <1>1, <1>2, <1>3 DEF CallProgress
<1>6. CallInv(i)'
  BY <1>2, <1>3, <1>4, <1>5 DEF CallInv, WritesUnpromised
<1>7. disk' \in DiskStates /\ staged' \in StagedStates
  BY DEF ComponentInv, ComponentTypes
<1> QED BY <1>6, <1>7, ProceedKeeps

LEMMA FetchManifestKeeps ==
  ASSUME ComponentInv, NEW i \in Installers, FetchManifest(i)
  PROVE  ComponentInv'
<1>1. Installs(i) /\ installer[i].pc = "fetch" /\ UNCHANGED <<disk, staged>>
  BY DEF FetchManifest, Installs, At
<1>2. /\ installer[i] \in InstallCalls /\ CallShape(i) /\ Comp(i) \in Components /\ Depth(i) \in Depths
      /\ (installer[i].alone => CallNeeds(i)) /\ Len(installer[i].stack) \in 1 .. DepthMax + 1
  BY <1>1, InstallFields
<1>3. installer[i].kind = "manifest" /\ ~Writing(i)
  BY <1>1, <1>2 DEF CallShape, Writing
<1>4. ASSUME fetched' = [fetched EXCEPT ![Depth(i)] = Comp(i)], Move(i, "read"), promised' = promised
      PROVE  ComponentInv'
  <2>1. PICK k : k = [installer[i] EXCEPT !.pc = "read"]
    OBVIOUS
  <2>2. /\ k \in InstallCalls /\ k.pc = "read" /\ k.kind = installer[i].kind
        /\ k.goal = installer[i].goal /\ k.stack = installer[i].stack
        /\ k.done = installer[i].done /\ k.alone = installer[i].alone /\ k.lost = installer[i].lost
    BY <1>2, <2>1 DEF InstallCalls
  <2>3. installer' = [installer EXCEPT ![i] = k] /\ installer'[i] = k
    BY <1>4, <2>1 DEF Move, ComponentInv, ComponentTypes
  <2>4. fetched' \in FetchedStates /\ fetched'[Depth(i)] = Comp(i)
    BY <1>2, <1>4 DEF ComponentInv, ComponentTypes, FetchedStates
  <2>5. installer[i].alone => CallNeeds(i)'
    <3>1. Comp(i)' = Comp(i) /\ Depth(i)' = Depth(i) /\ Done(i)' = Done(i) /\ \A x : Waits(i, x)' = Waits(i, x)
      BY <2>2, <2>3 DEF Comp, Top, Depth, Done, Waits
    <3> QED BY <1>2, <2>2, <2>3, <2>4, <3>1 DEF CallNeeds, At
  <2> QED BY <1>1, <1>2, <1>3, <1>4, <2>2, <2>3, <2>4, <2>5, BetweenKeeps
<1>5. ASSUME Fail(i), fetched' = Unfetched(i) PROVE ComponentInv'
  <2>1. staged' \in StagedStates
    BY <1>1 DEF ComponentInv, ComponentTypes
  <2> QED BY <1>1, <1>5, <2>1, FailKeeps
<1> QED BY <1>4, <1>5 DEF FetchManifest

\* What a call that is alone reads is the manifest it has fetched.
LEMMA ReadManifestKeeps ==
  ASSUME ComponentInv, NEW i \in Installers, ReadManifest(i)
  PROVE  ComponentInv'
<1>1. Installs(i) /\ installer[i].pc = "read" /\ UNCHANGED <<disk, staged>>
  BY DEF ReadManifest, Installs, At
<1>2. /\ installer[i] \in InstallCalls /\ CallShape(i) /\ Comp(i) \in Components /\ Depth(i) \in Depths
      /\ (installer[i].alone => CallNeeds(i)) /\ Len(installer[i].stack) \in 1 .. DepthMax + 1
  BY <1>1, InstallFields
<1>3. installer[i].kind = "manifest" /\ ~Writing(i)
  BY <1>1, <1>2 DEF CallShape, Writing
<1>4. PICK c : c = fetched[Depth(i)]
  OBVIOUS
<1>5. CASE c = Missing
  <2>1. Fail(i) /\ fetched' = Unfetched(i)
    BY <1>4, <1>5 DEF ReadManifest
  <2>2. staged' \in StagedStates
    BY <1>1 DEF ComponentInv, ComponentTypes
  <2> QED BY <1>1, <2>1, <2>2, FailKeeps
<1>6. CASE c # Missing
  <2> PICK n, st : n = Len(installer[i].stack) /\ st = installer[i].stack
    OBVIOUS
  <2>1. c \in Components /\ Requires[c] \subseteq Components
    BY <1>2, <1>4, <1>6, ComponentAssumption DEF ComponentInv, ComponentTypes, FetchedStates
  <2>2. PICK f : f = Frame(c, Requires[c])
    OBVIOUS
  <2>2a. f \in InstallFrames /\ f.comp = c /\ f.todo = Requires[c]
    BY <2>1, <2>2 DEF Frame, InstallFrames
  <2>3. PICK nst : nst = [st EXCEPT ![n] = f]
    OBVIOUS
  <2>4. PICK k : k = [installer[i] EXCEPT !.pc = "next", !.stack = nst]
    OBVIOUS
  <2>5. installer' = [installer EXCEPT ![i] = k] /\ UNCHANGED <<promised, fetched>>
    <3>1. /\ installer' = [installer EXCEPT ![i].pc = "next", ![i].stack[n] = f]
          /\ UNCHANGED <<promised, fetched>>
      BY <1>4, <1>6, <2>2 DEF ReadManifest
    <3>2. i \in DOMAIN installer
      BY DEF ComponentInv, ComponentTypes
    <3>3. [installer EXCEPT ![i].pc = "next", ![i].stack[n] = f] = [installer EXCEPT ![i] = k]
      BY <2>3, <2>4, <3>2
    <3> QED BY <3>1, <3>3
  <2>6. st \in Seq(InstallFrames) /\ n = Len(st) /\ n \in 1 .. DepthMax + 1 /\ n \in Nat \ {0}
    BY <1>2, ComponentAssumption DEF InstallCalls
  <2>7. /\ nst \in Seq(InstallFrames) /\ Len(nst) = n /\ nst[n] = f
        /\ \A x \in 1 .. n - 1 : nst[x] = st[x]
    BY <2>3, <2>6, <2>2a, TopReplaced
  <2>8. /\ k \in InstallCalls /\ k.pc = "next" /\ k.kind = installer[i].kind
        /\ k.goal = installer[i].goal /\ k.stack = nst
        /\ k.done = installer[i].done /\ k.alone = installer[i].alone /\ k.lost = installer[i].lost
    BY <1>2, <2>4, <2>7 DEF InstallCalls
  <2>9. installer'[i] = k
    BY <2>5 DEF ComponentInv, ComponentTypes
  <2>10. ASSUME installer[i].alone PROVE CallNeeds(i)'
    <3>1. CallNeeds(i) /\ c = st[n].comp
      BY <1>1, <1>2, <1>3, <1>4, <2>10 DEF CallNeeds, At, Comp, Top
    <3>2. \A x \in 1 .. n : nst[x].comp = st[x].comp
      BY <2>6, <2>7, <2>2a, <3>1
    <3>3. Done(i)' = Done(i) /\ Waits(i, n)' = {} /\ \A x \in 1 .. n - 1 : Waits(i, x)' = Waits(i, x)
      BY <2>7, <2>8, <2>9, <2>2a DEF Done, Waits
    <3>4. \A x \in 1 .. n - 1 : nst[x + 1].comp = st[x + 1].comp
      BY <2>6, <3>2
    <3>5. nst[1].comp = installer[i].goal
      BY <1>3, <2>6, <3>1, <3>2 DEF CallNeeds
    <3> QED BY <1>3, <2>7, <2>8, <2>9, <3>1, <3>3, <3>4, <3>5 DEF CallNeeds, At
  <2>11. fetched' \in FetchedStates
    BY <2>5 DEF ComponentInv, ComponentTypes
  <2> QED BY <1>1, <1>3, <2>5, <2>6, <2>7, <2>8, <2>10, <2>11, BetweenKeeps
<1> QED BY <1>5, <1>6

LEMMA InstallDependencyKeeps ==
  ASSUME ComponentInv, NEW i \in Installers, InstallDependency(i)
  PROVE  ComponentInv'
<1>1. Installs(i) /\ installer[i].pc = "next" /\ UNCHANGED <<disk, staged>>
  BY DEF InstallDependency, Installs, At
<1>2. /\ installer[i] \in InstallCalls /\ CallShape(i) /\ Top(i) \in InstallFrames
      /\ (installer[i].alone => CallNeeds(i)) /\ Len(installer[i].stack) \in 1 .. DepthMax + 1
  BY <1>1, InstallFields
<1>3. installer[i].kind = "manifest" /\ ~Writing(i)
  BY <1>1, <1>2 DEF CallShape, Writing
<1>4. CASE Depth(i) = DepthMax
  <2>1. Fail(i) /\ fetched' = Unfetched(i)
    BY <1>4 DEF InstallDependency
  <2>2. staged' \in StagedStates
    BY <1>1 DEF ComponentInv, ComponentTypes
  <2> QED BY <1>1, <2>1, <2>2, FailKeeps
<1>5. CASE Depth(i) # DepthMax
  <2> PICK n, st : n = Len(installer[i].stack) /\ st = installer[i].stack
    OBVIOUS
  <2>1. st \in Seq(InstallFrames) /\ n = Len(st) /\ n \in 1 .. DepthMax /\ n \in Nat \ {0} /\ st[n] = Top(i)
    BY <1>2, <1>5, ComponentAssumption DEF InstallCalls, Depth, Top
  <2>2. PICK c \in Top(i).todo :
          /\ installer' = [installer EXCEPT ![i].pc = "fetch",
                ![i].stack = Append([st EXCEPT ![n].todo = st[n].todo \ {c}], Frame(c, {}))]
          /\ UNCHANGED <<promised, fetched>>
    BY <1>5 DEF InstallDependency
  <2>3. PICK f, g : f = [st[n] EXCEPT !.todo = st[n].todo \ {c}] /\ g = Frame(c, {})
    OBVIOUS
  <2>4. /\ f \in InstallFrames /\ f.comp = st[n].comp /\ f.todo = st[n].todo \ {c}
        /\ g \in InstallFrames /\ g.comp = c
    BY <1>2, <2>1, <2>3 DEF Frame, InstallFrames
  <2>5. PICK mst : mst = [st EXCEPT ![n] = f]
    OBVIOUS
  <2>6. PICK nst : nst = Append(mst, g)
    OBVIOUS
  <2>7. PICK k : k = [installer[i] EXCEPT !.pc = "fetch", !.stack = nst]
    OBVIOUS
  <2>8. installer' = [installer EXCEPT ![i] = k]
    <3>1. i \in DOMAIN installer
      BY DEF ComponentInv, ComponentTypes
    <3>2. nst = Append([st EXCEPT ![n].todo = st[n].todo \ {c}], Frame(c, {}))
      BY <2>1, <2>3, <2>5, <2>6
    <3> QED BY <2>2, <2>7, <3>1, <3>2
  <2>9. /\ mst \in Seq(InstallFrames) /\ Len(mst) = n /\ mst[n] = f
        /\ \A x \in 1 .. n - 1 : mst[x] = st[x]
    BY <2>1, <2>4, <2>5, TopReplaced
  <2>10. /\ nst \in Seq(InstallFrames) /\ Len(nst) = n + 1 /\ nst[n + 1] = g /\ nst[n] = f
         /\ \A x \in 1 .. n - 1 : nst[x] = st[x]
    <3>1. /\ nst \in Seq(InstallFrames) /\ Len(nst) = n + 1 /\ nst[n + 1] = g
          /\ \A x \in 1 .. n : nst[x] = mst[x]
      BY <2>4, <2>6, <2>9, FramePushed
    <3> QED BY <2>1, <2>9, <3>1
  <2>11. /\ k \in InstallCalls /\ k.pc = "fetch" /\ k.kind = installer[i].kind
         /\ k.goal = installer[i].goal /\ k.stack = nst
         /\ k.done = installer[i].done /\ k.alone = installer[i].alone /\ k.lost = installer[i].lost
    BY <1>2, <2>7, <2>10 DEF InstallCalls
  <2>12. installer'[i] = k
    BY <2>8 DEF ComponentInv, ComponentTypes
  <2>13. ASSUME installer[i].alone PROVE CallNeeds(i)'
    <3>1. CallNeeds(i)
      BY <1>2, <2>13
    <3>2. Done(i)' = Done(i) /\ \A x \in 1 .. n - 1 : Waits(i, x)' = Waits(i, x)
      BY <2>10, <2>11, <2>12 DEF Done, Waits
    <3>3. Waits(i, n)' \subseteq Done(i) \cup {c}
      <4>1. Waits(i, n) \subseteq Done(i)
        BY <1>1, <1>3, <3>1 DEF CallNeeds, At
      <4>2. Waits(i, n)' \subseteq Waits(i, n) \cup {c}
        BY <2>4, <2>10, <2>11, <2>12 DEF Waits
      <4> QED BY <4>1, <4>2
    <3>4. ASSUME NEW x \in 1 .. n PROVE Waits(i, x)' \subseteq Done(i) \cup {nst[x + 1].comp}
      <4>1. CASE x = n
        BY <2>4, <2>10, <3>3, <4>1
      <4>2. CASE x # n
        <5>1. x \in 1 .. n - 1 /\ x + 1 \in 1 .. n
          BY <2>1, <4>2
        <5>2. nst[x + 1].comp = st[x + 1].comp
          <6>1. x + 1 = n \/ x + 1 \in 1 .. n - 1
            BY <2>1, <5>1
          <6> QED BY <2>4, <2>10, <6>1
        <5>3. Waits(i, x) \subseteq Done(i) \cup {st[x + 1].comp}
          BY <1>3, <3>1, <5>1 DEF CallNeeds
        <5> QED BY <3>2, <5>1, <5>2, <5>3
      <4> QED BY <4>1, <4>2
    <3>5. nst[1].comp = installer[i].goal
      <4>1. st[1].comp = installer[i].goal
        BY <1>3, <3>1 DEF CallNeeds
      <4>2. nst[1].comp = st[1].comp
        BY <2>1, <2>4, <2>10
      <4> QED BY <4>1, <4>2
    <3>6. /\ installer'[i].pc = "fetch" /\ installer'[i].stack = nst /\ (Len(nst) - 1) = n
          /\ installer'[i].done = installer[i].done /\ installer'[i].goal = installer[i].goal
      BY <2>1, <2>10, <2>11, <2>12
    <3>7. \A d \in installer[i].done : /\ Requires[d.comp] \subseteq Done(i) /\ d.comp \notin Needed(d.comp)
                                       /\ \E t \in Texts : d.files = Whole("registry", t)
      BY <1>3, <3>1 DEF CallNeeds
    <3> QED BY <3>2, <3>4, <3>5, <3>6, <3>7 DEF CallNeeds, At
  <2>14. fetched' \in FetchedStates /\ promised' = promised
    BY <2>2 DEF ComponentInv, ComponentTypes
  <2>15. n + 1 \in 1 .. DepthMax + 1
    BY <2>1, ComponentAssumption
  <2> QED BY <1>1, <1>3, <2>8, <2>10, <2>11, <2>13, <2>14, <2>15, BetweenKeeps
<1> QED BY <1>4, <1>5

LEMMA InstallItselfKeeps ==
  ASSUME ComponentInv, NEW i \in Installers, InstallItself(i)
  PROVE  ComponentInv'
<1>1. /\ Installs(i) /\ installer[i].pc = "next" /\ Top(i).todo = {}
      /\ UNCHANGED <<disk, staged, fetched, promised>>
  BY DEF InstallItself, Installs, At
<1>2. /\ installer[i] \in InstallCalls /\ CallShape(i)
      /\ (installer[i].alone => CallNeeds(i)) /\ Len(installer[i].stack) \in 1 .. DepthMax + 1
  BY <1>1, InstallFields
<1>3. installer[i].kind = "manifest" /\ ~Writing(i)
  BY <1>1, <1>2 DEF CallShape, Writing
<1> PICK n \in 1 .. 3 : n = 1
  OBVIOUS
<1>4. PICK k : k = [installer[i] EXCEPT !.pc = "download", !.leaf = n]
  OBVIOUS
<1>5. /\ k \in InstallCalls /\ k.pc = "download" /\ k.leaf = n /\ k.kind = installer[i].kind
      /\ k.goal = installer[i].goal /\ k.stack = installer[i].stack
      /\ k.done = installer[i].done /\ k.alone = installer[i].alone /\ k.lost = installer[i].lost
  BY <1>2, <1>4 DEF InstallCalls
<1>6. installer' = [installer EXCEPT ![i] = k] /\ installer'[i] = k
  BY <1>4 DEF InstallItself, ComponentInv, ComponentTypes
<1>7. installer[i].alone => CallNeeds(i)'
  BY <1>1, <1>2, <1>5, <1>6, NeedsStand
<1>8. fetched' \in FetchedStates
  BY <1>1 DEF ComponentInv, ComponentTypes
<1> QED BY <1>1, <1>2, <1>3, <1>5, <1>6, <1>7, <1>8, BetweenKeeps

LEMMA ReopenManifestKeeps ==
  ASSUME ComponentInv, NEW i \in Installers, ReopenManifest(i)
  PROVE  ComponentInv'
<1>1. Installs(i) /\ installer[i].pc = "reopen" /\ UNCHANGED <<staged, fetched, promised>>
  BY DEF ReopenManifest, Installs, At
<1>2. /\ installer[i] \in InstallCalls /\ CallShape(i) /\ Comp(i) \in Components
      /\ (installer[i].alone => CallProgress(i) /\ CallNeeds(i))
  BY <1>1, InstallFields
<1>3. Writing(i) /\ promised[Comp(i)] = Missing
  BY <1>1, InstallFields DEF Writing, WritesUnpromised
<1> PICK ls : ls = installer[i].lost \ {<<Comp(i), "manifest">>}
  OBVIOUS
<1>4. PICK k : k = [installer[i] EXCEPT !.pc = "refill", !.lost = ls]
  OBVIOUS
<1>5. /\ k \in InstallCalls /\ k.pc = "refill" /\ k.text = installer[i].text /\ k.kind = installer[i].kind
      /\ k.goal = installer[i].goal /\ k.leaf = installer[i].leaf /\ k.stack = installer[i].stack
      /\ k.done = installer[i].done /\ k.alone = installer[i].alone /\ k.lost = ls
  BY <1>2, <1>4 DEF InstallCalls
<1>6. installer' = [installer EXCEPT ![i] = k] /\ installer'[i] = k
  BY <1>4 DEF ReopenManifest, ComponentInv, ComponentTypes
<1>7. Comp(i)' = Comp(i) /\ Top(i)' = Top(i) /\ Writing(i)'
  BY <1>5, <1>6 DEF Comp, Top, Writing
<1>8. /\ disk' \in DiskStates /\ \A d \in Components : d # Comp(i) => disk'[d] = disk[d]
      /\ disk'[Comp(i)].module = disk[Comp(i)].module /\ disk'[Comp(i)].lib = disk[Comp(i)].lib
      /\ disk'[Comp(i)].manifest = Cut
  <2>1. PICK c \in Components : c = Comp(i)
    BY <1>2
  <2>2. Becomes(c, "manifest", Cut)
    BY <2>1 DEF ReopenManifest, Becomes
  <2>3. Cut \in Origins
    BY DEF Origins
  <2>4. /\ disk' \in DiskStates /\ \A d \in Components : d # c => disk'[d] = disk[d]
        /\ disk'[c].module = disk[c].module /\ disk'[c].lib = disk[c].lib /\ disk'[c].manifest = Cut
    BY <2>2, <2>3, LeafChanges
  <2> QED BY <2>1, <2>4
<1>9. CallShape(i)' /\ WritesUnpromised(i)'
  BY <1>1, <1>2, <1>3, <1>5, <1>6, <1>7 DEF CallShape, WritesUnpromised, At
<1>10. installer[i].alone => CallProgress(i)'
  <2>1. \A d \in installer[i].done : d.comp \in Components
    BY <1>2 DEF InstallCalls, InstallParts
  <2> SUFFICES ASSUME installer[i].alone PROVE CallProgress(i)'
    OBVIOUS
  <2>2. /\ disk[Comp(i)].module = Wrote(i, "module", installer[i].text)
        /\ disk[Comp(i)].lib = Wrote(i, "lib", installer[i].text)
        /\ installer[i].text \in Texts
    BY <1>1, <1>2 DEF CallProgress
  <2>3. /\ disk'[Comp(i)].module = Wrote(i, "module", installer[i].text)'
        /\ disk'[Comp(i)].lib = Wrote(i, "lib", installer[i].text)'
    BY <1>5, <1>6, <1>7, <1>8, <2>2 DEF Wrote
  <2>4. Opened(i, "manifest")'
    BY <1>5, <1>6, <1>7, <1>8 DEF Opened
  <2>5. \A d \in installer[i].done :
          d.comp = Comp(i) \/ disk'[d.comp] = Left(d.files, d.comp, ls)
    <3>1. \A d \in installer[i].done : d.comp = Comp(i) \/ disk[d.comp] = Left(d.files, d.comp, installer[i].lost)
      BY <1>2 DEF CallProgress
    <3>2. ASSUME NEW d \in installer[i].done, d.comp # Comp(i)
          PROVE  Left(d.files, d.comp, ls) = Left(d.files, d.comp, installer[i].lost)
      <4>1. \A x : <<d.comp, x>> \in ls <=> <<d.comp, x>> \in installer[i].lost
        BY <3>2
      <4> QED BY <4>1 DEF Left
    <3> QED BY <1>8, <2>1, <3>1, <3>2
  <2> QED BY <1>5, <1>6, <1>7, <2>2, <2>3, <2>4, <2>5 DEF CallProgress
<1>11. installer[i].alone => CallNeeds(i)'
  BY <1>1, <1>2, <1>5, <1>6, NeedsStand
<1>12. CallInv(i)'
  BY <1>5, <1>6, <1>9, <1>10, <1>11 DEF CallInv
<1>13. fetched' \in FetchedStates /\ staged' \in StagedStates
  BY <1>1 DEF ComponentInv, ComponentTypes
<1> QED BY <1>1, <1>3, <1>5, <1>6, <1>8, <1>12, <1>13, ProceedKeeps

\* What a set holds that is closed under what its components need.
LEMMA NeededWithin ==
  ASSUME NEW c \in Components, NEW S \in SUBSET Components, Requires[c] \subseteq S,
         \A x \in S : Requires[x] \subseteq S
  PROVE  Needed(c) \subseteq S
BY DEF Needed

\* A frame that has installed everything its component needs adds it to what is done.
AddedTo(i) == {d \in installer[i].done : d.comp # Comp(i)} \cup {Installed(i, "registry")}
LEMMA DoneGrows ==
  ASSUME ComponentInv, NEW i \in Installers, Installs(i), installer[i].pc = "refill"
  PROVE  /\ AddedTo(i) \subseteq InstallParts
         /\ \E d \in AddedTo(i) : d.comp = Comp(i)
         /\ \A d \in AddedTo(i) : \/ d \in installer[i].done /\ d.comp # Comp(i)
                                  \/ d.comp = Comp(i) /\ d.files = Whole("registry", installer[i].text)
         /\ installer[i].alone =>
              /\ Done(i) \cup {Comp(i)} \subseteq {d.comp : d \in AddedTo(i)}
              /\ \A d \in AddedTo(i) : /\ Requires[d.comp] \subseteq {e.comp : e \in AddedTo(i)}
                                       /\ d.comp \notin Needed(d.comp)
                                       /\ \E t \in Texts : d.files = Whole("registry", t)
<1>1. /\ installer[i] \in InstallCalls /\ CallShape(i) /\ Comp(i) \in Components
      /\ (installer[i].alone => CallProgress(i) /\ CallNeeds(i))
  BY InstallFields
<1>2. installer[i].text \in Texts \cup {Missing} /\ installer[i].done \subseteq InstallParts
  BY <1>1 DEF InstallCalls
<1> PICK e : e = Installed(i, "registry")
  OBVIOUS
<1>3. e.comp = Comp(i) /\ e.files = Whole("registry", installer[i].text) /\ e \in InstallParts
  BY <1>1, <1>2 DEF Installed, InstallParts
<1>4. AddedTo(i) = {d \in installer[i].done : d.comp # Comp(i)} \cup {e}
  BY DEF AddedTo
<1>5. ASSUME installer[i].alone
      PROVE  /\ Done(i) \cup {Comp(i)} \subseteq {d.comp : d \in AddedTo(i)}
             /\ \A d \in AddedTo(i) : /\ Requires[d.comp] \subseteq {x.comp : x \in AddedTo(i)}
                                      /\ d.comp \notin Needed(d.comp)
                                      /\ \E t \in Texts : d.files = Whole("registry", t)
  <2>1. CallNeeds(i) /\ installer[i].kind = "manifest" /\ installer[i].text \in Texts
    BY <1>1, <1>5 DEF CallShape, CallProgress
  <2>2. Done(i) \cup {Comp(i)} \subseteq {d.comp : d \in AddedTo(i)}
    BY <1>3, <1>4 DEF Done
  <2>3. \A d \in installer[i].done : /\ Requires[d.comp] \subseteq Done(i) /\ d.comp \notin Needed(d.comp)
                                     /\ \E t \in Texts : d.files = Whole("registry", t)
    BY <2>1 DEF CallNeeds
  <2>4. Requires[Comp(i)] \subseteq Done(i)
    <3>1. Waits(i, Len(installer[i].stack)) \subseteq Done(i) /\ Top(i).todo = {}
      BY <2>1 DEF CallNeeds, At
    <3> QED BY <3>1 DEF Waits, Comp, Top
  <2>5. Comp(i) \notin Needed(Comp(i))
    <3>1. CASE Comp(i) \in Done(i)
      BY <2>3, <3>1 DEF Done
    <3>2. CASE Comp(i) \notin Done(i)
      <4>1. Done(i) \subseteq Components /\ \A x \in Done(i) : Requires[x] \subseteq Done(i)
        BY <1>2, <2>3 DEF Done, InstallParts
      <4> QED BY <1>1, <2>4, <3>2, <4>1, NeededWithin
    <3> QED BY <3>1, <3>2
  <2> QED BY <1>3, <1>4, <2>1, <2>2, <2>3, <2>4, <2>5
<1> QED BY <1>2, <1>3, <1>4, <1>5

SpentTypes == spent \in [installs : Nat, outages : Nat, powerCuts : Nat]

\* The last write of an undisturbed frame completes what it has done, with success or
\* without.
Rewrites(i, lost) ==
  /\ lost \in {installer[i].lost, installer[i].lost \cup {<<Comp(i), "manifest">>}}
  /\ IF lost = installer[i].lost
       THEN disk' = [disk EXCEPT ![Comp(i)].manifest = "registry"] /\ UNCHANGED spent
       ELSE UNCHANGED disk /\ Outage

LEMMA RefillWrites ==
  ASSUME ComponentInv, NEW i \in Installers, Installs(i), installer[i].pc = "refill", NEW lost, Rewrites(i, lost)
  PROVE  /\ disk' \in DiskStates /\ \A d \in Components : d # Comp(i) => disk'[d] = disk[d]
         /\ lost \in SUBSET (Components \X {"manifest", "module", "lib"})
         /\ installer[i].alone => \A d \in AddedTo(i) : disk'[d.comp] = Left(d.files, d.comp, lost)
<1>2. /\ installer[i] \in InstallCalls /\ Comp(i) \in Components
      /\ (installer[i].alone => CallProgress(i))
  BY InstallFields
<1>3. /\ disk' \in DiskStates /\ \A d \in Components : d # Comp(i) => disk'[d] = disk[d]
      /\ disk'[Comp(i)].manifest = IF lost = installer[i].lost THEN "registry" ELSE disk[Comp(i)].manifest
      /\ disk'[Comp(i)].module = disk[Comp(i)].module /\ disk'[Comp(i)].lib = disk[Comp(i)].lib
  <2>1. CASE lost = installer[i].lost
    <3>1. PICK c \in Components : c = Comp(i)
      BY <1>2
    <3>2. Becomes(c, "manifest", "registry") /\ "registry" \in Origins
      BY <2>1, <3>1 DEF Rewrites, Becomes, Origins
    <3>3. /\ disk' \in DiskStates /\ \A d \in Components : d # c => disk'[d] = disk[d]
          /\ disk'[c].manifest = "registry" /\ disk'[c].module = disk[c].module /\ disk'[c].lib = disk[c].lib
      BY <3>2, LeafChanges
    <3> QED BY <2>1, <3>1, <3>3
  <2>2. CASE lost # installer[i].lost
    BY <2>2 DEF Rewrites, ComponentInv, ComponentTypes
  <2> QED BY <2>1, <2>2
<1>4. lost \in SUBSET (Components \X {"manifest", "module", "lib"})
  BY <1>2 DEF Rewrites, InstallCalls
<1>5. ASSUME installer[i].alone, NEW d \in AddedTo(i) PROVE disk'[d.comp] = Left(d.files, d.comp, lost)
  <2>1. /\ d \in InstallParts
        /\ \/ d \in installer[i].done /\ d.comp # Comp(i)
           \/ d.comp = Comp(i) /\ d.files = Whole("registry", installer[i].text)
    BY DoneGrows
  <2>2. CASE d \in installer[i].done /\ d.comp # Comp(i)
    <3>1. disk[d.comp] = Left(d.files, d.comp, installer[i].lost)
      BY <1>2, <1>5, <2>2 DEF CallProgress
    <3>2. Left(d.files, d.comp, lost) = Left(d.files, d.comp, installer[i].lost)
      <4>1. \A x : <<d.comp, x>> \in lost <=> <<d.comp, x>> \in installer[i].lost
        BY <2>2 DEF Rewrites
      <4> QED BY <4>1 DEF Left
    <3>3. disk'[d.comp] = disk[d.comp]
      BY <1>3, <2>1, <2>2 DEF InstallParts
    <3> QED BY <3>1, <3>2, <3>3
  <2>3. CASE d.comp = Comp(i) /\ d.files = Whole("registry", installer[i].text)
    <3>1. /\ disk[Comp(i)].manifest = Cut /\ <<Comp(i), "manifest">> \notin installer[i].lost
          /\ disk[Comp(i)].module = Wrote(i, "module", installer[i].text)
          /\ disk[Comp(i)].lib = Wrote(i, "lib", installer[i].text)
          /\ installer[i].text \in Texts
      BY <1>2, <1>5 DEF CallProgress, Opened
    <3>2. /\ d.files \in ComponentFiles /\ d.files.manifest = "registry"
          /\ d.files.module = installer[i].text /\ d.files.lib = installer[i].text
      BY <2>3, <3>1, FilesWhole
    <3>3. /\ <<Comp(i), "manifest">> \in lost <=> lost # installer[i].lost
          /\ <<Comp(i), "module">> \in lost <=> <<Comp(i), "module">> \in installer[i].lost
          /\ <<Comp(i), "lib">> \in lost <=> <<Comp(i), "lib">> \in installer[i].lost
      <4>1. lost = installer[i].lost \/ lost = installer[i].lost \cup {<<Comp(i), "manifest">>}
        BY DEF Rewrites
      <4>2. <<Comp(i), "module">> # <<Comp(i), "manifest">> /\ <<Comp(i), "lib">> # <<Comp(i), "manifest">>
        OBVIOUS
      <4> QED BY <3>1, <4>1, <4>2
    <3>4. /\ disk'[Comp(i)].manifest = IF <<Comp(i), "manifest">> \in lost THEN Cut ELSE "registry"
          /\ disk'[Comp(i)].module = IF <<Comp(i), "module">> \in lost THEN Cut ELSE installer[i].text
          /\ disk'[Comp(i)].lib = IF <<Comp(i), "lib">> \in lost THEN Cut ELSE installer[i].text
      BY <1>3, <3>1, <3>3 DEF Wrote
    <3>5. disk'[Comp(i)] \in ComponentFiles
      BY <1>2, <1>3 DEF DiskStates
    <3> QED BY <2>3, <3>2, <3>4, <3>5, LeftFiles, FilesEqual
  <2> QED BY <2>1, <2>2, <2>3
<1> QED BY <1>3, <1>4, <1>5

LEMMA RefillManifestKeeps ==
  ASSUME ComponentInv, NEW i \in Installers, RefillManifest(i)
  PROVE  ComponentInv'
<1>1. Installs(i) /\ installer[i].pc = "refill" /\ staged' = staged
  BY DEF RefillManifest, Installs, At
<1>2. /\ installer[i] \in InstallCalls /\ CallShape(i) /\ Comp(i) \in Components /\ Depth(i) \in Depths
      /\ (installer[i].alone => CallProgress(i) /\ CallNeeds(i))
  BY <1>1, InstallFields
<1>3. Writing(i) /\ promised[Comp(i)] = Missing /\ installer[i].kind = "manifest"
  BY <1>1, <1>2, InstallFields DEF Writing, WritesUnpromised, CallShape
<1>4. PICK lost : /\ Rewrites(i, lost)
                  /\ IF Depth(i) > 0
                       THEN /\ installer' = [installer EXCEPT ![i].pc = "next", ![i].done = AddedTo(i),
                                               ![i].stack = Front(@), ![i].lost = lost]
                            /\ UNCHANGED promised
                       ELSE Succeed(i, AddedTo(i), lost)
  BY DEF RefillManifest, Rewrites, AddedTo
<1>5. /\ disk' \in DiskStates /\ \A d \in Components : d # Comp(i) => disk'[d] = disk[d]
      /\ lost \in SUBSET (Components \X {"manifest", "module", "lib"})
      /\ installer[i].alone => \A d \in AddedTo(i) : disk'[d.comp] = Left(d.files, d.comp, lost)
  BY <1>1, <1>4, RefillWrites
<1>6. PICK nd : nd = AddedTo(i)
  OBVIOUS
<1>7. /\ nd \subseteq InstallParts /\ \E d \in nd : d.comp = Comp(i)
      /\ \A d \in nd : \/ d \in installer[i].done /\ d.comp # Comp(i)
                       \/ d.comp = Comp(i) /\ d.files = Whole("registry", installer[i].text)
      /\ installer[i].alone =>
           /\ Done(i) \cup {Comp(i)} \subseteq {d.comp : d \in nd}
           /\ \A d \in nd : /\ Requires[d.comp] \subseteq {e.comp : e \in nd} /\ d.comp \notin Needed(d.comp)
                            /\ \E t \in Texts : d.files = Whole("registry", t)
  BY <1>1, <1>6, DoneGrows
<1>8. installer[i].alone => \A d \in nd : disk'[d.comp] = Left(d.files, d.comp, lost)
  BY <1>5, <1>6
<1>9. fetched' \in FetchedStates
  BY <1>2 DEF RefillManifest, ComponentInv, ComponentTypes, FetchedStates
<1>10. staged' \in StagedStates
  BY <1>1 DEF ComponentInv, ComponentTypes
<1>11. CASE Depth(i) > 0
  <2> PICK n, st : n = Len(installer[i].stack) /\ st = installer[i].stack
    OBVIOUS
  <2>1. /\ st \in Seq(InstallFrames) /\ n = Len(st) /\ n \in 2 .. DepthMax + 1 /\ n \in Nat \ {0}
        /\ st[n].comp = Comp(i)
    BY <1>2, <1>11, ComponentAssumption DEF InstallCalls, CallShape, Depth, Comp, Top
  <2>2. PICK nst : nst = Front(st)
    OBVIOUS
  <2>3. /\ nst \in Seq(InstallFrames) /\ Len(nst) = n - 1
        /\ \A x \in 1 .. n - 1 : nst[x] = st[x]
    BY <2>1, <2>2, FramePopped
  <2>5. PICK k : k = [installer[i] EXCEPT !.pc = "next", !.done = nd, !.stack = nst, !.lost = lost]
    OBVIOUS
  <2>6. installer' = [installer EXCEPT ![i] = k] /\ promised' = promised
    <3>1. /\ installer' = [installer EXCEPT ![i].pc = "next", ![i].done = nd, ![i].stack = Front(@),
                                            ![i].lost = lost]
          /\ promised' = promised
      BY <1>4, <1>6, <1>11
    <3>2. i \in DOMAIN installer
      BY DEF ComponentInv, ComponentTypes
    <3> QED BY <2>2, <2>5, <3>1, <3>2
  <2>7. /\ k \in InstallCalls /\ k.pc = "next" /\ k.kind = installer[i].kind
        /\ k.goal = installer[i].goal /\ k.stack = nst
        /\ k.done = nd /\ k.alone = installer[i].alone /\ k.lost = lost
    <3>1. nd \in SUBSET InstallParts
      BY <1>7
    <3> QED BY <1>2, <1>5, <2>3, <2>5, <3>1 DEF InstallCalls
  <2>8. installer'[i] = k
    BY <2>6 DEF ComponentInv, ComponentTypes
  <2>9. ~Writing(i)' /\ CallShape(i)'
    <3>1. Len(nst) \in 1 .. DepthMax + 1
      BY <2>1, <2>3, ComponentAssumption
    <3> QED BY <1>2, <1>3, <2>7, <2>8, <3>1 DEF Writing, CallShape, At
  <2>10. installer[i].alone => CallProgress(i)'
    BY <1>8, <2>7, <2>8 DEF CallProgress
  <2>11. ASSUME installer[i].alone PROVE CallNeeds(i)'
    <3>1. installer[i].alone /\ CallNeeds(i)
      BY <1>2, <2>11
    <3>2. Done(i)' = {d.comp : d \in nd} /\ Done(i) \cup {Comp(i)} \subseteq Done(i)'
      BY <1>7, <2>7, <2>8, <3>1 DEF Done
    <3>3. \A x \in 1 .. n - 1 : Waits(i, x)' = Waits(i, x)
      BY <2>3, <2>7, <2>8 DEF Waits
    <3>4. \A x \in 1 .. n - 1 : Waits(i, x) \subseteq Done(i) \cup {st[x + 1].comp}
      BY <1>3, <3>1 DEF CallNeeds
    <3>5. Waits(i, n - 1)' \subseteq Done(i)'
      <4>1. n - 1 \in 1 .. n - 1 /\ (n - 1) + 1 = n
        BY <2>1
      <4>2. Waits(i, n - 1) \subseteq Done(i) \cup {st[n].comp}
        BY <3>4, <4>1
      <4> QED BY <2>1, <3>2, <3>3, <4>1, <4>2
    <3>6. ASSUME NEW x \in 1 .. (n - 1) - 1 PROVE Waits(i, x)' \subseteq Done(i)' \cup {nst[x + 1].comp}
      <4>1. x \in 1 .. n - 1 /\ x + 1 \in 1 .. n - 1
        BY <2>1
      <4>2. nst[x + 1] = st[x + 1]
        BY <2>3, <4>1
      <4>3. Waits(i, x)' = Waits(i, x) /\ Waits(i, x) \subseteq Done(i) \cup {st[x + 1].comp}
        BY <3>3, <3>4, <4>1
      <4> QED BY <3>2, <4>2, <4>3
    <3>7. nst[1].comp = installer[i].goal
      BY <1>3, <2>1, <2>3, <3>1 DEF CallNeeds
    <3>8. \A d \in nd : /\ Requires[d.comp] \subseteq Done(i)' /\ d.comp \notin Needed(d.comp)
                        /\ \E t \in Texts : d.files = Whole("registry", t)
      BY <1>7, <3>1, <3>2
    <3> QED BY <2>3, <2>7, <2>8, <3>5, <3>6, <3>7, <3>8 DEF CallNeeds, At
  <2>12. CallInv(i)'
    BY <2>7, <2>8, <2>9, <2>10, <2>11 DEF CallInv, WritesUnpromised
  <2> QED BY <1>1, <1>3, <1>5, <1>9, <1>10, <2>6, <2>7, <2>12, ProceedKeeps
<1>12. CASE ~(Depth(i) > 0)
  <2>1. Succeed(i, nd, lost)
    BY <1>4, <1>6, <1>12
  <2>2. \A d \in nd : /\ d.comp \in Components
                      /\ d.files \in ComponentFiles
                      /\ installer[i].alone => disk'[d.comp] = Left(d.files, d.comp, lost)
    BY <1>7, <1>8, FilesWhole DEF InstallParts
  <2>3. \A d \in Components : d # Comp(i) => staged'[StagingFile(d)] = staged[StagingFile(d)]
    BY <1>1
  <2> QED BY <1>1, <1>3, <1>5, <1>7, <1>9, <1>10, <2>1, <2>2, <2>3, SucceedKeeps
<1> QED BY <1>2, <1>11, <1>12

LEMMA RemoveLeafKeeps ==
  ASSUME ComponentInv, NEW i \in Installers, RemoveLeaf(i)
  PROVE  ComponentInv'
<1>1. Installs(i) /\ installer[i].pc = "remove" /\ UNCHANGED <<staged, fetched>>
  BY DEF RemoveLeaf, Installs, At
<1>2. /\ installer[i] \in InstallCalls /\ CallShape(i) /\ Comp(i) \in Components
      /\ (installer[i].alone => CallProgress(i) /\ CallNeeds(i))
  BY <1>1, InstallFields
<1>3. installer[i].kind = "remove" /\ installer[i].done = {}
  BY <1>1, <1>2 DEF CallShape, At
<1>4. /\ installer[i].leaf \in {1, 2, 3}
      /\ installer[i].leaf = 1 => RemoveOrder[installer[i].leaf] = "lib"
      /\ installer[i].leaf = 2 => RemoveOrder[installer[i].leaf] = "manifest"
      /\ installer[i].leaf = 3 => RemoveOrder[installer[i].leaf] = "module"
  BY <1>2 DEF InstallCalls, RemoveOrder
<1>5. PICK f \in {"manifest", "module", "lib"} : f = RemoveOrder[installer[i].leaf]
  BY <1>4
<1> PICK fails \in BOOLEAN :
      /\ IF fails THEN UNCHANGED disk /\ Outage
         ELSE /\ disk' = [disk EXCEPT ![Comp(i)][RemoveOrder[installer[i].leaf]] = Missing]
              /\ UNCHANGED spent
      /\ IF installer[i].leaf < 3
           THEN /\ installer' = [installer EXCEPT ![i].leaf = @ + 1, ![i].alone = @ /\ ~fails]
                /\ promised' = [promised EXCEPT ![Comp(i)] = Missing]
           ELSE IF fails THEN Fail(i)
           ELSE Succeed(i, {[comp |-> Comp(i), files |-> Nothing]}, {})
  BY DEF RemoveLeaf
<1>6. /\ disk' \in DiskStates /\ \A d \in Components : d # Comp(i) => disk'[d] = disk[d]
      /\ ~fails =>
           /\ disk'[Comp(i)].manifest = IF f = "manifest" THEN Missing ELSE disk[Comp(i)].manifest
           /\ disk'[Comp(i)].module = IF f = "module" THEN Missing ELSE disk[Comp(i)].module
           /\ disk'[Comp(i)].lib = IF f = "lib" THEN Missing ELSE disk[Comp(i)].lib
  <2>1. CASE fails
    BY <2>1 DEF ComponentInv, ComponentTypes
  <2>2. CASE ~fails
    <3>1. PICK c \in Components : c = Comp(i)
      BY <1>2
    <3>2. Becomes(c, f, Missing) /\ Missing \in Origins /\ Missing \in FileTexts
      BY <1>5, <2>2, <3>1 DEF Becomes, Origins, FileTexts
    <3>3. /\ disk' \in DiskStates /\ \A d \in Components : d # c => disk'[d] = disk[d]
          /\ disk'[c].manifest = IF f = "manifest" THEN Missing ELSE disk[c].manifest
          /\ disk'[c].module = IF f = "module" THEN Missing ELSE disk[c].module
          /\ disk'[c].lib = IF f = "lib" THEN Missing ELSE disk[c].lib
      BY <3>2, LeafChanges
    <3> QED BY <3>1, <3>3
  <2> QED BY <2>1, <2>2
<1>7. fetched' \in FetchedStates /\ staged' \in StagedStates
  BY <1>1 DEF ComponentInv, ComponentTypes
<1>8. CASE installer[i].leaf < 3
  <2> PICK n \in 1 .. 3 : n = installer[i].leaf + 1
    BY <1>4, <1>8
  <2> PICK b \in BOOLEAN : b = (installer[i].alone /\ ~fails)
    OBVIOUS
  <2>1. PICK k : k = [installer[i] EXCEPT !.leaf = n, !.alone = b]
    OBVIOUS
  <2>2. /\ k \in InstallCalls /\ k.pc = "remove" /\ k.text = installer[i].text /\ k.kind = "remove"
        /\ k.goal = installer[i].goal /\ k.leaf = n /\ k.stack = installer[i].stack
        /\ k.done = {} /\ k.alone = b
    BY <1>1, <1>2, <1>3, <2>1 DEF InstallCalls
  <2>3. /\ installer' = [installer EXCEPT ![i] = k] /\ installer'[i] = k
        /\ promised' = [promised EXCEPT ![Comp(i)] = Missing]
    BY <1>8, <2>1 DEF ComponentInv, ComponentTypes
  <2>4. /\ promised'[Comp(i)] = Missing
        /\ \A d \in Components : d # Comp(i) => promised'[d] = promised[d]
    BY <1>2, <2>3 DEF ComponentInv, ComponentTypes, PromiseStates
  <2>5. Comp(i)' = Comp(i)
    BY <2>2, <2>3 DEF Comp, Top
  <2>6. CallShape(i)' /\ WritesUnpromised(i)'
    BY <1>2, <1>3, <2>2, <2>3, <2>4, <2>5 DEF CallShape, WritesUnpromised, At
  <2>7. ASSUME b PROVE CallProgress(i)'
    <3>1. installer[i].alone /\ ~fails /\ CallProgress(i)
      BY <1>2, <2>7
    <3>2. /\ n > 1 => disk'[Comp(i)].lib = Missing
          /\ n > 2 => disk'[Comp(i)].manifest = Missing
      BY <1>1, <1>4, <1>5, <1>6, <1>8, <3>1 DEF CallProgress
    <3> QED BY <2>2, <2>3, <2>5, <3>2 DEF CallProgress
  <2>8. CallNeeds(i)'
    BY <2>2, <2>3 DEF CallNeeds
  <2>9. CallInv(i)' /\ (b => installer[i].alone)
    BY <2>2, <2>3, <2>6, <2>7, <2>8 DEF CallInv
  <2> QED BY <1>1, <1>3, <1>6, <1>7, <2>2, <2>3, <2>4, <2>9, ProceedKeeps
<1>9. CASE ~(installer[i].leaf < 3)
  <2>1. installer[i].leaf = 3
    BY <1>4, <1>9
  <2>2. Writing(i) /\ promised[Comp(i)] = Missing
    BY <1>1, <2>1, InstallFields DEF Writing, WritesUnpromised
  <2>3. CASE fails
    BY <1>1, <1>7, <1>9, <2>3, FailKeeps
  <2>4. CASE ~fails
    <3>1. PICK d : d = [comp |-> Comp(i), files |-> Nothing]
      OBVIOUS
    <3>2. Succeed(i, {d}, {}) /\ d.comp = Comp(i) /\ d.files = Nothing
      BY <1>9, <2>4, <3>1
    <3>3. installer[i].alone => disk'[Comp(i)].manifest = Missing /\ disk'[Comp(i)].module = Missing
                                /\ disk'[Comp(i)].lib = Missing
      BY <1>1, <1>2, <1>4, <1>5, <1>6, <2>1, <2>4 DEF CallProgress
    <3>4. /\ d.files \in ComponentFiles /\ d.files.manifest = Missing /\ d.files.module = Missing
          /\ d.files.lib = Missing
      BY <3>2 DEF Nothing, ComponentFiles, Origins, FileTexts
    <3>5. installer[i].alone => disk'[Comp(i)] = Left(d.files, Comp(i), {})
      <4>1. disk'[Comp(i)] \in ComponentFiles
        BY <1>2, <1>6 DEF DiskStates
      <4>2. /\ Left(d.files, Comp(i), {}) \in ComponentFiles
            /\ Left(d.files, Comp(i), {}).manifest = Missing
            /\ Left(d.files, Comp(i), {}).module = Missing /\ Left(d.files, Comp(i), {}).lib = Missing
        BY <3>4 DEF Left, ComponentFiles, Origins, FileTexts
      <4> QED BY <3>3, <4>1, <4>2, FilesEqual
    <3> QED BY <1>1, <1>2, <1>6, <1>7, <2>2, <3>2, <3>4, <3>5, SucceedKeeps
  <2> QED BY <2>3, <2>4
<1> QED BY <1>8, <1>9

LEMMA PowerCutKeeps ==
  ASSUME ComponentInv, PowerCut
  PROVE  ComponentInv'
<1>1. installer' = [i \in Installers |-> Free] /\ UNCHANGED <<disk, staged, fetched, promised>>
  BY DEF PowerCut
<1>2. \A i \in Installers : ~Installs(i)'
  BY <1>1 DEF Installs, At, Free
<1>3. ComponentTypes' /\ InstalledIsWhole'
  BY <1>1 DEF ComponentInv, ComponentTypes, InstalledIsWhole
<1>4. Undisturbed' /\ \A i \in Installers : CallInv(i)'
  BY <1>2 DEF Undisturbed, CallInv
<1> QED BY <1>3, <1>4 DEF ComponentInv

LEMMA ComponentBegins ==
  ComponentInit => ComponentInv /\ SpentTypes
<1> SUFFICES ASSUME ComponentInit PROVE ComponentInv /\ SpentTypes
  OBVIOUS
<1>1. \A i \in Installers : ~Installs(i)
  BY DEF ComponentInit, Installs, At, Free
<1>2. disk \in DiskStates /\ promised \in PromiseStates
  BY DEF ComponentInit, DiskStates, PromiseStates, Nothing, ComponentFiles, Origins, FileTexts
<1>3. staged \in StagedStates /\ fetched \in FetchedStates
  BY DEF ComponentInit, StagedStates, FetchedStates
<1>4. ComponentTypes
  BY <1>2, <1>3 DEF ComponentInit, ComponentTypes
<1>5. InstalledIsWhole
  BY DEF ComponentInit, InstalledIsWhole
<1>6. Undisturbed /\ \A i \in Installers : CallInv(i)
  BY <1>1 DEF Undisturbed, CallInv
<1>7. SpentTypes
  BY DEF ComponentInit, SpentTypes
<1> QED BY <1>4, <1>5, <1>6, <1>7 DEF ComponentInv

LEMMA SpentKeeps ==
  ASSUME SpentTypes, ComponentNext
  PROVE  SpentTypes'
<1> SUFFICES ASSUME spent' # spent PROVE SpentTypes'
  BY DEF SpentTypes
<1>1. CASE Outage
  BY <1>1 DEF Outage, SpentTypes
<1>2. CASE PowerCut
  BY <1>2 DEF PowerCut, SpentTypes
<1>3. ASSUME NEW i \in Installers, NEW kind, NEW c, NEW t, NEW pc, Call(i, kind, c, t, pc)
      PROVE  SpentTypes'
  BY <1>3 DEF Call, SpentTypes
<1>4. ASSUME NEW i \in Installers,
             InstallText(i) \/ InstallOwn(i) \/ InstallUrl(i) \/ InstallManifest(i) \/ RemoveBegin(i)
      PROVE  SpentTypes'
  BY <1>3, <1>4 DEF InstallText, InstallOwn, InstallUrl, InstallManifest, RemoveBegin
<1>5. ASSUME NEW i \in Installers,
             \/ Download(i) \/ FillLeafIsLost(i) \/ FillLeafFails(i) \/ FetchManifest(i) \/ RefillManifest(i)
             \/ RemoveLeaf(i)
      PROVE  SpentTypes'
  <2>1. Outage
    BY <1>5 DEF Download, FillLeafIsLost, FillLeafFails, FetchManifest, RefillManifest, RemoveLeaf
  <2> QED BY <1>1, <2>1
<1>6. ASSUME NEW i \in Installers,
             \/ OpenLeaf(i) \/ FillLeaf(i) \/ ReadManifest(i) \/ InstallDependency(i)
             \/ InstallItself(i) \/ ReopenManifest(i)
      PROVE  FALSE
  BY <1>6 DEF OpenLeaf, FillLeaf, ReadManifest, InstallDependency, InstallItself, ReopenManifest
<1> QED BY <1>2, <1>4, <1>5, <1>6 DEF ComponentNext

LEMMA ComponentStep ==
  ASSUME ComponentInv, SpentTypes, [ComponentNext]_componentVars
  PROVE  ComponentInv' /\ SpentTypes'
<1>1. CASE UNCHANGED componentVars
  <2>1. UNCHANGED <<disk, staged, fetched, installer, promised, spent>>
    BY <1>1 DEF componentVars
  <2>2. ComponentTypes' /\ InstalledIsWhole' /\ Undisturbed' /\ SpentTypes'
    BY <2>1 DEF ComponentInv, ComponentTypes, InstalledIsWhole, Undisturbed, Installs, At, SpentTypes
  <2>3. ASSUME NEW i \in Installers PROVE CallInv(i)'
    <3>1. CallInv(i)
      BY DEF ComponentInv
    <3>2. /\ Installs(i)' = Installs(i) /\ CallShape(i)' = CallShape(i) /\ CallProgress(i)' = CallProgress(i)
          /\ WritesUnpromised(i)' = WritesUnpromised(i) /\ CallNeeds(i)' = CallNeeds(i)
      BY <2>1 DEF Installs, CallShape, CallProgress, WritesUnpromised, CallNeeds, At, Comp, Top, Writing,
                  Depth, Done, Waits, Wrote, Opened, Leaf
    <3> QED BY <2>1, <3>1, <3>2 DEF CallInv
  <2> QED BY <2>2, <2>3 DEF ComponentInv
<1>2. CASE ComponentNext
  <2>1. SpentTypes'
    BY <1>2, SpentKeeps
  <2>2. ASSUME PowerCut PROVE ComponentInv'
    BY <2>2, PowerCutKeeps
  <2>3. ASSUME NEW i \in Installers,
               \/ InstallText(i) \/ InstallOwn(i) \/ InstallUrl(i) \/ Download(i)
               \/ OpenLeaf(i) \/ FillLeaf(i) \/ FillLeafIsLost(i) \/ FillLeafFails(i)
               \/ InstallManifest(i) \/ FetchManifest(i) \/ ReadManifest(i)
               \/ InstallDependency(i) \/ InstallItself(i) \/ ReopenManifest(i) \/ RefillManifest(i)
               \/ RemoveBegin(i) \/ RemoveLeaf(i)
        PROVE  ComponentInv'
    BY <2>3, CallsKeep, DownloadKeeps, OpenLeafKeeps, FillLeafKeeps, FillLeafIsLostKeeps, FillLeafFailsKeeps, FetchManifestKeeps,
       ReadManifestKeeps, InstallDependencyKeeps, InstallItselfKeeps, ReopenManifestKeeps, RefillManifestKeeps,
       RemoveLeafKeeps
  <2> QED BY <1>2, <2>1, <2>2, <2>3 DEF ComponentNext
<1> QED BY <1>1, <1>2

LEMMA ComponentInvariant == ComponentSpec => [](ComponentInv /\ SpentTypes)
<1>1. ComponentInit => ComponentInv /\ SpentTypes
  BY ComponentBegins
<1>2. ComponentInv /\ SpentTypes /\ [ComponentNext]_componentVars => (ComponentInv /\ SpentTypes)'
  BY ComponentStep
<1> QED BY <1>1, <1>2, PTL DEF ComponentSpec

\* What an undisturbed install or removal said of a component is what is on the disk,
\* until another call writes it, but for the files a write of which failed in that call
\* without its noticing, which are cut: whatever other calls, failed downloads and
\* power failures come between (component_runtime.c:370 and the installs that call
\* it, component_runtime.c:746).
THEOREM InstallsStay == ComponentSpec => []InstalledIsWhole
<1>1. ComponentInv => InstalledIsWhole
  BY DEF ComponentInv
<1> QED BY <1>1, ComponentInvariant, PTL

\* A step of another call leaves a call where it is.
LEMMA OtherStays ==
  ASSUME ComponentInv, NEW i \in Installers, Installs(i), NEW j \in Installers, j # i,
         \/ InstallText(j) \/ InstallOwn(j) \/ InstallUrl(j) \/ Download(j)
         \/ OpenLeaf(j) \/ FillLeaf(j) \/ FillLeafIsLost(j) \/ FillLeafFails(j)
         \/ InstallManifest(j) \/ FetchManifest(j) \/ ReadManifest(j)
         \/ InstallDependency(j) \/ InstallItself(j) \/ ReopenManifest(j) \/ RefillManifest(j)
         \/ RemoveBegin(j) \/ RemoveLeaf(j)
  PROVE  installer'[i].pc = installer[i].pc
<1>1. installer[i] \in InstallCalls /\ installer \in [Installers -> InstallCalls \cup {Free}]
  BY InstallFields DEF ComponentInv, ComponentTypes
<1>2. ASSUME NEW kind, NEW c, NEW t, NEW pc, Call(j, kind, c, t, pc)
      PROVE  installer'[i].pc = installer[i].pc
  <2>1. installer'[i] = [installer[i] EXCEPT !.alone = FALSE] \/ installer'[i] = installer[i]
    BY <1>2 DEF Call
  <2> QED BY <1>1, <2>1 DEF InstallCalls
<1>3. CASE InstallText(j) \/ InstallOwn(j) \/ InstallUrl(j) \/ InstallManifest(j) \/ RemoveBegin(j)
  BY <1>2, <1>3 DEF InstallText, InstallOwn, InstallUrl, InstallManifest, RemoveBegin
<1>4. ASSUME NEW v, installer' = [installer EXCEPT ![j] = v]
      PROVE  installer'[i].pc = installer[i].pc
  BY <1>1, <1>4
<1>5. CASE Fail(j)
  BY <1>4, <1>5 DEF Fail
<1>6. ASSUME NEW done, NEW lost, Succeed(j, done, lost) PROVE installer'[i].pc = installer[i].pc
  BY <1>4, <1>6 DEF Succeed
<1>7. CASE Download(j) \/ FetchManifest(j) \/ ReadManifest(j) \/ FillLeafFails(j)
  BY <1>4, <1>5, <1>7 DEF Download, FetchManifest, ReadManifest, FillLeafFails, Move
<1>8. CASE FillLeaf(j) \/ FillLeafIsLost(j) \/ RemoveLeaf(j)
  BY <1>4, <1>5, <1>6, <1>8 DEF FillLeaf, FillLeafIsLost, GoOn, Copied, RemoveLeaf
<1>9. CASE InstallDependency(j) \/ RefillManifest(j)
  BY <1>4, <1>5, <1>6, <1>9 DEF InstallDependency, RefillManifest
<1>10. CASE OpenLeaf(j) \/ InstallItself(j) \/ ReopenManifest(j)
  BY <1>4, <1>10 DEF OpenLeaf, InstallItself, ReopenManifest, Move
<1> QED BY <1>3, <1>7, <1>8, <1>9, <1>10

\* Only its last step ends a call that rewrites its manifest with a promise.
LEMMA RefillPromises ==
  ASSUME ComponentInv, NEW i \in Installers, ComponentNext,
         installer[i].pc = "refill", promised' # promised, installer'[i] = Free
  PROVE  /\ Depth(i) = 0 /\ installer[i].alone /\ Installs(i)
         /\ \E lost : Rewrites(i, lost)
<1>1. Installs(i)
  BY DEF Installs, At
<1>2. ~PowerCut
  BY DEF PowerCut
<1>3. ASSUME NEW j \in Installers, j # i,
             \/ InstallText(j) \/ InstallOwn(j) \/ InstallUrl(j) \/ Download(j)
             \/ OpenLeaf(j) \/ FillLeaf(j) \/ FillLeafIsLost(j) \/ FillLeafFails(j)
             \/ InstallManifest(j) \/ FetchManifest(j) \/ ReadManifest(j)
             \/ InstallDependency(j) \/ InstallItself(j) \/ ReopenManifest(j) \/ RefillManifest(j)
             \/ RemoveBegin(j) \/ RemoveLeaf(j)
      PROVE  FALSE
  <2>1. installer'[i].pc = "refill"
    BY <1>1, <1>3, OtherStays
  <2> QED BY <2>1 DEF Free
<1>4. \A kind, c, t, pc : ~Call(i, kind, c, t, pc)
  BY DEF Call, At
<1>5. RefillManifest(i)
  <2>1. ~(InstallText(i) \/ InstallOwn(i) \/ InstallUrl(i) \/ InstallManifest(i) \/ RemoveBegin(i))
    BY <1>4 DEF InstallText, InstallOwn, InstallUrl, InstallManifest, RemoveBegin
  <2>2. ~(Download(i) \/ OpenLeaf(i) \/ FillLeaf(i) \/ FillLeafIsLost(i) \/ FillLeafFails(i) \/ FetchManifest(i) \/ ReadManifest(i))
    BY DEF Download, OpenLeaf, FillLeaf, FillLeafIsLost, FillLeafFails, FetchManifest, ReadManifest, At
  <2>3. ~(InstallDependency(i) \/ InstallItself(i) \/ ReopenManifest(i) \/ RemoveLeaf(i))
    BY DEF InstallDependency, InstallItself, ReopenManifest, RemoveLeaf, At
  <2> QED BY <1>2, <1>3, <2>1, <2>2, <2>3 DEF ComponentNext
<1>6. PICK lost : /\ Rewrites(i, lost)
                  /\ IF Depth(i) > 0
                       THEN UNCHANGED promised ELSE Succeed(i, AddedTo(i), lost)
  BY <1>5 DEF RefillManifest, Rewrites, AddedTo
<1>7. ~(Depth(i) > 0) /\ Succeed(i, AddedTo(i), lost)
  BY <1>6
<1>8. installer[i].alone
  BY <1>7 DEF Succeed
<1>9. Depth(i) = 0
  BY <1>1, <1>7, InstallFields DEF Depths
<1> QED BY <1>1, <1>6, <1>8, <1>9

\* When an undisturbed install from a manifest says it is done, everything that the
\* component depends on, directly or not, is on the disk from the registry, but for the
\* files that the call lost without noticing, and nothing it installed depends on itself (the recursion of component_runtime.c:551).
THEOREM DependenciesThere == ComponentSpec => DependenciesInstalled
<1> DEFINE Reached(i) ==
      LET goal == installer[i].goal IN
      installer[i].pc = "refill" /\ promised' # promised /\ installer'[i] = Free
        => \A d \in Needed(goal) \cup {goal} :
             /\ \E t \in Texts, lost \in {installer[i].lost, installer[i].lost \cup {<<goal, "manifest">>}} :
                  /\ lost # installer[i].lost => spent' # spent
                  /\ disk'[d] = Left(Whole("registry", t), d, lost)
             /\ d \notin Needed(d)
<1>1. ASSUME ComponentInv, SpentTypes, [ComponentNext]_componentVars, NEW i \in Installers
      PROVE  Reached(i)
  <2> SUFFICES ASSUME installer[i].pc = "refill", promised' # promised, installer'[i] = Free,
                      NEW d \in Needed(installer[i].goal) \cup {installer[i].goal}
               PROVE  /\ \E t \in Texts,
                            lost \in {installer[i].lost, installer[i].lost \cup {<<installer[i].goal, "manifest">>}} :
                           /\ lost # installer[i].lost => spent' # spent
                           /\ disk'[d] = Left(Whole("registry", t), d, lost)
                      /\ d \notin Needed(d)
    OBVIOUS
  <2>1. Depth(i) = 0 /\ installer[i].alone /\ Installs(i) /\ \E lost : Rewrites(i, lost)
    BY <1>1, RefillPromises DEF componentVars
  <2> PICK lost : Rewrites(i, lost)
    BY <2>1
  <2>2. CallNeeds(i) /\ CallShape(i) /\ Comp(i) \in Components
    BY <1>1, <2>1, InstallFields
  <2>3. installer[i].goal = Comp(i)
    BY <2>1, <2>2 DEF CallNeeds, CallShape, Comp, Top, Depth, At
  <2>4. /\ lost \in {installer[i].lost, installer[i].lost \cup {<<installer[i].goal, "manifest">>}}
        /\ lost # installer[i].lost => spent' # spent
    BY <1>1, <2>3 DEF Rewrites, Outage, SpentTypes
  <2> PICK S : S = {x.comp : x \in AddedTo(i)}
    OBVIOUS
  <2>5. /\ Comp(i) \in S /\ S \subseteq Components /\ \A x \in S : Requires[x] \subseteq S
        /\ \A x \in S : x \notin Needed(x) /\ \E t \in Texts : disk'[x] = Left(Whole("registry", t), x, lost)
    <3>1. /\ AddedTo(i) \subseteq InstallParts
          /\ Done(i) \cup {Comp(i)} \subseteq S
          /\ \A x \in AddedTo(i) : /\ Requires[x.comp] \subseteq S /\ x.comp \notin Needed(x.comp)
                                   /\ \E t \in Texts : x.files = Whole("registry", t)
      BY <1>1, <2>1, DoneGrows
    <3>2. \A x \in AddedTo(i) : disk'[x.comp] = Left(x.files, x.comp, lost)
      BY <1>1, <2>1, RefillWrites
    <3>3. \A x \in AddedTo(i) : x.comp \in Components
      BY <3>1 DEF InstallParts
    <3> QED BY <3>1, <3>2, <3>3
  <2>6. Needed(Comp(i)) \subseteq S
    BY <2>2, <2>5, NeededWithin
  <2> QED BY <2>3, <2>4, <2>5, <2>6
<1>2. ComponentInv /\ SpentTypes /\ [ComponentNext]_componentVars
        => [\A i \in Installers : Reached(i)]_componentVars
  BY <1>1
<1> QED BY <1>2, ComponentInvariant, PTL DEF ComponentSpec, DependenciesInstalled
-----------------------------------------------------------------------------
(* AppStore                                                                *)

AppKinds == {"install", "save", "update", "scaffold", "remove", "use"}
AppSteps ==
  {"probe", "load", "emptyManifest", "writeManifest", "emptyMain", "writeStub", "remember",
   "copyText", "saveText", "forget", "unlink"}
AppCalls ==
  [kind : AppKinds, app : Apps, rights : Rights \cup {Gone}, text : Sources \cup {Gone}, todo : Seq(AppSteps),
   read : Rights \cup {Gone, Ragged, Unread}, missed : BOOLEAN, made : BOOLEAN, sound : BOOLEAN]
AppFiles == [Apps -> [manifest : Rights \cup {Gone, Ragged}, main : Sources \cup {Stub, Gone, Ragged}]]
AppCopies == [Apps -> Rights \cup {Gone, Ragged}]
AppVows ==
  [Apps -> {NoVow, Vow("removed", Gone, Gone)} \cup {Vow("app", r, s) : r \in Rights, s \in Sources \cup {Stub}}]

AppTypes ==
  /\ dir \subseteq Apps \cup Strays /\ apps \in AppFiles /\ copy \in AppCopies /\ vowed \in AppVows
  /\ client \in [Clients -> AppCalls \cup {NoCall}]

\* The step a call takes when n are left, the last included.
ScaffoldStep(n) ==
  IF n = 5 THEN "emptyManifest" ELSE IF n = 4 THEN "writeManifest" ELSE IF n = 3 THEN "emptyMain"
  ELSE IF n = 2 THEN "writeStub" ELSE "remember"
Planned(kind, made, n) ==
  IF kind = "use" THEN "load"
  ELSE IF kind = "remove" THEN (IF n = 2 THEN "forget" ELSE "unlink")
  ELSE IF kind = "scaffold" THEN ScaffoldStep(n)
  ELSE IF n = 1 THEN (IF kind = "install" THEN "copyText" ELSE "saveText")
  ELSE IF n = 2 THEN "emptyMain"
  ELSE IF n = 3 THEN "load"
  ELSE IF made THEN ScaffoldStep(n - 3) ELSE "probe"
MostSteps(kind, made) ==
  IF kind = "use" THEN 1 ELSE IF kind = "remove" THEN 2 ELSE IF kind = "scaffold" THEN 5
  ELSE IF kind = "update" THEN 3 ELSE IF made THEN 8 ELSE 4

\* What is left to do is the end of what a call of this kind does.
ByPlan(call) ==
  /\ Len(call.todo) \in 0 .. MostSteps(call.kind, call.made)
  /\ \A j \in 1 .. Len(call.todo) : call.todo[j] = Planned(call.kind, call.made, Len(call.todo) - j + 1)
  /\ call.made => call.kind \in {"install", "save"}
  /\ call.kind \in {"install", "save", "scaffold"} => call.rights \in Rights
  /\ call.kind \in {"install", "save", "update"} => call.text \in Sources

\* How far a call that nobody met, and whose writes all worked, has come with its app.
Progressed(call) ==
  LET n == Len(call.todo)  a == call.app IN
  /\ call.kind = "scaffold" => /\ n <= 4 => a \in dir
                               /\ n = 2 => apps[a].main # Gone
                               /\ n <= 1 => apps[a].main = Stub
                               /\ n = 0 => copy[a] = call.rights
  /\ call.kind = "remove" /\ n = 0 => a \notin dir
  /\ call.kind \in {"install", "save", "update"} =>
       /\ call.made => IF n > 3 THEN call.read = Unread ELSE copy[a] = call.rights
       /\ n <= 3 /\ call.read \notin {Unread, Gone} => call.read = InForce(a)
       /\ n <= 2 => call.read \in Rights /\ call.read = InForce(a)
       /\ n <= 1 => a \in dir
       /\ n = 1 => apps[a].main # Gone
       /\ n = 0 => apps[a].main = call.text

\* While somebody relies on an app, no call changes it: one that uses it can put into
\* NVS only what is in the file.
Harmless(call) ==
  LET a == call.app IN
  vowed[a].is # "nothing" =>
    /\ call.kind = "use"
    /\ vowed[a].is = "app" /\ call.missed => call.read = apps[a].manifest /\ copy[a] \in {Gone, call.read}

AppCallInv(c) ==
  Busy(c) => /\ ByPlan(client[c]) /\ Harmless(client[c])
             /\ client[c].sound => Progressed(client[c])

SoundMeetsNobody ==
  \A c, d \in Clients : c # d /\ Busy(c) /\ Busy(d) /\ App(c) = App(d) => ~client[c].sound

VowedDirs ==
  \A a \in Apps : /\ vowed[a].is = "app" => a \in dir
                  /\ vowed[a].is = "removed" => a \notin dir

AppInv ==
  AppTypes /\ SoundMeetsNobody /\ InstalledAppRuns /\ VowedDirs /\ \A c \in Clients : AppCallInv(c)
-----------------------------------------------------------------------------
LEMMA AppFields ==
  ASSUME AppInv, NEW c \in Clients, Busy(c)
  PROVE  /\ client[c] \in AppCalls /\ ByPlan(client[c]) /\ Harmless(client[c])
         /\ (client[c].sound => Progressed(client[c]))
         /\ App(c) \in Apps /\ App(c) = client[c].app
         /\ Len(client[c].todo) \in 1 .. MostSteps(client[c].kind, client[c].made)
         /\ client[c].todo \in Seq(AppSteps)
<1>1. client[c] \in AppCalls
  BY DEF AppInv, AppTypes, Busy, NoCall
<1>2. ByPlan(client[c]) /\ Harmless(client[c]) /\ (client[c].sound => Progressed(client[c]))
  BY DEF AppInv, AppCallInv
<1>3. App(c) \in Apps /\ App(c) = client[c].app /\ client[c].todo \in Seq(AppSteps)
  BY <1>1 DEF AppCalls, App
<1>4. client[c].todo # <<>>
  BY DEF Busy
<1>5. Len(client[c].todo) # 0
  BY <1>3, <1>4
<1>6. Len(client[c].todo) \in 0 .. MostSteps(client[c].kind, client[c].made)
  BY <1>2 DEF ByPlan
<1>7. MostSteps(client[c].kind, client[c].made) \in Nat
  BY DEF MostSteps
<1> QED BY <1>1, <1>2, <1>3, <1>5, <1>6, <1>7

\* A step of a call leaves the other calls what they rely on.
LEMMA AppStepKeeps ==
  ASSUME AppInv, NEW c \in Clients, Busy(c), NEW a \in Apps, a = App(c), NEW k \in AppCalls \cup {NoCall},
         client' = [client EXCEPT ![c] = k],
         k.todo # <<>> => /\ k.kind = client[c].kind /\ k.app = a /\ (k.sound => client[c].sound)
                          /\ ByPlan(k) /\ Harmless(k)' /\ (k.sound => Progressed(k)'),
         dir' \subseteq Apps \cup Strays, apps' \in AppFiles, copy' \in AppCopies, vowed' \in AppVows,
         \A b \in Apps : b # a => /\ apps'[b] = apps[b] /\ copy'[b] = copy[b] /\ (b \in dir' <=> b \in dir)
                                  /\ vowed'[b] = vowed[b],
         client[c].kind = "use" => /\ apps' = apps /\ dir' = dir /\ vowed' = vowed
                                   /\ copy' = copy \/ (client[c].missed /\ copy'[a] = client[c].read),
         \/ vowed'[a] = vowed[a]
         \/ /\ client[c].sound /\ k.todo = <<>>
            /\ vowed'[a].is = "app" => Vow("app", InForce(a)', apps'[a].main) = vowed'[a] /\ a \in dir'
            /\ vowed'[a].is = "removed" => a \notin dir'
  PROVE  AppInv'
<1>1. /\ client[c] \in AppCalls /\ Harmless(client[c]) /\ client[c].app = a
  BY AppFields
<1>2. /\ client'[c] = k /\ \A d \in Clients : d # c => client'[d] = client[d]
      /\ client' \in [Clients -> AppCalls \cup {NoCall}]
  BY DEF AppInv, AppTypes
<1>3. AppTypes'
  BY <1>2 DEF AppTypes
<1>4. ASSUME NEW d \in Clients, Busy(d)' PROVE Busy(d) /\ App(d)' = App(d) /\ (client'[d].sound => client[d].sound)
  BY <1>2, <1>4 DEF Busy, App
<1>5. SoundMeetsNobody'
  BY <1>4 DEF AppInv, SoundMeetsNobody
<1>6. InForce(a)' = InForce(a) \/ client[c].kind # "use" \/ vowed[a].is # "app"
  BY <1>1 DEF InForce, Harmless
<1>7. /\ vowed'[a].is = "app" => Vow("app", InForce(a)', apps'[a].main) = vowed'[a] /\ a \in dir'
      /\ vowed'[a].is = "removed" => a \notin dir'
  <2>1. CASE vowed'[a] = vowed[a]
    <3>1. CASE vowed[a].is = "nothing"
      BY <2>1, <3>1
    <3>2. CASE vowed[a].is # "nothing"
      <4>1. client[c].kind = "use"
        BY <1>1, <3>2 DEF Harmless
      <4>2. apps' = apps /\ dir' = dir
        BY <4>1
      <4>3. vowed[a].is = "app" => Vow("app", InForce(a), apps[a].main) = vowed[a] /\ a \in dir
        BY DEF AppInv, InstalledAppRuns, VowedDirs
      <4>4. vowed[a].is = "removed" => a \notin dir
        BY DEF AppInv, VowedDirs
      <4> QED BY <1>6, <2>1, <4>1, <4>2, <4>3, <4>4
    <3> QED BY <3>1, <3>2
  <2>2. CASE vowed'[a] # vowed[a]
    BY <2>2
  <2> QED BY <2>1, <2>2
<1>8. ASSUME NEW b \in Apps, b # a
      PROVE  /\ vowed'[b].is = "app" => Vow("app", InForce(b)', apps'[b].main) = vowed'[b] /\ b \in dir'
             /\ vowed'[b].is = "removed" => b \notin dir'
  <2>1. InForce(b)' = InForce(b)
    BY <1>8 DEF InForce
  <2> QED BY <1>8, <2>1 DEF AppInv, InstalledAppRuns, VowedDirs
<1>9. InstalledAppRuns' /\ VowedDirs'
  BY <1>7, <1>8 DEF InstalledAppRuns, VowedDirs
<1>10. AppCallInv(c)'
  BY <1>2 DEF AppCallInv, Busy
<1>11. ASSUME NEW d \in Clients, d # c PROVE AppCallInv(d)'
  <2> SUFFICES ASSUME Busy(d) PROVE AppCallInv(d)'
    BY <1>4, <1>11 DEF AppCallInv
  <2> PICK e : e = client[d]
    OBVIOUS
  <2>1. e \in AppCalls /\ ByPlan(e) /\ Harmless(e) /\ (e.sound => Progressed(e)) /\ App(d) = e.app /\ e.app \in Apps
    BY AppFields
  <2>2. client'[d] = e
    BY <1>2, <1>11
  <2>3. CASE e.app # a
    <3>1. InForce(e.app)' = InForce(e.app) /\ (e.app \in dir' <=> e.app \in dir)
      BY <2>1, <2>3 DEF InForce
    <3>2. Harmless(e)'
      BY <2>1, <2>3 DEF Harmless
    <3>3. e.sound => Progressed(e)'
      BY <2>1, <2>3, <3>1 DEF Progressed
    <3> QED BY <2>1, <2>2, <3>2, <3>3 DEF AppCallInv
  <2>4. CASE e.app = a
    <3>1. ~e.sound /\ ~client[c].sound
      BY <1>11, <2>1, <2>4 DEF AppInv, SoundMeetsNobody
    <3>2. vowed'[a] = vowed[a]
      BY <3>1
    <3>3. Harmless(e)'
      <4> SUFFICES ASSUME vowed[a].is # "nothing"
                   PROVE  /\ e.kind = "use"
                          /\ vowed[a].is = "app" /\ e.missed => e.read = apps'[a].manifest /\ copy'[a] \in {Gone, e.read}
        BY <2>4, <3>2 DEF Harmless
      <4>1. client[c].kind = "use" /\ e.kind = "use"
        BY <1>1, <2>1, <2>4 DEF Harmless
      <4>2. apps' = apps
        BY <4>1
      <4>3. ASSUME vowed[a].is = "app", e.missed PROVE e.read = apps[a].manifest /\ copy'[a] \in {Gone, e.read}
        <5>1. e.read = apps[a].manifest /\ copy[a] \in {Gone, e.read}
          BY <2>1, <2>4, <4>3 DEF Harmless
        <5>2. client[c].missed => client[c].read = apps[a].manifest
          BY <1>1, <4>3 DEF Harmless
        <5> QED BY <4>1, <5>1, <5>2
      <4> QED BY <4>1, <4>2, <4>3
    <3> QED BY <2>1, <2>2, <3>1, <3>3 DEF AppCallInv
  <2> QED BY <2>3, <2>4
<1> QED BY <1>3, <1>5, <1>9, <1>10, <1>11 DEF AppInv

\* A call goes on, or makes its promise.
LEMMA AppProceeds ==
  ASSUME AppInv, NEW c \in Clients, Busy(c), NEW a \in Apps, a = App(c), NEW call \in AppCalls, Proceed(c, call),
         call.kind = client[c].kind, call.app = a, call.sound => client[c].sound,
         ByPlan(call), call.sound => Progressed(call)', call.kind = "use" => call.todo = <<>>,
         dir' \subseteq Apps \cup Strays, apps' \in AppFiles, copy' \in AppCopies,
         \A b \in Apps : b # a => apps'[b] = apps[b] /\ copy'[b] = copy[b] /\ (b \in dir' <=> b \in dir),
         client[c].kind = "use" => /\ apps' = apps /\ dir' = dir
                                   /\ copy' = copy \/ (client[c].missed /\ copy'[a] = client[c].read)
  PROVE  AppInv'
<1>1. vowed \in AppVows /\ client \in [Clients -> AppCalls \cup {NoCall}]
  BY DEF AppInv, AppTypes
<1>2. CASE call.todo # <<>>
  <2>1. client' = [client EXCEPT ![c] = call] /\ vowed' = vowed
    BY <1>2 DEF Proceed
  <2>2. Harmless(call)'
    <3>1. vowed[a].is = "nothing"
      BY <1>2, AppFields DEF Harmless
    <3> QED BY <2>1, <3>1 DEF Harmless
  <2> QED BY <1>1, <2>1, <2>2, AppStepKeeps
<1>3. CASE call.todo = <<>>
  <2> PICK k : k = NoCall
    OBVIOUS
  <2>1. client' = [client EXCEPT ![c] = k] /\ k.todo = <<>> /\ k \in AppCalls \cup {NoCall}
    BY <1>3 DEF Proceed, NoCall
  <2>2. CASE ~call.sound \/ call.kind = "use"
    <3>1. vowed' = vowed
      BY <1>3, <2>2 DEF Proceed
    <3> QED BY <1>1, <2>1, <3>1, AppStepKeeps
  <2>3. CASE call.sound /\ call.kind # "use"
    <3>0. PICK v : v = CASE call.kind = "remove"   -> Vow("removed", Gone, Gone)
                         [] call.kind = "scaffold" -> Vow("app", call.rights, Stub)
                         [] OTHER -> Vow("app", IF call.made THEN call.rights ELSE call.read, call.text)
      OBVIOUS
    <3>1. vowed' = [vowed EXCEPT ![a] = v]
      BY <1>3, <2>3, <3>0 DEF Proceed
    <3>2. Len(call.todo) = 0
      BY <1>3
    <3>3. Progressed(call)' /\ ByPlan(call)
      BY <2>3
    <3>4. /\ v.is = "app" => Vow("app", InForce(a)', apps'[a].main) = v /\ a \in dir'
          /\ v.is = "removed" => a \notin dir'
          /\ v \in {Vow("removed", Gone, Gone)} \cup {Vow("app", r, s) : r \in Rights, s \in Sources \cup {Stub}}
      <4>1. CASE call.kind = "remove"
        BY <3>0, <3>2, <3>3, <4>1 DEF Progressed, Vow
      <4>2. CASE call.kind = "scaffold"
        <5>1. v = Vow("app", call.rights, Stub) /\ call.rights \in Rights
          BY <3>0, <3>3, <4>2 DEF ByPlan
        <5>2. copy'[a] = call.rights /\ apps'[a].main = Stub /\ a \in dir'
          BY <3>2, <3>3, <4>2 DEF Progressed
        <5>3. InForce(a)' = call.rights
          BY <5>1, <5>2, AppAssumption DEF InForce
        <5>4. v.is = "app"
          BY <5>1 DEF Vow
        <5> QED BY <5>1, <5>2, <5>3, <5>4
      <4>3. CASE call.kind \notin {"remove", "scaffold"}
        <5>1. call.kind \in {"install", "save", "update"} /\ call.text \in Sources
          BY <2>3, <3>3, <4>3 DEF ByPlan, AppCalls, AppKinds
        <5>2. /\ apps'[a].main = call.text /\ a \in dir' /\ call.read \in Rights /\ InForce(a)' = call.read
              /\ call.made => copy'[a] = call.rights
          BY <3>2, <3>3, <5>1 DEF Progressed
        <5>3. call.made => call.rights = call.read
          BY <3>3, <5>1, <5>2, AppAssumption DEF InForce, ByPlan
        <5>4. v = Vow("app", call.read, call.text)
          BY <3>0, <4>3, <5>3
        <5>5. v.is = "app"
          BY <5>4 DEF Vow
        <5> QED BY <5>1, <5>2, <5>4, <5>5
      <4> QED BY <4>1, <4>2, <4>3
    <3>5. vowed' \in AppVows /\ vowed'[a] = v /\ \A b \in Apps : b # a => vowed'[b] = vowed[b]
      BY <1>1, <3>1, <3>4 DEF AppVows
    <3>6. client[c].kind # "use" /\ client[c].sound
      BY <2>3
    <3>7. \A b \in Apps : b # a => /\ apps'[b] = apps[b] /\ copy'[b] = copy[b] /\ (b \in dir' <=> b \in dir)
                                  /\ vowed'[b] = vowed[b]
      BY <3>5
    <3>8. /\ vowed'[a].is = "app" => Vow("app", InForce(a)', apps'[a].main) = vowed'[a] /\ a \in dir'
          /\ vowed'[a].is = "removed" => a \notin dir'
      BY <3>4, <3>5
    <3> QED BY <2>1, <3>5, <3>6, <3>7, <3>8, AppStepKeeps
  <2> QED BY <2>2, <2>3
<1> QED BY <1>2, <1>3

LEMMA AppGivesUp ==
  ASSUME AppInv, NEW c \in Clients, Busy(c), NEW a \in Apps, a = App(c), GiveUp(c),
         dir' \subseteq Apps \cup Strays, apps' \in AppFiles, copy' \in AppCopies,
         \A b \in Apps : b # a => apps'[b] = apps[b] /\ copy'[b] = copy[b] /\ (b \in dir' <=> b \in dir),
         client[c].kind = "use" => /\ apps' = apps /\ dir' = dir
                                   /\ copy' = copy \/ (client[c].missed /\ copy'[a] = client[c].read)
  PROVE  AppInv'
<1> PICK k : k = NoCall
  OBVIOUS
<1>1. client' = [client EXCEPT ![c] = k] /\ k.todo = <<>> /\ k \in AppCalls \cup {NoCall} /\ vowed' = vowed
  BY DEF GiveUp, NoCall
<1>2. vowed' \in AppVows
  BY <1>1 DEF AppInv, AppTypes
<1> QED BY <1>1, <1>2, AppStepKeeps

\* The step a call is at tells what it is and how many steps are left.
LEMMA AppAt ==
  ASSUME AppInv, NEW c \in Clients, NEW step, AtStep(c, step)
  PROVE  /\ Busy(c) /\ Len(client[c].todo) \in 1 .. 8
         /\ step = Planned(client[c].kind, client[c].made, Len(client[c].todo))
         /\ client[c].kind \in AppKinds /\ client[c].made \in BOOLEAN
         /\ Len(client[c].todo) <= MostSteps(client[c].kind, client[c].made)
         /\ client[c].made => client[c].kind \in {"install", "save"}
<1> PICK n, kind, made : n = Len(client[c].todo) /\ kind = client[c].kind /\ made = client[c].made
  OBVIOUS
<1>1. Busy(c) /\ Head(client[c].todo) = step
  BY DEF AtStep
<1>2. /\ client[c] \in AppCalls /\ ByPlan(client[c]) /\ n \in 1 .. MostSteps(kind, made)
      /\ client[c].todo \in Seq(AppSteps)
  BY <1>1, AppFields
<1>3. MostSteps(kind, made) \in 1 .. 8
  BY DEF MostSteps
<1>4. client[c].todo[1] = Planned(kind, made, n)
  BY <1>2, <1>3 DEF ByPlan
<1>5. Head(client[c].todo) = client[c].todo[1]
  BY <1>2, <1>3
<1>6. kind \in AppKinds /\ made \in BOOLEAN
  BY <1>2 DEF AppCalls
<1>7. made => kind \in {"install", "save"}
  BY <1>2 DEF ByPlan
<1>8. n \in 1 .. 8 /\ n <= MostSteps(kind, made)
  <2>1. PICK m \in 1 .. 8 : m = MostSteps(kind, made)
    BY <1>3
  <2>2. n \in 1 .. m
    BY <1>2, <2>1, Zenon
  <2>3. \A x : x \in 1 .. m => x \in 1 .. 8 /\ x <= m
    OBVIOUS
  <2> QED BY <2>1, <2>2, <2>3, Zenon
<1>9. step = Planned(kind, made, n)
  BY <1>1, <1>4, <1>5
<1> QED BY <1>1, <1>6, <1>7, <1>8, <1>9

LEMMA TailOf ==
  ASSUME NEW s \in Seq(AppSteps), Len(s) \in Nat \ {0}
  PROVE  Tail(s) \in Seq(AppSteps) /\ Len(Tail(s)) = Len(s) - 1 /\ \A j \in 1 .. Len(s) - 1 : Tail(s)[j] = s[j + 1]
OBVIOUS

\* One step less to do.
LEMMA AppAfter ==
  ASSUME AppInv, NEW c \in Clients, Busy(c), NEW next, next = After(c)
  PROVE  /\ next \in AppCalls /\ ByPlan(next) /\ Len(next.todo) = Len(client[c].todo) - 1
         /\ next.kind = client[c].kind /\ next.app = App(c) /\ next.rights = client[c].rights
         /\ next.text = client[c].text /\ next.read = client[c].read /\ next.missed = client[c].missed
         /\ next.made = client[c].made /\ next.sound = client[c].sound
         /\ next.todo = Tail(client[c].todo)
<1> PICK call, n, t : call = client[c] /\ n = Len(call.todo) /\ t = Tail(call.todo)
  OBVIOUS
<1>1. /\ call \in AppCalls /\ ByPlan(call) /\ n \in 1 .. MostSteps(call.kind, call.made) /\ App(c) = call.app
      /\ call.todo \in Seq(AppSteps)
  BY AppFields
<1>2. MostSteps(call.kind, call.made) \in Nat
  BY DEF MostSteps
<1>3. t \in Seq(AppSteps) /\ Len(t) = n - 1 /\ \A j \in 1 .. n - 1 : t[j] = call.todo[j + 1]
  <2> PICK s \in Seq(AppSteps) : s = call.todo
    BY <1>1
  <2>1. PICK m \in Nat : m = MostSteps(call.kind, call.made)
    BY <1>2
  <2>2. n \in 1 .. m
    BY <1>1, <2>1, Zenon
  <2>3. \A x : x \in 1 .. m => x \in Nat \ {0}
    OBVIOUS
  <2>4. Len(s) \in Nat \ {0} /\ t = Tail(s) /\ n = Len(s)
    BY <2>2, <2>3, Zenon
  <2>5. Tail(s) \in Seq(AppSteps) /\ Len(Tail(s)) = Len(s) - 1 /\ \A j \in 1 .. Len(s) - 1 : Tail(s)[j] = s[j + 1]
    BY <2>4, TailOf
  <2> QED BY <2>4, <2>5, Zenon
<1>4. /\ next \in AppCalls /\ next.todo = t
      /\ next.kind = call.kind /\ next.app = call.app /\ next.rights = call.rights
      /\ next.text = call.text /\ next.read = call.read /\ next.missed = call.missed
      /\ next.made = call.made /\ next.sound = call.sound
  <2>1. next = [call EXCEPT !.todo = t]
    BY DEF After
  <2> QED BY <1>1, <1>3, <2>1 DEF AppCalls
<1>5. \A j \in 1 .. n - 1 : t[j] = Planned(call.kind, call.made, (n - 1) - j + 1)
  <2> SUFFICES ASSUME NEW j \in 1 .. n - 1 PROVE t[j] = Planned(call.kind, call.made, (n - 1) - j + 1)
    OBVIOUS
  <2>1. j + 1 \in 1 .. n /\ n - (j + 1) + 1 = (n - 1) - j + 1
    BY <1>1, <1>2
  <2>2. call.todo[j + 1] = Planned(call.kind, call.made, n - (j + 1) + 1)
    BY <1>1, <2>1 DEF ByPlan
  <2> QED BY <1>3, <2>1, <2>2
<1>6. ByPlan(next)
  <2>1. Len(next.todo) \in 0 .. MostSteps(next.kind, next.made)
    BY <1>1, <1>2, <1>3, <1>4
  <2> QED BY <1>1, <1>3, <1>4, <1>5, <2>1 DEF ByPlan
<1> QED BY <1>1, <1>3, <1>4, <1>6

\* What it means for a call to be at a step: its kind, whether it made the app, and how
\* many steps are left.
StepsLeft(step, kind, made, n) ==
  /\ step = "probe" => n = 4 /\ ~made /\ kind \in {"install", "save"}
  /\ step = "load" => (kind = "use" /\ n = 1) \/ (kind \in {"install", "save", "update"} /\ n = 3)
  /\ step = "emptyManifest" => (kind = "scaffold" /\ n = 5) \/ (made /\ n = 8)
  /\ step = "writeManifest" => (kind = "scaffold" /\ n = 4) \/ (made /\ n = 7)
  /\ step = "emptyMain" => (kind = "scaffold" /\ n = 3) \/ (made /\ n = 6)
                          \/ (kind \in {"install", "save", "update"} /\ n = 2)
  /\ step = "writeStub" => (kind = "scaffold" /\ n = 2) \/ (made /\ n = 5)
  /\ step = "remember" => (kind = "scaffold" /\ n = 1) \/ (made /\ n = 4)
  /\ step = "copyText" => kind = "install" /\ n = 1
  /\ step = "saveText" => kind \in {"save", "update"} /\ n = 1
  /\ step = "forget" => kind = "remove" /\ n = 2
  /\ step = "unlink" => kind = "remove" /\ n = 1
  /\ made => kind \in {"install", "save"}

LEMMA PlannedSteps ==
  ASSUME NEW kind \in AppKinds, NEW made \in BOOLEAN, made => kind \in {"install", "save"},
         NEW n \in 1 .. 8, n <= MostSteps(kind, made)
  PROVE  StepsLeft(Planned(kind, made, n), kind, made, n)
<1>1. CASE kind = "use"
  BY <1>1 DEF Planned, MostSteps, StepsLeft
<1>2. CASE kind = "remove"
  BY <1>2 DEF Planned, MostSteps, StepsLeft
<1>3. CASE kind = "scaffold"
  BY <1>3 DEF Planned, MostSteps, ScaffoldStep, StepsLeft
<1>4. CASE kind = "update"
  BY <1>4 DEF Planned, MostSteps, StepsLeft
<1>5. CASE kind \in {"install", "save"}
  BY <1>5 DEF Planned, MostSteps, ScaffoldStep, StepsLeft
<1> QED BY <1>1, <1>2, <1>3, <1>4, <1>5 DEF AppKinds

LEMMA AppStepsLeft ==
  ASSUME AppInv, NEW c \in Clients, NEW step, AtStep(c, step)
  PROVE  \E kind \in AppKinds, made \in BOOLEAN, n \in 1 .. 8 :
           /\ kind = client[c].kind /\ made = client[c].made /\ n = Len(client[c].todo)
           /\ StepsLeft(step, kind, made, n)
<1>1. PICK kind \in AppKinds, made \in BOOLEAN, n \in 1 .. 8 :
        /\ kind = client[c].kind /\ made = client[c].made /\ n = Len(client[c].todo)
        /\ step = Planned(kind, made, n) /\ n <= MostSteps(kind, made)
        /\ made => kind \in {"install", "save"}
  BY AppAt
<1>2. n <= MostSteps(kind, made) /\ (made => kind \in {"install", "save"})
  BY <1>1, Zenon
<1>3. StepsLeft(Planned(kind, made, n), kind, made, n)
  BY <1>2, PlannedSteps
<1> QED BY <1>1, <1>3, Zenon

\* Loading: what is read is in force, or it is nothing.
LEMMA LoadKeeps ==
  ASSUME AppInv, NEW c \in Clients, Load(c)
  PROVE  AppInv'
<1>1. /\ AtStep(c, "probe") \/ AtStep(c, "load")
      /\ UNCHANGED <<dir, apps, copy, vowed>>
  BY DEF Load
<1>2. Busy(c)
  BY <1>1 DEF AtStep
<1> PICK a \in Apps : a = App(c)
  BY <1>2, AppFields
<1>3. /\ client[c] \in AppCalls /\ ByPlan(client[c]) /\ Harmless(client[c])
      /\ (client[c].sound => Progressed(client[c])) /\ client[c].app = a
  BY <1>2, AppFields
<1>4. /\ dir \subseteq Apps \cup Strays /\ apps \in AppFiles /\ copy \in AppCopies /\ vowed \in AppVows
      /\ client \in [Clients -> AppCalls \cup {NoCall}]
  BY DEF AppInv, AppTypes
<1>5. PICK x \in Rights \cup {Gone, Ragged}, m \in BOOLEAN :
        /\ client' = [client EXCEPT ![c].read = x, ![c].missed = m]
        /\ x = Gone \/ x = InForce(a)
        /\ m => copy[a] = Gone /\ x = apps[a].manifest
  <2>1. copy[a] \in Rights \cup {Gone, Ragged} /\ apps[a].manifest \in Rights \cup {Gone, Ragged}
    BY <1>4 DEF AppCopies, AppFiles
  <2> PICK m \in BOOLEAN : m <=> copy[a] = Gone /\ apps[a].manifest # Gone
    OBVIOUS
  <2>2. CASE client' = [client EXCEPT ![c].read = IF copy[a] # Gone THEN copy[a] ELSE apps[a].manifest,
                                      ![c].missed = ~(copy[a] # Gone) /\ apps[a].manifest # Gone]
    <3>1. m = (~(copy[a] # Gone) /\ apps[a].manifest # Gone)
      OBVIOUS
    <3>2. InForce(a) = IF copy[a] # Gone THEN copy[a] ELSE apps[a].manifest
      BY DEF InForce
    <3>3. client' = [client EXCEPT ![c].read = InForce(a), ![c].missed = m]
      BY <2>2, <3>1, <3>2
    <3> QED BY <2>1, <3>2, <3>3
  <2>3. CASE client' = [client EXCEPT ![c].read = Gone, ![c].missed = FALSE]
    BY <2>3
  <2> QED BY <2>2, <2>3 DEF Load
<1>6. PICK k : k = [client[c] EXCEPT !.read = x, !.missed = m]
  OBVIOUS
<1>7. /\ k \in AppCalls /\ k.read = x /\ k.missed = m /\ k.kind = client[c].kind /\ k.app = a
      /\ k.rights = client[c].rights /\ k.text = client[c].text /\ k.todo = client[c].todo
      /\ k.made = client[c].made /\ k.sound = client[c].sound
  BY <1>3, <1>6 DEF AppCalls
<1>8. client' = [client EXCEPT ![c] = k]
  BY <1>4, <1>5, <1>6
<1>9. ByPlan(k)
  BY <1>3, <1>7 DEF ByPlan
<1>10. Harmless(k)'
  BY <1>1, <1>3, <1>5, <1>7 DEF Harmless
<1>11. k.sound => Progressed(k)'
  <2>1. PICK step \in {"probe", "load"} : AtStep(c, step)
    BY <1>1
  <2>2. PICK kind \in AppKinds, made \in BOOLEAN, n \in 1 .. 8 :
          /\ kind = client[c].kind /\ made = client[c].made /\ n = Len(client[c].todo)
          /\ StepsLeft(step, kind, made, n)
    BY <2>1, AppStepsLeft
  <2>6. /\ n \in 3 .. 8 \/ kind = "use"
        /\ kind \notin {"scaffold", "remove"}
        /\ made => ~(n > 3) /\ kind \in {"install", "save"}
    <3>1. StepsLeft(step, kind, made, n)
      BY <2>2
    <3> QED BY <3>1 DEF StepsLeft
  <2>3. InForce(a)' = InForce(a)
    BY <1>1 DEF InForce
  <2>4. client[c].sound => (made => copy[a] = client[c].rights)
    BY <1>3, <2>2, <2>6 DEF Progressed
  <2>5. Len(k.todo) = n /\ k.made = made /\ k.kind = kind
    BY <1>7, <2>2
  <2> QED BY <1>1, <1>5, <1>7, <2>3, <2>4, <2>5, <2>6 DEF Progressed
<1> QED BY <1>1, <1>2, <1>4, <1>7, <1>8, <1>9, <1>10, <1>11, AppStepKeeps

LEMMA FiveInSeq ==
  ASSUME NEW S, NEW a \in S, NEW b \in S, NEW c \in S, NEW d \in S, NEW e \in S
  PROVE  <<a, b, c, d, e>> \in Seq(S)
<1> PICK t : t = <<a, b, c, d, e>>
  OBVIOUS
<1>1. t \in [1 .. 5 -> S]
  <2>1. \A i \in 1 .. 5 : i = 1 \/ i = 2 \/ i = 3 \/ i = 4 \/ i = 5
    OBVIOUS
  <2> QED BY <2>1
<1> QED BY <1>1

LEMMA JoinedTo ==
  ASSUME NEW s \in Seq(AppSteps), NEW t \in Seq(AppSteps), Len(s) = 5, Len(t) = 3
  PROVE  /\ s \o t \in Seq(AppSteps) /\ Len(s \o t) = 8
         /\ \A j \in 1 .. 5 : (s \o t)[j] = s[j]
         /\ \A j \in 6 .. 8 : (s \o t)[j] = t[j - 5]
<1> PICK r : r = s \o t
  OBVIOUS
<1>1. /\ r \in Seq(AppSteps) /\ Len(r) = 8
      /\ \A i \in 1 .. 8 : r[i] = IF i <= 5 THEN s[i] ELSE t[i - 5]
  <2>1. /\ r \in Seq(AppSteps) /\ Len(r) = Len(s) + Len(t)
        /\ \A i \in 1 .. Len(s) + Len(t) : r[i] = IF i <= Len(s) THEN s[i] ELSE t[i - Len(s)]
    BY ConcatProperties
  <2> QED BY <2>1
<1> QED BY <1>1

\* A scaffold comes before what is left.
LEMMA ScaffoldFirst ==
  ASSUME NEW t \in Seq(AppSteps), Len(t) = 3, NEW kind \in {"install", "save"},
         \A j \in 1 .. 3 : t[j] = Planned(kind, FALSE, 3 - j + 1)
  PROVE  /\ Scaffold \o t \in Seq(AppSteps) /\ Len(Scaffold \o t) = 8
         /\ \A j \in 1 .. 8 : (Scaffold \o t)[j] = Planned(kind, TRUE, 8 - j + 1)
<1>0. PICK s : s = Scaffold
  OBVIOUS
<1>1. /\ s \in Seq(AppSteps) /\ Len(s) = 5
      /\ s[1] = "emptyManifest" /\ s[2] = "writeManifest" /\ s[3] = "emptyMain"
      /\ s[4] = "writeStub" /\ s[5] = "remember"
  <2>1. Scaffold \in Seq(AppSteps)
    <3>1. PICK a, b, c, d, e \in AppSteps :
            a = "emptyManifest" /\ b = "writeManifest" /\ c = "emptyMain" /\ d = "writeStub" /\ e = "remember"
      BY DEF AppSteps
    <3>2. <<a, b, c, d, e>> \in Seq(AppSteps)
      BY FiveInSeq
    <3> QED BY <3>1, <3>2 DEF Scaffold
  <2>2. Len(Scaffold) = 5
    BY DEF Scaffold
  <2>3. Scaffold[1] = "emptyManifest" /\ Scaffold[2] = "writeManifest" /\ Scaffold[3] = "emptyMain"
        /\ Scaffold[4] = "writeStub" /\ Scaffold[5] = "remember"
    BY DEF Scaffold
  <2> QED BY <1>0, <2>1, <2>2, <2>3
<1>2. s \o t \in Seq(AppSteps) /\ Len(s \o t) = 8
  BY <1>1, JoinedTo
<1>3. \A j \in 1 .. 5 : (s \o t)[j] = s[j]
  BY <1>1, JoinedTo
<1>4. \A j \in 6 .. 8 : (s \o t)[j] = t[j - 5]
  BY <1>1, JoinedTo
<1>5. \A j \in 1 .. 5 : s[j] = Planned(kind, TRUE, 8 - j + 1)
  BY <1>1 DEF Planned, ScaffoldStep
<1>6. \A j \in 6 .. 8 : t[j - 5] = Planned(kind, TRUE, 8 - j + 1)
  <2> SUFFICES ASSUME NEW j \in 6 .. 8 PROVE t[j - 5] = Planned(kind, TRUE, 8 - j + 1)
    OBVIOUS
  <2>1. j - 5 \in 1 .. 3 /\ 3 - (j - 5) + 1 = 8 - j + 1 /\ 8 - j + 1 \in 1 .. 3
    OBVIOUS
  <2>2. t[j - 5] = Planned(kind, FALSE, 8 - j + 1)
    <3>1. t[j - 5] = Planned(kind, FALSE, 3 - (j - 5) + 1)
      BY <2>1
    <3> QED BY <2>1, <3>1
  <2>3. \A i \in 1 .. 3 : Planned(kind, FALSE, i) = Planned(kind, TRUE, i)
    BY DEF Planned
  <2> QED BY <2>1, <2>2, <2>3
<1>7. \A j \in 1 .. 8 : (s \o t)[j] = Planned(kind, TRUE, 8 - j + 1)
  <2> SUFFICES ASSUME NEW j \in 1 .. 8 PROVE (s \o t)[j] = Planned(kind, TRUE, 8 - j + 1)
    OBVIOUS
  <2>1. CASE j \in 1 .. 5
    BY <1>3, <1>5, <2>1
  <2>2. CASE j \in 6 .. 8
    BY <1>4, <1>6, <2>2
  <2>3. j \in 1 .. 5 \/ j \in 6 .. 8
    OBVIOUS
  <2> QED BY <2>1, <2>2, <2>3, Zenon
<1>8. s \o t \in Seq(AppSteps) /\ Len(s \o t) = 8 /\ \A j \in 1 .. 8 : (s \o t)[j] = Planned(kind, TRUE, 8 - j + 1)
  BY <1>2, <1>7, Zenon
<1> QED BY <1>0, <1>8, Zenon

\* What is put into NVS is what was in force.
LEMMA JudgeKeeps ==
  ASSUME AppInv, NEW c \in Clients, Judge(c)
  PROVE  AppInv'
<1>1. /\ AtStep(c, "probe") \/ AtStep(c, "load")
      /\ client[c].read # Unread /\ UNCHANGED <<dir, apps>>
  BY DEF Judge
<1>2. Busy(c)
  BY <1>1 DEF AtStep
<1> PICK a \in Apps : a = App(c)
  BY <1>2, AppFields
<1>3. PICK call : call = client[c]
  OBVIOUS
<1>4. /\ call \in AppCalls /\ ByPlan(call) /\ (call.sound => Progressed(call)) /\ call.app = a
      /\ call.todo \in Seq(AppSteps) /\ call.read # Unread
  BY <1>1, <1>2, <1>3, AppFields
<1>5. dir \subseteq Apps \cup Strays /\ apps \in AppFiles /\ copy \in AppCopies
  BY DEF AppInv, AppTypes
<1>6. call.read \in Rights \cup {Gone, Ragged}
  BY <1>4 DEF AppCalls
<1>7. copy' = copy \/ (call.missed /\ copy' = [copy EXCEPT ![a] = call.read])
  BY <1>3 DEF Judge
<1>8. /\ copy' \in AppCopies /\ \A b \in Apps : b # a => copy'[b] = copy[b]
      /\ copy'[a] = copy[a] \/ copy'[a] = call.read
      /\ copy' = copy \/ (client[c].missed /\ copy'[a] = client[c].read)
  BY <1>3, <1>5, <1>6, <1>7 DEF AppCopies
<1>9. PICK next : next = After(c)
  OBVIOUS
<1>10. /\ next \in AppCalls /\ ByPlan(next) /\ Len(next.todo) = Len(call.todo) - 1
       /\ next.kind = call.kind /\ next.app = a /\ next.rights = call.rights
       /\ next.text = call.text /\ next.read = call.read /\ next.missed = call.missed
       /\ next.made = call.made /\ next.sound = call.sound /\ next.todo = Tail(call.todo)
  BY <1>2, <1>3, <1>9, AppAfter
<1>11. dir' \subseteq Apps \cup Strays /\ apps' \in AppFiles
       /\ \A b \in Apps : b # a => apps'[b] = apps[b] /\ copy'[b] = copy[b] /\ (b \in dir' <=> b \in dir)
  BY <1>1, <1>5, <1>8
<1>12. CASE AtStep(c, "probe")
  <2>1. PICK kind \in AppKinds, made \in BOOLEAN, n \in 1 .. 8 :
          /\ kind = client[c].kind /\ made = client[c].made /\ n = Len(client[c].todo)
          /\ StepsLeft("probe", kind, made, n)
    BY <1>12, AppStepsLeft
  <2>2. n = 4 /\ ~made /\ kind \in {"install", "save"}
    <3>1. StepsLeft("probe", kind, made, n)
      BY <2>1
    <3> QED BY <3>1 DEF StepsLeft
  <2>3. PICK ok : ok = [next EXCEPT !.read = Unread]
    OBVIOUS
  <2>4. PICK new : new = [ok EXCEPT !.todo = Scaffold \o @, !.made = TRUE]
    OBVIOUS
  <2>5. Proceed(c, ok) \/ Proceed(c, new)
    BY <1>9, <1>12, <2>3, <2>4 DEF Judge
  <2>6. /\ ok \in AppCalls /\ ok.read = Unread /\ ok.todo = next.todo /\ ok.kind = kind /\ ok.app = a
        /\ ok.made = made /\ ok.sound = call.sound /\ ok.rights = call.rights /\ ok.text = call.text
    BY <1>3, <1>10, <2>1, <2>3 DEF AppCalls
  <2>7. Len(ok.todo) = 3 /\ ok.todo \in Seq(AppSteps) /\ kind # "use"
        /\ \A j \in 1 .. 3 : ok.todo[j] = Planned(kind, FALSE, 3 - j + 1)
    <3>1. Len(next.todo) = 3
      BY <1>3, <1>10, <2>1, <2>2
    <3>2. made = FALSE
      BY <2>2
    <3>3. \A j \in 1 .. 3 : next.todo[j] = Planned(kind, made, 3 - j + 1)
      BY <1>3, <1>10, <2>1, <3>1 DEF ByPlan
    <3>4. next.todo \in Seq(AppSteps)
      BY <1>10 DEF AppCalls
    <3> QED BY <2>2, <2>6, <3>1, <3>2, <3>3, <3>4
  <2>8. ASSUME Proceed(c, ok) PROVE AppInv'
    <3>1. ByPlan(ok)
      BY <1>10, <2>6, <1>3, <2>1 DEF ByPlan
    <3>2. Progressed(ok)'
      BY <2>2, <2>6, <2>7 DEF Progressed
    <3> QED BY <1>2, <1>3, <1>8, <1>11, <2>1, <2>6, <2>7, <2>8, <3>1, <3>2, AppProceeds
  <2>9. ASSUME Proceed(c, new) PROVE AppInv'
    <3>1. PICK t : t = Scaffold \o ok.todo
      OBVIOUS
    <3>2. t \in Seq(AppSteps) /\ Len(t) = 8 /\ \A j \in 1 .. 8 : t[j] = Planned(kind, TRUE, 8 - j + 1)
      BY <2>2, <2>7, <3>1, ScaffoldFirst
    <3>3. new = [ok EXCEPT !.todo = t, !.made = TRUE]
      BY <2>4, <3>1
    <3>4. /\ new \in AppCalls /\ new.todo = t /\ new.made = TRUE /\ new.read = Unread /\ new.kind = kind
          /\ new.app = a /\ new.sound = call.sound /\ new.rights = call.rights /\ new.text = call.text
      BY <2>6, <3>2, <3>3 DEF AppCalls
    <3>5. ByPlan(new)
      <4>1. MostSteps(kind, TRUE) = 8
        BY <2>2 DEF MostSteps
      <4>2. call.rights \in Rights /\ call.text \in Sources
        BY <1>3, <1>4, <2>1, <2>2 DEF ByPlan
      <4>3. /\ Len(new.todo) = 8 /\ MostSteps(new.kind, new.made) = 8 /\ new.kind \in {"install", "save"}
            /\ \A j \in 1 .. 8 : new.todo[j] = Planned(new.kind, new.made, 8 - j + 1)
        BY <2>2, <3>2, <3>4, <4>1, Zenon
      <4>4. new.rights \in Rights /\ new.text \in Sources
        BY <3>4, <4>2
      <4> QED BY <4>3, <4>4 DEF ByPlan
    <3>6. Progressed(new)'
      <4>1. Len(new.todo) = 8 /\ new.read = Unread /\ new.kind \in {"install", "save"}
        BY <2>2, <3>2, <3>4, Zenon
      <4> QED BY <4>1 DEF Progressed
    <3> QED BY <1>2, <1>3, <1>8, <1>11, <2>1, <2>7, <2>9, <3>4, <3>5, <3>6, AppProceeds
  <2> QED BY <2>5, <2>8, <2>9
<1>13. CASE ~AtStep(c, "probe")
  <2>1. AtStep(c, "load")
    BY <1>1, <1>13
  <2>2. PICK kind \in AppKinds, made \in BOOLEAN, n \in 1 .. 8 :
          /\ kind = client[c].kind /\ made = client[c].made /\ n = Len(client[c].todo)
          /\ StepsLeft("load", kind, made, n)
    BY <2>1, AppStepsLeft
  <2>3. (kind = "use" /\ n = 1) \/ (kind \in {"install", "save", "update"} /\ n = 3)
    <3>1. StepsLeft("load", kind, made, n)
      BY <2>2
    <3> QED BY <3>1 DEF StepsLeft
  <2>4. next = [After(c) EXCEPT !.read = @]
    <3>1. next = [next EXCEPT !.read = next.read]
      BY <1>10 DEF AppCalls
    <3> QED BY <1>9, <3>1
  <2>5. CASE call.read \in Rights
    <3>1. Proceed(c, next)
      BY <1>3, <1>13, <2>4, <2>5 DEF Judge
    <3>2. call.read # Gone /\ call.read # Ragged
      BY <2>5, AppAssumption
    <3>3. next.sound => Progressed(next)'
      <4>1. CASE kind = "use"
        BY <1>3, <1>10, <2>2, <4>1 DEF Progressed
      <4>2. CASE kind # "use"
        <5>1. kind \in {"install", "save", "update"} /\ n = 3 /\ Len(next.todo) = 2
          BY <1>3, <1>10, <2>2, <2>3, <4>2
        <5>2. call.sound => call.read = InForce(a) /\ (made => copy[a] = call.rights)
          BY <1>3, <1>4, <2>2, <3>2, <5>1 DEF Progressed
        <5>3. call.sound => InForce(a)' = call.read /\ (made => copy'[a] = call.rights)
          <6>1. made => call.rights # Gone
            BY <1>3, <1>4, <2>2, <5>1, AppAssumption DEF ByPlan
          <6> QED BY <1>1, <1>8, <3>2, <5>2, <6>1 DEF InForce
        <5>4. next.kind = kind /\ next.made = made
          BY <1>3, <1>10, <2>2
        <5> SUFFICES ASSUME next.sound PROVE Progressed(next)'
          OBVIOUS
        <5>5. InForce(a)' = next.read /\ next.read \in Rights /\ next.app = a
          BY <1>10, <2>5, <5>3, Zenon
        <5>6. next.made => copy'[a] = next.rights
          BY <1>10, <5>3, <5>4, Zenon
        <5>7. Len(next.todo) = 2 /\ next.kind \in {"install", "save", "update"}
          BY <5>1, <5>4, Zenon
        <5> QED BY <5>5, <5>6, <5>7 DEF Progressed
      <4> QED BY <4>1, <4>2
    <3>4. next.kind = "use" => next.todo = <<>>
      <4>1. next.todo \in Seq(AppSteps)
        BY <1>10 DEF AppCalls
      <4>2. next.kind = "use" => Len(next.todo) = 0
        BY <1>3, <1>10, <2>2, <2>3
      <4> QED BY <4>1, <4>2
    <3> QED BY <1>1, <1>2, <1>3, <1>8, <1>10, <1>11, <3>1, <3>3, <3>4, AppProceeds
  <2>6. CASE call.read \notin Rights
    <3>1. GiveUp(c)
      BY <1>3, <1>13, <2>6 DEF Judge
    <3> QED BY <1>1, <1>2, <1>8, <1>11, <3>1, AppGivesUp
  <2> QED BY <2>5, <2>6
<1> QED BY <1>12, <1>13

\* One of the two files of an app changes.
LeafBecomes(a, f, v) == apps' = [apps EXCEPT ![a][f] = v]

LEMMA AppLeaf ==
  ASSUME AppInv, NEW a \in Apps, NEW f \in {"manifest", "main"}, NEW v, LeafBecomes(a, f, v),
         f = "manifest" => v \in Rights \cup {Gone, Ragged}, f = "main" => v \in Sources \cup {Stub, Gone, Ragged}
  PROVE  /\ apps' \in AppFiles /\ \A b \in Apps : b # a => apps'[b] = apps[b]
         /\ apps'[a].manifest = IF f = "manifest" THEN v ELSE apps[a].manifest
         /\ apps'[a].main = IF f = "main" THEN v ELSE apps[a].main
<1>1. apps \in AppFiles /\ apps[a] \in [manifest : Rights \cup {Gone, Ragged}, main : Sources \cup {Stub, Gone, Ragged}]
  BY DEF AppInv, AppTypes, AppFiles
<1>2. PICK r : r = [apps[a] EXCEPT ![f] = v]
  OBVIOUS
<1>3. /\ r \in [manifest : Rights \cup {Gone, Ragged}, main : Sources \cup {Stub, Gone, Ragged}]
      /\ r.manifest = IF f = "manifest" THEN v ELSE apps[a].manifest
      /\ r.main = IF f = "main" THEN v ELSE apps[a].main
  <2>1. CASE f = "manifest"
    BY <1>1, <1>2, <2>1
  <2>2. CASE f = "main"
    BY <1>1, <1>2, <2>2
  <2> QED BY <2>1, <2>2
<1>4. apps'[a] = r /\ apps' \in AppFiles /\ \A b \in Apps : b # a => apps'[b] = apps[b]
  BY <1>1, <1>2, <1>3 DEF LeafBecomes, AppFiles
<1> QED BY <1>3, <1>4

\* How far a scaffold has come.
LEMMA ScaffoldComes ==
  ASSUME NEW k, NEW n \in 0 .. 8, k.kind = "scaffold", Len(k.todo) = n,
         n <= 4 => k.app \in dir', n = 2 => apps'[k.app].main # Gone, n <= 1 => apps'[k.app].main = Stub,
         n = 0 => copy'[k.app] = k.rights
  PROVE  Progressed(k)'
BY DEF Progressed

\* How far a call has come that is still making its app.
LEMMA MakingComes ==
  ASSUME NEW k, NEW n \in 4 .. 8, k.kind \in {"install", "save"}, Len(k.todo) = n, k.read = Unread
  PROVE  Progressed(k)'
BY DEF Progressed

\* A call at a step, and what is left of it after that.
LEMMA AppNextStep ==
  ASSUME AppInv, NEW c \in Clients, NEW step, AtStep(c, step)
  PROVE  \E kind \in AppKinds, made \in BOOLEAN, n \in 1 .. 8, a \in Apps, call \in AppCalls, next \in AppCalls :
           /\ StepsLeft(step, kind, made, n) /\ call = client[c] /\ next = After(c) /\ a = App(c)
           /\ call.kind = kind /\ call.made = made /\ Len(call.todo) = n /\ call.app = a
           /\ next.kind = kind /\ next.made = made /\ Len(next.todo) = n - 1 /\ next.app = a
           /\ next.rights = call.rights /\ next.text = call.text /\ next.read = call.read
           /\ next.sound = call.sound /\ next.todo \in Seq(AppSteps)
           /\ ByPlan(call) /\ ByPlan(next) /\ (call.sound => Progressed(call))
<1>1. Busy(c)
  BY DEF AtStep
<1>2. PICK kind \in AppKinds, made \in BOOLEAN, n \in 1 .. 8 :
        /\ kind = client[c].kind /\ made = client[c].made /\ n = Len(client[c].todo)
        /\ StepsLeft(step, kind, made, n)
  BY AppStepsLeft
<1>3. /\ client[c] \in AppCalls /\ ByPlan(client[c]) /\ (client[c].sound => Progressed(client[c]))
      /\ App(c) \in Apps /\ App(c) = client[c].app
  BY <1>1, AppFields
<1>4. PICK next : next = After(c)
  OBVIOUS
<1>5. /\ next \in AppCalls /\ ByPlan(next) /\ Len(next.todo) = Len(client[c].todo) - 1
      /\ next.kind = client[c].kind /\ next.app = App(c) /\ next.rights = client[c].rights
      /\ next.text = client[c].text /\ next.read = client[c].read
      /\ next.made = client[c].made /\ next.sound = client[c].sound
  BY <1>1, <1>4, AppAfter
<1>6. next.todo \in Seq(AppSteps)
  BY <1>5 DEF AppCalls
<1>7. Len(next.todo) = n - 1 /\ next.kind = kind /\ next.made = made
  BY <1>2, <1>5, Zenon
<1> QED BY <1>2, <1>3, <1>4, <1>5, <1>6, <1>7, Zenon

\* An access fails: the call gives up, or goes on and is not relied on.
LEMMA AppFails ==
  ASSUME AppInv, NEW c \in Clients, Busy(c), client[c].kind # "use", UNCHANGED <<dir, apps, copy>>,
         GiveUp(c) \/ Proceed(c, Unsound(After(c)))
  PROVE  AppInv'
<1>1. dir \subseteq Apps \cup Strays /\ apps \in AppFiles /\ copy \in AppCopies
  BY DEF AppInv, AppTypes
<1>2. App(c) \in Apps
  BY AppFields
<1>3. CASE GiveUp(c)
  BY <1>1, <1>2, <1>3, AppGivesUp
<1>4. CASE Proceed(c, Unsound(After(c)))
  <2>1. PICK next : next = After(c)
    OBVIOUS
  <2>2. next \in AppCalls /\ ByPlan(next) /\ next.kind = client[c].kind /\ next.app = App(c)
    BY <2>1, AppAfter
  <2>3. PICK k : k = [next EXCEPT !.sound = FALSE]
    OBVIOUS
  <2>4. /\ k \in AppCalls /\ k.sound = FALSE /\ k.kind = next.kind /\ k.app = next.app /\ k.todo = next.todo
        /\ k.made = next.made /\ k.rights = next.rights /\ k.text = next.text
    BY <2>2, <2>3 DEF AppCalls
  <2>5. ByPlan(k)
    BY <2>2, <2>4 DEF ByPlan
  <2>6. Proceed(c, k) /\ ~k.sound /\ k.kind = client[c].kind /\ k.app = App(c)
    BY <1>4, <2>1, <2>2, <2>3, <2>4 DEF Unsound
  <2> QED BY <1>1, <1>2, <2>4, <2>5, <2>6, AppProceeds
<1> QED BY <1>3, <1>4

\* A file is truncated, and made with its directory when it was not there.
LEMMA TruncateKeeps ==
  ASSUME AppInv, NEW c \in Clients,
         Truncate(c, "emptyManifest", "manifest") \/ Truncate(c, "emptyMain", "main")
  PROVE  AppInv'
<1>1. PICK step \in {"emptyManifest", "emptyMain"}, leaf \in {"manifest", "main"} :
        Truncate(c, step, leaf) /\ (step = "emptyManifest" <=> leaf = "manifest")
  OBVIOUS
<1>2. AtStep(c, step) /\ Busy(c) /\ copy' = copy
  BY <1>1 DEF Truncate, AtStep
<1>3. PICK kind \in AppKinds, made \in BOOLEAN, n \in 1 .. 8, a \in Apps, call \in AppCalls, next \in AppCalls :
           /\ StepsLeft(step, kind, made, n) /\ call = client[c] /\ next = After(c) /\ a = App(c)
           /\ call.kind = kind /\ call.made = made /\ Len(call.todo) = n /\ call.app = a
           /\ next.kind = kind /\ next.made = made /\ Len(next.todo) = n - 1 /\ next.app = a
           /\ next.rights = call.rights /\ next.text = call.text /\ next.read = call.read
           /\ next.sound = call.sound /\ next.todo \in Seq(AppSteps)
           /\ ByPlan(call) /\ ByPlan(next) /\ (call.sound => Progressed(call))
  BY <1>2, AppNextStep
<1>4. kind # "use" /\ client[c].kind = kind
  <2>1. StepsLeft(step, kind, made, n)
    BY <1>3
  <2>2. kind # "use"
    BY <2>1 DEF StepsLeft
  <2> QED BY <1>3, <2>2
<1>5. CASE GiveUp(c) /\ UNCHANGED <<apps, dir>>
  BY <1>2, <1>4, <1>5, AppFails
<1>6. CASE LeafBecomes(a, leaf, Ragged) /\ dir' = dir \cup {a} /\ Proceed(c, next)
  <2>1. /\ apps' \in AppFiles /\ \A b \in Apps : b # a => apps'[b] = apps[b]
        /\ apps'[a].manifest = IF leaf = "manifest" THEN Ragged ELSE apps[a].manifest
        /\ apps'[a].main = IF leaf = "main" THEN Ragged ELSE apps[a].main
    BY <1>6, AppLeaf
  <2>2. dir \subseteq Apps \cup Strays /\ copy \in AppCopies
    BY DEF AppInv, AppTypes
  <2>3. next.sound => Progressed(next)'
    <3> SUFFICES ASSUME next.sound PROVE Progressed(next)'
      OBVIOUS
    <3>1. Progressed(call)
      BY <1>3
    <3>2. StepsLeft(step, kind, made, n)
      BY <1>3
    <3>3. a \in dir'
      BY <1>6
    <3>4. leaf = "main" => apps'[a].main # Gone /\ apps'[a].manifest = apps[a].manifest
      BY <2>1, AppAssumption
    <3>5. CASE kind = "scaffold"
      <4>1. n = 5 \/ (n = 3 /\ leaf = "main")
        BY <1>1, <1>3, <3>2, <3>5 DEF StepsLeft
      <4>2. Len(next.todo) = 4 \/ (Len(next.todo) = 2 /\ leaf = "main")
        BY <1>3, <4>1
      <4>3. next.kind = "scaffold" /\ next.app = a
        BY <1>3, <3>5
      <4>4. CASE Len(next.todo) = 4
        BY <3>3, <4>3, <4>4, ScaffoldComes
      <4>5. CASE Len(next.todo) = 2 /\ leaf = "main"
        BY <3>3, <3>4, <4>3, <4>5, ScaffoldComes
      <4> QED BY <4>2, <4>4, <4>5
    <3>6. CASE made /\ n > 3
      <4>1. n \in 6 .. 8 /\ kind \in {"install", "save"}
        BY <1>1, <3>2, <3>6 DEF StepsLeft
      <4>2. next.read = Unread
        BY <1>3, <3>1, <3>6, <4>1 DEF Progressed
      <4>3. Len(next.todo) \in 5 .. 7
        BY <1>3, <4>1
      <4>4. next.kind \in {"install", "save"}
        BY <1>3, <4>1
      <4> QED BY <4>2, <4>3, <4>4, MakingComes
    <3>7. CASE kind \in {"install", "save", "update"} /\ n = 2 /\ leaf = "main"
      <4>1. call.read \in Rights /\ call.read = InForce(a) /\ (call.made => copy[a] = call.rights)
        BY <1>3, <3>1, <3>7 DEF Progressed
      <4>2. InForce(a)' = InForce(a)
        BY <1>2, <3>4, <3>7 DEF InForce
      <4>3. next.read \in Rights /\ next.read = InForce(a)' /\ apps'[a].main # Gone
        BY <1>3, <3>4, <3>7, <4>1, <4>2
      <4>4. next.made => copy'[a] = next.rights
        BY <1>2, <1>3, <4>1
      <4>5. next.kind \in {"install", "save", "update"} /\ Len(next.todo) = 1 /\ next.app = a
        BY <1>3, <3>7
      <4> QED BY <3>3, <4>3, <4>4, <4>5 DEF Progressed
    <3> QED BY <1>1, <3>2, <3>5, <3>6, <3>7 DEF StepsLeft
  <2> QED BY <1>2, <1>3, <1>4, <1>6, <2>1, <2>2, <2>3, AppProceeds
<1> QED BY <1>1, <1>3, <1>5, <1>6 DEF Truncate, LeafBecomes

\* A write fills the file that was opened, if it is still there.
LEMMA AppFilled ==
  ASSUME AppInv, NEW c \in Clients, NEW a \in Apps, a = App(c), NEW f \in {"manifest", "main"}, NEW v, Fill(c, f, v),
         f = "manifest" => v \in Rights \cup {Gone, Ragged}, f = "main" => v \in Sources \cup {Stub, Gone, Ragged}
  PROVE  /\ apps' \in AppFiles /\ \A b \in Apps : b # a => apps'[b] = apps[b]
         /\ apps'[a].manifest = apps[a].manifest \/ (f = "manifest" /\ apps'[a].manifest = v)
         /\ apps'[a].main = IF f = "main" /\ apps[a].main # Gone THEN v ELSE apps[a].main
<1>1. apps \in AppFiles
  BY DEF AppInv, AppTypes
<1>2. CASE apps[a][f] = Gone
  <2>1. apps' = apps
    BY <1>2 DEF Fill
  <2>2. f = "main" => apps[a].main = Gone
    BY <1>2
  <2> QED BY <1>1, <2>1, <2>2
<1>3. CASE apps[a][f] # Gone
  <2>1. LeafBecomes(a, f, v)
    BY <1>3 DEF Fill, LeafBecomes
  <2>2. f = "main" => apps[a].main # Gone
    BY <1>3
  <2>3. /\ apps' \in AppFiles /\ \A b \in Apps : b # a => apps'[b] = apps[b]
        /\ apps'[a].manifest = IF f = "manifest" THEN v ELSE apps[a].manifest
        /\ apps'[a].main = IF f = "main" THEN v ELSE apps[a].main
    BY <2>1, AppLeaf
  <2> QED BY <2>2, <2>3
<1> QED BY <1>2, <1>3

LEMMA ManifestKeeps ==
  ASSUME AppInv, NEW c \in Clients, WriteFile(c, "writeManifest", "manifest", client[c].rights)
  PROVE  AppInv'
<1>2. AtStep(c, "writeManifest") /\ Busy(c) /\ copy' = copy /\ dir' = dir
  BY DEF WriteFile, AtStep
<1>3. PICK kind \in AppKinds, made \in BOOLEAN, n \in 1 .. 8, a \in Apps, call \in AppCalls, next \in AppCalls :
           /\ StepsLeft("writeManifest", kind, made, n) /\ call = client[c] /\ next = After(c) /\ a = App(c)
           /\ call.kind = kind /\ call.made = made /\ Len(call.todo) = n /\ call.app = a
           /\ next.kind = kind /\ next.made = made /\ Len(next.todo) = n - 1 /\ next.app = a
           /\ next.rights = call.rights /\ next.text = call.text /\ next.read = call.read
           /\ next.sound = call.sound /\ next.todo \in Seq(AppSteps)
           /\ ByPlan(call) /\ ByPlan(next) /\ (call.sound => Progressed(call))
  BY <1>2, AppNextStep
<1>4. kind # "use" /\ client[c].kind = kind /\ ((kind = "scaffold" /\ n = 4) \/ (kind \in {"install", "save"} /\ n = 7))
  <2>1. StepsLeft("writeManifest", kind, made, n)
    BY <1>3
  <2>2. kind # "use" /\ ((kind = "scaffold" /\ n = 4) \/ (kind \in {"install", "save"} /\ n = 7))
    BY <2>1 DEF StepsLeft
  <2> QED BY <1>3, <2>2
<1>5. CASE Proceed(c, Unsound(After(c))) /\ UNCHANGED apps
  BY <1>2, <1>4, <1>5, AppFails
<1>6. CASE Fill(c, "manifest", call.rights) /\ Proceed(c, next)
  <2>1. call.rights \in Rights
    BY <1>3, <1>4 DEF ByPlan
  <2>2. /\ apps' \in AppFiles /\ \A b \in Apps : b # a => apps'[b] = apps[b]
        /\ apps'[a].main = apps[a].main
    BY <1>3, <1>6, <2>1, AppFilled
  <2>3. dir \subseteq Apps \cup Strays /\ copy \in AppCopies
    BY DEF AppInv, AppTypes
  <2>4. next.sound => Progressed(next)'
    <3> SUFFICES ASSUME next.sound PROVE Progressed(next)'
      OBVIOUS
    <3>1. Progressed(call)
      BY <1>3
    <3>2. CASE kind = "scaffold" /\ n = 4
      <4>1. a \in dir
        BY <1>3, <3>1, <3>2 DEF Progressed
      <4> QED BY <1>2, <1>3, <3>2, <4>1, ScaffoldComes
    <3>3. CASE kind \in {"install", "save"} /\ n = 7
      <4>1. made
        <5>1. StepsLeft("writeManifest", kind, made, n)
          BY <1>3
        <5> QED BY <3>3, <5>1 DEF StepsLeft
      <4>2. call.read = Unread
        BY <1>3, <3>1, <3>3, <4>1 DEF Progressed
      <4>3. next.kind \in {"install", "save"} /\ next.read = Unread /\ Len(next.todo) = 6
        BY <1>3, <3>3, <4>2
      <4> QED BY <4>3, MakingComes
    <3> QED BY <1>4, <3>2, <3>3
  <2> QED BY <1>2, <1>3, <1>4, <1>6, <2>2, <2>3, <2>4, AppProceeds
<1> QED BY <1>3, <1>5, <1>6 DEF WriteFile

\* How far a call that gives an app a source has come when it has no other step to do.
LEMMA InstalledComes ==
  ASSUME NEW k, k.kind \in {"install", "save", "update"}, Len(k.todo) = 0, k.made => copy'[k.app] = k.rights,
         k.read \in Rights, k.read = InForce(k.app)', k.app \in dir', apps'[k.app].main = k.text
  PROVE  Progressed(k)'
BY DEF Progressed

LEMMA TextKeeps ==
  ASSUME AppInv, NEW c \in Clients, WriteFile(c, "saveText", "main", client[c].text) \/ CopyText(c)
  PROVE  AppInv'
<1>1. PICK step \in {"saveText", "copyText"} : AtStep(c, step)
  BY DEF WriteFile, CopyText
<1>2. AtStep(c, step) /\ Busy(c) /\ copy' = copy /\ dir' = dir
  BY <1>1 DEF WriteFile, CopyText, AtStep
<1>3. PICK kind \in AppKinds, made \in BOOLEAN, n \in 1 .. 8, a \in Apps, call \in AppCalls, next \in AppCalls :
           /\ StepsLeft(step, kind, made, n) /\ call = client[c] /\ next = After(c) /\ a = App(c)
           /\ call.kind = kind /\ call.made = made /\ Len(call.todo) = n /\ call.app = a
           /\ next.kind = kind /\ next.made = made /\ Len(next.todo) = n - 1 /\ next.app = a
           /\ next.rights = call.rights /\ next.text = call.text /\ next.read = call.read
           /\ next.sound = call.sound /\ next.todo \in Seq(AppSteps)
           /\ ByPlan(call) /\ ByPlan(next) /\ (call.sound => Progressed(call))
  BY <1>2, AppNextStep
<1>4. kind # "use" /\ client[c].kind = kind /\ kind \in {"install", "save", "update"} /\ n = 1
  <2>1. StepsLeft(step, kind, made, n)
    BY <1>3
  <2>2. kind \in {"install", "save", "update"} /\ n = 1
    BY <2>1 DEF StepsLeft
  <2> QED BY <1>3, <2>2
<1>5. CASE (GiveUp(c) \/ Proceed(c, Unsound(After(c)))) /\ UNCHANGED apps
  BY <1>2, <1>4, <1>5, AppFails
<1>6. CASE Fill(c, "main", call.text) /\ Proceed(c, next)
  <2>1. call.text \in Sources
    BY <1>3, <1>4 DEF ByPlan
  <2>2. /\ apps' \in AppFiles /\ \A b \in Apps : b # a => apps'[b] = apps[b]
        /\ apps'[a].manifest = apps[a].manifest
        /\ apps'[a].main = IF apps[a].main # Gone THEN call.text ELSE apps[a].main
    BY <1>3, <1>6, <2>1, AppFilled
  <2>3. dir \subseteq Apps \cup Strays /\ copy \in AppCopies
    BY DEF AppInv, AppTypes
  <2>4. next.sound => Progressed(next)'
    <3> SUFFICES ASSUME next.sound PROVE Progressed(next)'
      OBVIOUS
    <3>1. Progressed(call)
      BY <1>3
    <3>2. /\ call.read \in Rights /\ call.read = InForce(a) /\ (call.made => copy[a] = call.rights)
          /\ a \in dir /\ apps[a].main # Gone
      BY <1>3, <1>4, <3>1 DEF Progressed
    <3>3. InForce(a)' = InForce(a)
      BY <1>2, <2>2 DEF InForce
    <3>4. next.read \in Rights /\ next.read = InForce(a)' /\ apps'[a].main = next.text
      BY <1>3, <2>2, <3>2, <3>3
    <3>5. next.made => copy'[a] = next.rights
      BY <1>2, <1>3, <3>2
    <3>6. next.kind \in {"install", "save", "update"} /\ Len(next.todo) = 0 /\ next.app = a /\ a \in dir'
      BY <1>2, <1>3, <1>4, <3>2
    <3> QED BY <3>4, <3>5, <3>6, InstalledComes
  <2> QED BY <1>2, <1>3, <1>4, <1>6, <2>2, <2>3, <2>4, AppProceeds
<1> QED BY <1>3, <1>5, <1>6 DEF WriteFile, CopyText

LEMMA StubKeeps ==
  ASSUME AppInv, NEW c \in Clients, WriteFile(c, "writeStub", "main", Stub)
  PROVE  AppInv'
<1>2. AtStep(c, "writeStub") /\ Busy(c) /\ copy' = copy /\ dir' = dir
  BY DEF WriteFile, AtStep
<1>3. PICK kind \in AppKinds, made \in BOOLEAN, n \in 1 .. 8, a \in Apps, call \in AppCalls, next \in AppCalls :
           /\ StepsLeft("writeStub", kind, made, n) /\ call = client[c] /\ next = After(c) /\ a = App(c)
           /\ call.kind = kind /\ call.made = made /\ Len(call.todo) = n /\ call.app = a
           /\ next.kind = kind /\ next.made = made /\ Len(next.todo) = n - 1 /\ next.app = a
           /\ next.rights = call.rights /\ next.text = call.text /\ next.read = call.read
           /\ next.sound = call.sound /\ next.todo \in Seq(AppSteps)
           /\ ByPlan(call) /\ ByPlan(next) /\ (call.sound => Progressed(call))
  BY <1>2, AppNextStep, ZenonT(30)
<1>4. kind # "use" /\ client[c].kind = kind
      /\ ((kind = "scaffold" /\ n = 2) \/ (kind \in {"install", "save"} /\ made /\ n = 5))
  <2>1. StepsLeft("writeStub", kind, made, n)
    BY <1>3
  <2>2. kind # "use" /\ ((kind = "scaffold" /\ n = 2) \/ (kind \in {"install", "save"} /\ made /\ n = 5))
    BY <2>1 DEF StepsLeft
  <2> QED BY <1>3, <2>2
<1>5. CASE Proceed(c, Unsound(After(c))) /\ UNCHANGED apps
  BY <1>2, <1>4, <1>5, AppFails
<1>6. CASE Fill(c, "main", Stub) /\ Proceed(c, next)
  <2>2. /\ apps' \in AppFiles /\ \A b \in Apps : b # a => apps'[b] = apps[b]
        /\ apps'[a].main = IF apps[a].main # Gone THEN Stub ELSE apps[a].main
    BY <1>3, <1>6, AppFilled
  <2>3. dir \subseteq Apps \cup Strays /\ copy \in AppCopies
    BY DEF AppInv, AppTypes
  <2>4. next.sound => Progressed(next)'
    <3> SUFFICES ASSUME next.sound PROVE Progressed(next)'
      OBVIOUS
    <3>1. Progressed(call)
      BY <1>3
    <3>2. CASE kind = "scaffold" /\ n = 2
      <4>1. a \in dir /\ apps[a].main # Gone
        BY <1>3, <3>1, <3>2 DEF Progressed
      <4>2. a \in dir' /\ apps'[a].main = Stub
        BY <1>2, <2>2, <4>1
      <4>3. next.kind = "scaffold" /\ next.app = a /\ Len(next.todo) = 1
        BY <1>3, <3>2
      <4> QED BY <4>2, <4>3, ScaffoldComes
    <3>3. CASE kind \in {"install", "save"} /\ made /\ n = 5
      <4>2. call.read = Unread
        BY <1>3, <3>1, <3>3 DEF Progressed
      <4>3. next.kind \in {"install", "save"} /\ next.read = Unread /\ Len(next.todo) = 4
        BY <1>3, <3>3, <4>2
      <4> QED BY <4>3, MakingComes
    <3> QED BY <1>4, <3>2, <3>3
  <2> QED BY <1>2, <1>3, <1>4, <1>6, <2>2, <2>3, <2>4, AppProceeds
<1> QED BY <1>3, <1>5, <1>6 DEF WriteFile

\* How far a call has come when it is to read the manifest.
LEMMA MadeComes ==
  ASSUME NEW k, k.kind \in {"install", "save", "update"}, Len(k.todo) = 3, k.read = Unread,
         k.made => copy'[k.app] = k.rights
  PROVE  Progressed(k)'
BY DEF Progressed

\* How far a removal has come.
LEMMA RemovalComes ==
  ASSUME NEW k, NEW n \in 0 .. 2, k.kind = "remove", Len(k.todo) = n, n = 0 => k.app \notin dir'
  PROVE  Progressed(k)'
BY DEF Progressed

LEMMA RememberKeeps ==
  ASSUME AppInv, NEW c \in Clients, Remember(c)
  PROVE  AppInv'
<1>2. AtStep(c, "remember") /\ Busy(c) /\ apps' = apps /\ dir' = dir
  BY DEF Remember, AtStep
<1>3. PICK kind \in AppKinds, made \in BOOLEAN, n \in 1 .. 8, a \in Apps, call \in AppCalls, next \in AppCalls :
           /\ StepsLeft("remember", kind, made, n) /\ call = client[c] /\ next = After(c) /\ a = App(c)
           /\ call.kind = kind /\ call.made = made /\ Len(call.todo) = n /\ call.app = a
           /\ next.kind = kind /\ next.made = made /\ Len(next.todo) = n - 1 /\ next.app = a
           /\ next.rights = call.rights /\ next.text = call.text /\ next.read = call.read
           /\ next.sound = call.sound /\ next.todo \in Seq(AppSteps)
           /\ ByPlan(call) /\ ByPlan(next) /\ (call.sound => Progressed(call))
  BY <1>2, AppNextStep
<1>4. kind # "use" /\ client[c].kind = kind
      /\ ((kind = "scaffold" /\ n = 1) \/ (kind \in {"install", "save"} /\ made /\ n = 4))
  <2>1. StepsLeft("remember", kind, made, n)
    BY <1>3
  <2>2. kind # "use" /\ ((kind = "scaffold" /\ n = 1) \/ (kind \in {"install", "save"} /\ made /\ n = 4))
    BY <2>1 DEF StepsLeft
  <2> QED BY <1>3, <2>2
<1>5. CASE Proceed(c, Unsound(After(c))) /\ UNCHANGED copy
  BY <1>2, <1>4, <1>5, AppFails
<1>6. CASE copy' = [copy EXCEPT ![a] = call.rights] /\ Proceed(c, next)
  <2>1. call.rights \in Rights
    BY <1>3, <1>4 DEF ByPlan
  <2>2. dir \subseteq Apps \cup Strays /\ apps \in AppFiles /\ copy \in AppCopies
    BY DEF AppInv, AppTypes
  <2>3. copy' \in AppCopies /\ copy'[a] = call.rights /\ \A b \in Apps : b # a => copy'[b] = copy[b]
    BY <1>6, <2>1, <2>2 DEF AppCopies
  <2>4. next.sound => Progressed(next)'
    <3> SUFFICES ASSUME next.sound PROVE Progressed(next)'
      OBVIOUS
    <3>1. Progressed(call)
      BY <1>3
    <3>2. CASE kind = "scaffold" /\ n = 1
      <4>1. a \in dir /\ apps[a].main = Stub
        BY <1>3, <3>1, <3>2 DEF Progressed
      <4>2. a \in dir' /\ apps'[a].main = Stub /\ copy'[a] = next.rights
        BY <1>2, <1>3, <2>3, <4>1
      <4>3. next.kind = "scaffold" /\ next.app = a /\ Len(next.todo) = 0
        BY <1>3, <3>2
      <4> QED BY <4>2, <4>3, ScaffoldComes
    <3>3. CASE kind \in {"install", "save"} /\ made /\ n = 4
      <4>2. call.read = Unread
        BY <1>3, <3>1, <3>3 DEF Progressed
      <4>3. next.kind \in {"install", "save"} /\ next.read = Unread /\ Len(next.todo) = 3 /\ copy'[next.app] = next.rights
        BY <1>3, <2>3, <3>3, <4>2
      <4> QED BY <4>3, MadeComes
    <3> QED BY <1>4, <3>2, <3>3
  <2>5. /\ next.kind = client[c].kind /\ next.app = a /\ (next.sound => client[c].sound) /\ ByPlan(next)
        /\ a = App(c) /\ next.kind # "use" /\ client[c].kind # "use"
    BY <1>3, <1>4
  <2>6. /\ dir' \subseteq Apps \cup Strays /\ apps' \in AppFiles
        /\ \A b \in Apps : b # a => apps'[b] = apps[b] /\ copy'[b] = copy[b] /\ (b \in dir' <=> b \in dir)
    BY <1>2, <2>2, <2>3
  <2> QED BY <1>2, <1>6, <2>3, <2>4, <2>5, <2>6, AppProceeds
<1> QED BY <1>3, <1>5, <1>6 DEF Remember

LEMMA ForgetKeeps ==
  ASSUME AppInv, NEW c \in Clients, Forget(c)
  PROVE  AppInv'
<1>2. AtStep(c, "forget") /\ Busy(c) /\ apps' = apps /\ dir' = dir
  BY DEF Forget, AtStep
<1>3. PICK kind \in AppKinds, made \in BOOLEAN, n \in 1 .. 8, a \in Apps, call \in AppCalls, next \in AppCalls :
           /\ StepsLeft("forget", kind, made, n) /\ call = client[c] /\ next = After(c) /\ a = App(c)
           /\ call.kind = kind /\ call.made = made /\ Len(call.todo) = n /\ call.app = a
           /\ next.kind = kind /\ next.made = made /\ Len(next.todo) = n - 1 /\ next.app = a
           /\ next.rights = call.rights /\ next.text = call.text /\ next.read = call.read
           /\ next.sound = call.sound /\ next.todo \in Seq(AppSteps)
           /\ ByPlan(call) /\ ByPlan(next) /\ (call.sound => Progressed(call))
  BY <1>2, AppNextStep
<1>4. client[c].kind = "remove" /\ kind = "remove" /\ n = 2
  <2>1. StepsLeft("forget", kind, made, n)
    BY <1>3
  <2>2. kind = "remove" /\ n = 2
    BY <2>1 DEF StepsLeft
  <2> QED BY <1>3, <2>2
<1>5. CASE Proceed(c, Unsound(After(c))) /\ UNCHANGED copy
  BY <1>2, <1>4, <1>5, AppFails
<1>6. CASE copy' = [copy EXCEPT ![a] = Gone] /\ Proceed(c, next)
  <2>2. dir \subseteq Apps \cup Strays /\ apps \in AppFiles /\ copy \in AppCopies
    BY DEF AppInv, AppTypes
  <2>3. copy' \in AppCopies /\ \A b \in Apps : b # a => copy'[b] = copy[b]
    BY <1>6, <2>2 DEF AppCopies
  <2>4. Progressed(next)'
    <3>1. next.kind = "remove" /\ Len(next.todo) = 1
      BY <1>3, <1>4
    <3> QED BY <3>1, RemovalComes
  <2> QED BY <1>2, <1>3, <1>4, <1>6, <2>2, <2>3, <2>4, AppProceeds
<1> QED BY <1>3, <1>5, <1>6 DEF Forget

LEMMA UnlinkKeeps ==
  ASSUME AppInv, NEW c \in Clients, Unlink(c)
  PROVE  AppInv'
<1>2. AtStep(c, "unlink") /\ Busy(c) /\ copy' = copy
  BY DEF Unlink, AtStep
<1>3. PICK kind \in AppKinds, made \in BOOLEAN, n \in 1 .. 8, a \in Apps, call \in AppCalls, next \in AppCalls :
           /\ StepsLeft("unlink", kind, made, n) /\ call = client[c] /\ next = After(c) /\ a = App(c)
           /\ call.kind = kind /\ call.made = made /\ Len(call.todo) = n /\ call.app = a
           /\ next.kind = kind /\ next.made = made /\ Len(next.todo) = n - 1 /\ next.app = a
           /\ next.rights = call.rights /\ next.text = call.text /\ next.read = call.read
           /\ next.sound = call.sound /\ next.todo \in Seq(AppSteps)
           /\ ByPlan(call) /\ ByPlan(next) /\ (call.sound => Progressed(call))
  BY <1>2, AppNextStep
<1>4. client[c].kind = "remove" /\ kind = "remove" /\ n = 1
  <2>1. StepsLeft("unlink", kind, made, n)
    BY <1>3
  <2>2. kind = "remove" /\ n = 1
    BY <2>1 DEF StepsLeft
  <2> QED BY <1>3, <2>2
<1>5. dir \subseteq Apps \cup Strays /\ apps \in AppFiles /\ copy \in AppCopies /\ vowed \in AppVows
      /\ client \in [Clients -> AppCalls \cup {NoCall}]
  BY DEF AppInv, AppTypes
<1>6. DOMAIN apps[a] = {"manifest", "main"}
  BY <1>5 DEF AppFiles
<1>7. ASSUME NEW leaf \in DOMAIN apps[a], LeafBecomes(a, leaf, Gone), UNCHANGED <<client, vowed, dir>>
      PROVE  AppInv'
  <2>1. apps' \in AppFiles /\ \A b \in Apps : b # a => apps'[b] = apps[b]
    BY <1>6, <1>7, AppLeaf
  <2>2. client' = [client EXCEPT ![c] = call]
    BY <1>3, <1>5, <1>7
  <2>3. Harmless(call)'
    <3>1. vowed[a].is = "nothing"
      BY <1>2, <1>3, <1>4, AppFields DEF Harmless
    <3> QED BY <1>3, <1>7, <3>1 DEF Harmless
  <2>4. Progressed(call)'
    BY <1>3, <1>4, RemovalComes
  <2>5. /\ call.kind = client[c].kind /\ call.app = a /\ (call.sound => client[c].sound) /\ ByPlan(call)
        /\ a = App(c) /\ client[c].kind # "use"
    BY <1>3, <1>4
  <2>6. /\ dir' \subseteq Apps \cup Strays /\ copy' \in AppCopies /\ vowed' \in AppVows /\ vowed'[a] = vowed[a]
        /\ \A b \in Apps : b # a => /\ apps'[b] = apps[b] /\ copy'[b] = copy[b] /\ (b \in dir' <=> b \in dir)
                                  /\ vowed'[b] = vowed[b]
    BY <1>2, <1>5, <1>7, <2>1
  <2> QED BY <1>2, <2>1, <2>2, <2>3, <2>4, <2>5, <2>6, AppStepKeeps
<1>8. CASE dir' = dir \ {a} /\ Proceed(c, next) /\ UNCHANGED apps
  <2>1. Progressed(next)'
    <3>1. next.kind = "remove" /\ Len(next.todo) = 0 /\ next.app \notin dir'
      BY <1>3, <1>4, <1>8
    <3> QED BY <3>1, RemovalComes
  <2>2. dir' \subseteq Apps \cup Strays /\ \A b \in Apps : b # a => (b \in dir' <=> b \in dir)
    BY <1>5, <1>8
  <2> QED BY <1>2, <1>3, <1>4, <1>5, <1>8, <2>1, <2>2, AppProceeds
<1>9. CASE GiveUp(c) /\ UNCHANGED <<apps, dir>>
  BY <1>2, <1>4, <1>9, AppFails
<1> QED BY <1>3, <1>7, <1>8, <1>9 DEF Unlink, LeafBecomes

LEMMA FewInSeq ==
  ASSUME NEW S, NEW a \in S, NEW b \in S, NEW c \in S, NEW d \in S
  PROVE  <<a>> \in Seq(S) /\ <<a, b>> \in Seq(S) /\ <<a, b, c>> \in Seq(S) /\ <<a, b, c, d>> \in Seq(S)
<1>1. <<a>> \in Seq(S) /\ <<a, b>> \in Seq(S)
  OBVIOUS
<1>2. <<a, b, c>> \in Seq(S)
  <2> PICK t : t = <<a, b, c>>
    OBVIOUS
  <2>1. t \in [1 .. 3 -> S]
    <3>1. \A i \in 1 .. 3 : i = 1 \/ i = 2 \/ i = 3
      OBVIOUS
    <3> QED BY <3>1
  <2> QED BY <2>1
<1>3. <<a, b, c, d>> \in Seq(S)
  <2> PICK t : t = <<a, b, c, d>>
    OBVIOUS
  <2>1. t \in [1 .. 4 -> S]
    <3>1. \A i \in 1 .. 4 : i = 1 \/ i = 2 \/ i = 3 \/ i = 4
      OBVIOUS
    <3> QED BY <3>1
  <2> QED BY <2>1
<1> QED BY <1>1, <1>2, <1>3

\* A script is a plan from its first step.
LEMMA ScriptPlan ==
  ASSUME NEW kind \in AppKinds
  PROVE  /\ Script(kind) \in Seq(AppSteps) /\ Len(Script(kind)) = MostSteps(kind, FALSE)
         /\ \A j \in 1 .. MostSteps(kind, FALSE) :
              Script(kind)[j] = Planned(kind, FALSE, MostSteps(kind, FALSE) - j + 1)
<1>1. PICK probe, load, emptyMain, writeStub, copyText, saveText, forget, unlink \in AppSteps :
        /\ probe = "probe" /\ load = "load" /\ emptyMain = "emptyMain" /\ writeStub = "writeStub"
        /\ copyText = "copyText" /\ saveText = "saveText" /\ forget = "forget" /\ unlink = "unlink"
  BY DEF AppSteps
<1>2. CASE kind = "install"
  <2>1. Script(kind) = <<probe, load, emptyMain, copyText>> /\ MostSteps(kind, FALSE) = 4
    BY <1>1, <1>2 DEF Script, MostSteps
  <2>2. <<probe, load, emptyMain, copyText>> \in Seq(AppSteps)
    BY FewInSeq
  <2>3. PICK t : t = Script(kind)
    OBVIOUS
  <2>4. t \in Seq(AppSteps) /\ Len(t) = 4 /\ t[1] = probe /\ t[2] = load /\ t[3] = emptyMain /\ t[4] = copyText
    BY <2>1, <2>2, <2>3
  <2>5. \A j \in 1 .. 4 : t[j] = Planned(kind, FALSE, 4 - j + 1)
    BY <1>1, <1>2, <2>4 DEF Planned
  <2> QED BY <2>1, <2>3, <2>4, <2>5, Zenon
<1>3. CASE kind = "save"
  <2>1. Script(kind) = <<probe, load, emptyMain, saveText>> /\ MostSteps(kind, FALSE) = 4
    BY <1>1, <1>3 DEF Script, MostSteps
  <2>2. <<probe, load, emptyMain, saveText>> \in Seq(AppSteps)
    BY FewInSeq
  <2>3. PICK t : t = Script(kind)
    OBVIOUS
  <2>4. t \in Seq(AppSteps) /\ Len(t) = 4 /\ t[1] = probe /\ t[2] = load /\ t[3] = emptyMain /\ t[4] = saveText
    BY <2>1, <2>2, <2>3
  <2>5. \A j \in 1 .. 4 : t[j] = Planned(kind, FALSE, 4 - j + 1)
    BY <1>1, <1>3, <2>4 DEF Planned
  <2> QED BY <2>1, <2>3, <2>4, <2>5, Zenon
<1>4. CASE kind = "update"
  <2>1. Script(kind) = <<load, emptyMain, saveText>> /\ MostSteps(kind, FALSE) = 3
    BY <1>1, <1>4 DEF Script, MostSteps
  <2>2. <<load, emptyMain, saveText>> \in Seq(AppSteps)
    BY FewInSeq
  <2>3. PICK t : t = Script(kind)
    OBVIOUS
  <2>4. t \in Seq(AppSteps) /\ Len(t) = 3 /\ t[1] = load /\ t[2] = emptyMain /\ t[3] = saveText
    BY <2>1, <2>2, <2>3
  <2>5. \A j \in 1 .. 3 : t[j] = Planned(kind, FALSE, 3 - j + 1)
    BY <1>1, <1>4, <2>4 DEF Planned
  <2> QED BY <2>1, <2>3, <2>4, <2>5, Zenon
<1>5. CASE kind = "scaffold"
  <2>1. PICK emptyManifest, writeManifest, remember \in AppSteps :
          emptyManifest = "emptyManifest" /\ writeManifest = "writeManifest" /\ remember = "remember"
    BY DEF AppSteps
  <2>2. Script(kind) = <<emptyManifest, writeManifest, emptyMain, writeStub, remember>> /\ MostSteps(kind, FALSE) = 5
    BY <1>1, <1>5, <2>1 DEF Script, Scaffold, MostSteps
  <2>3. <<emptyManifest, writeManifest, emptyMain, writeStub, remember>> \in Seq(AppSteps)
    BY FiveInSeq
  <2>4. PICK t : t = Script(kind)
    OBVIOUS
  <2>5. t \in Seq(AppSteps) /\ Len(t) = 5 /\ t[1] = emptyManifest /\ t[2] = writeManifest /\ t[3] = emptyMain /\ t[4] = writeStub /\ t[5] = remember
    BY <2>2, <2>3, <2>4
  <2>6. \A j \in 1 .. 5 : t[j] = Planned(kind, FALSE, 5 - j + 1)
    BY <1>1, <1>5, <2>5, <2>1 DEF Planned, ScaffoldStep
  <2> QED BY <2>2, <2>4, <2>5, <2>6, Zenon
<1>6. CASE kind = "remove"
  <2>1. Script(kind) = <<forget, unlink>> /\ MostSteps(kind, FALSE) = 2
    BY <1>1, <1>6 DEF Script, MostSteps
  <2>2. <<forget, unlink>> \in Seq(AppSteps)
    BY FewInSeq
  <2>3. PICK t : t = Script(kind)
    OBVIOUS
  <2>4. t \in Seq(AppSteps) /\ Len(t) = 2 /\ t[1] = forget /\ t[2] = unlink
    BY <2>1, <2>2, <2>3
  <2>5. \A j \in 1 .. 2 : t[j] = Planned(kind, FALSE, 2 - j + 1)
    BY <1>1, <1>6, <2>4 DEF Planned
  <2> QED BY <2>1, <2>3, <2>4, <2>5, Zenon
<1>7. CASE kind = "use"
  <2>1. Script(kind) = <<load>> /\ MostSteps(kind, FALSE) = 1
    BY <1>1, <1>7 DEF Script, MostSteps
  <2>2. <<load>> \in Seq(AppSteps)
    BY FewInSeq
  <2>3. PICK t : t = Script(kind)
    OBVIOUS
  <2>4. t \in Seq(AppSteps) /\ Len(t) = 1 /\ t[1] = load
    BY <2>1, <2>2, <2>3
  <2>5. \A j \in 1 .. 1 : t[j] = Planned(kind, FALSE, 1 - j + 1)
    BY <1>1, <1>7, <2>4 DEF Planned
  <2> QED BY <2>1, <2>3, <2>4, <2>5, Zenon
<1> QED BY <1>2, <1>3, <1>4, <1>5, <1>6, <1>7 DEF AppKinds

LEMMA RequestKeeps ==
  ASSUME AppInv, NEW c \in Clients, NEW kind \in AppKinds, NEW a \in Apps,
         NEW r \in Rights \cup {Gone}, NEW s \in Sources \cup {Gone}, Request(c, kind, a, r, s),
         kind \in {"install", "save", "scaffold"} => r \in Rights,
         kind \in {"install", "save", "update"} => s \in Sources
  PROVE  AppInv'
<1>1. /\ dir \subseteq Apps \cup Strays /\ apps \in AppFiles /\ copy \in AppCopies /\ vowed \in AppVows
      /\ client \in [Clients -> AppCalls \cup {NoCall}]
  BY DEF AppInv, AppTypes
<1>2. /\ UNCHANGED <<dir, apps, copy>> /\ ~Busy(c)
      /\ vowed' = IF kind = "use" THEN vowed ELSE [vowed EXCEPT ![a] = NoVow]
  BY DEF Request
<1>3. PICK met : met = {d \in Clients : Busy(d) /\ App(d) = a}
  OBVIOUS
<1>4. PICK alone \in BOOLEAN : alone <=> met = {}
  OBVIOUS
<1>5. PICK k : k = [kind |-> kind, app |-> a, rights |-> r, text |-> s, todo |-> Script(kind),
                    read |-> Unread, missed |-> FALSE, made |-> FALSE, sound |-> alone]
  OBVIOUS
<1>6. client' = [d \in Clients |->
        IF d = c THEN k ELSE IF d \in met THEN [client[d] EXCEPT !.sound = FALSE] ELSE client[d]]
  <2>1. alone = (met = {})
    BY <1>4
  <2> QED BY <1>3, <1>5, <2>1 DEF Request
<1>7. /\ k.kind = kind /\ k.app = a /\ k.rights = r /\ k.text = s /\ k.todo = Script(kind)
      /\ k.read = Unread /\ ~k.missed /\ ~k.made /\ (k.sound <=> alone)
  BY <1>5
<1>8. k \in AppCalls
  <2>1. Script(kind) \in Seq(AppSteps)
    BY ScriptPlan
  <2> QED BY <1>5, <2>1 DEF AppCalls
<1>9. ByPlan(k)
  <2>1. k.made = FALSE
    BY <1>5
  <2>2. /\ Len(k.todo) = MostSteps(k.kind, k.made)
        /\ \A j \in 1 .. MostSteps(k.kind, k.made) : k.todo[j] = Planned(k.kind, k.made, MostSteps(k.kind, k.made) - j + 1)
    BY <1>7, <2>1, ScriptPlan, Zenon
  <2>3. MostSteps(k.kind, k.made) \in Nat
    BY DEF MostSteps
  <2>4. Len(k.todo) \in 0 .. MostSteps(k.kind, k.made)
    <3>1. PICK m \in Nat : m = MostSteps(k.kind, k.made)
      BY <2>3
    <3>2. m \in 0 .. m
      OBVIOUS
    <3> QED BY <2>2, <3>1, <3>2, Zenon
  <2>5. \A j \in 1 .. Len(k.todo) : k.todo[j] = Planned(k.kind, k.made, Len(k.todo) - j + 1)
    BY <2>2, Zenon
  <2> QED BY <1>7, <2>4, <2>5 DEF ByPlan
<1>10. Progressed(k)'
  <2>1. Len(k.todo) = MostSteps(kind, FALSE)
    BY <1>7, ScriptPlan, Zenon
  <2>2. CASE kind = "scaffold"
    <3>1. Len(k.todo) = 5
      BY <2>1, <2>2 DEF MostSteps
    <3> QED BY <1>7, <2>2, <3>1, ScaffoldComes
  <2>3. CASE kind = "remove"
    <3>1. Len(k.todo) = 2
      BY <2>1, <2>3 DEF MostSteps
    <3> QED BY <1>7, <2>3, <3>1, RemovalComes
  <2>4. CASE kind = "update"
    <3>1. Len(k.todo) = 3
      BY <2>1, <2>4 DEF MostSteps
    <3> QED BY <1>7, <2>4, <3>1, MadeComes
  <2>5. CASE kind \in {"install", "save"}
    <3>1. Len(k.todo) = 4
      BY <2>1, <2>5 DEF MostSteps
    <3> QED BY <1>7, <2>5, <3>1, MakingComes
  <2>6. CASE kind = "use"
    BY <1>7, <2>6 DEF Progressed
  <2> QED BY <2>2, <2>3, <2>4, <2>5, <2>6 DEF AppKinds
<1>11. Harmless(k)'
  <2>1. kind # "use" => vowed'[a].is = "nothing"
    BY <1>1, <1>2 DEF AppVows, NoVow, Vow
  <2> QED BY <1>7, <2>1 DEF Harmless
<1>12. ASSUME NEW d \in Clients, d # c
       PROVE  /\ d \notin met => client'[d] = client[d]
              /\ d \in met => client'[d] = [client[d] EXCEPT !.sound = FALSE]
  BY <1>6, <1>12
<1>13. client'[c] = k
  BY <1>6
<1>14. ASSUME NEW d \in Clients, d # c, Busy(d) PROVE client[d] \in AppCalls /\ (d \in met <=> client[d].app = a)
  BY <1>3, <1>14, AppFields
<1>15. ASSUME NEW d \in Clients, d # c, Busy(d)'
       PROVE  Busy(d) /\ client'[d] \in AppCalls /\ App(d)' = App(d)
              /\ (client'[d].sound => client[d].sound /\ d \notin met)
  <2>1. CASE d \notin met
    <3>1. client'[d] = client[d] /\ Busy(d)
      BY <1>12, <1>15, <2>1 DEF Busy
    <3> QED BY <1>14, <1>15, <2>1, <3>1 DEF App
  <2>2. CASE d \in met
    <3>1. Busy(d)
      BY <1>3, <2>2
    <3>2. client[d] \in AppCalls
      BY <1>14, <1>15, <3>1
    <3>3. client'[d] = [client[d] EXCEPT !.sound = FALSE]
      BY <1>12, <1>15, <2>2
    <3>4. client'[d] \in AppCalls /\ client'[d].app = client[d].app /\ client'[d].sound = FALSE
      BY <3>2, <3>3 DEF AppCalls
    <3> QED BY <3>1, <3>4 DEF App
  <2> QED BY <2>1, <2>2
<1>16. vowed' \in AppVows /\ \A b \in Apps : vowed'[b] = vowed[b] \/ vowed'[b] = NoVow
  BY <1>1, <1>2 DEF AppVows
<1>17. AppTypes'
  <2>1. ASSUME NEW d \in Clients PROVE client'[d] \in AppCalls \cup {NoCall}
    <3>1. CASE d = c
      BY <1>8, <1>13, <3>1
    <3>2. CASE d # c /\ Busy(d)'
      BY <1>15, <3>2
    <3>3. CASE d # c /\ ~Busy(d)'
      <4>1. d \notin met
        <5> SUFFICES ASSUME d \in met PROVE FALSE
          OBVIOUS
        <5>1. Busy(d)
          BY <1>3
        <5>2. client[d] \in AppCalls /\ client'[d] = [client[d] EXCEPT !.sound = FALSE]
          BY <1>12, <1>14, <3>3, <5>1
        <5>3. client'[d].todo = client[d].todo
          BY <5>2 DEF AppCalls
        <5> QED BY <3>3, <5>1, <5>3 DEF Busy
      <4> QED BY <1>1, <1>12, <3>3, <4>1
    <3> QED BY <3>1, <3>2, <3>3
  <2>2. client' \in [Clients -> AppCalls \cup {NoCall}]
    BY <1>6, <2>1
  <2> QED BY <1>1, <1>2, <1>16, <2>2 DEF AppTypes
<1>18. SoundMeetsNobody'
  <2> SUFFICES ASSUME NEW d \in Clients, NEW e \in Clients, d # e, Busy(d)', Busy(e)', App(d)' = App(e)', client'[d].sound
               PROVE  FALSE
    BY DEF SoundMeetsNobody
  <2>1. CASE d = c
    <3>1. App(e) = a /\ Busy(e)
      BY <1>7, <1>13, <1>15, <2>1 DEF App
    <3>2. alone
      BY <1>7, <1>13, <2>1
    <3> QED BY <1>3, <1>4, <3>1, <3>2
  <2>2. CASE d # c /\ e = c
    <3>1. App(d) = a /\ Busy(d) /\ d \notin met
      BY <1>7, <1>13, <1>15, <2>2 DEF App
    <3> QED BY <1>3, <3>1
  <2>3. CASE d # c /\ e # c
    <3>1. App(d) = App(e) /\ Busy(d) /\ Busy(e) /\ client[d].sound
      BY <1>15, <2>3
    <3> QED BY <3>1 DEF AppInv, SoundMeetsNobody
  <2> QED BY <2>1, <2>2, <2>3
<1>19. InstalledAppRuns' /\ VowedDirs'
  <2>1. NoVow.is = "nothing"
    BY DEF NoVow, Vow
  <2> QED BY <1>2, <1>16, <2>1 DEF AppInv, InstalledAppRuns, VowedDirs, InForce
<1>20. AppCallInv(c)'
  BY <1>9, <1>10, <1>11, <1>13 DEF AppCallInv
<1>21. ASSUME NEW d \in Clients, d # c, Busy(d)' PROVE AppCallInv(d)'
  <2> PICK e, f : e = client[d] /\ f = client'[d]
    OBVIOUS
  <2>1. Busy(d) /\ f \in AppCalls /\ (f.sound => e.sound /\ d \notin met)
    BY <1>15, <1>21
  <2>2. e \in AppCalls /\ ByPlan(e) /\ Harmless(e) /\ (e.sound => Progressed(e)) /\ App(d) = e.app /\ e.app \in Apps
    BY <2>1, AppFields
  <2>3. f = e \/ f = [e EXCEPT !.sound = FALSE]
    BY <1>12, <1>21
  <2>4. /\ f.kind = e.kind /\ f.app = e.app /\ f.rights = e.rights /\ f.text = e.text /\ f.todo = e.todo
        /\ f.read = e.read /\ f.missed = e.missed /\ f.made = e.made
    BY <2>2, <2>3 DEF AppCalls
  <2>5. ByPlan(f)
    BY <2>2, <2>4 DEF ByPlan
  <2>6. Harmless(f)'
    <3>1. CASE vowed'[e.app] = NoVow
      <4>1. NoVow.is = "nothing"
        BY DEF NoVow, Vow
      <4> QED BY <2>4, <3>1, <4>1 DEF Harmless
    <3>2. CASE vowed'[e.app] = vowed[e.app]
      BY <1>2, <2>2, <2>4, <3>2 DEF Harmless
    <3> QED BY <1>16, <2>2, <3>1, <3>2
  <2>7. f.sound => Progressed(f)'
    <3> SUFFICES ASSUME f.sound PROVE Progressed(f)'
      OBVIOUS
    <3>1. f = e /\ Progressed(e)
      <4>1. d \notin met
        BY <2>1
      <4> QED BY <1>12, <1>21, <2>1, <2>2, <4>1
    <3>2. InForce(e.app)' = InForce(e.app)
      BY <1>2 DEF InForce
    <3> QED BY <1>2, <3>1, <3>2 DEF Progressed
  <2>8. client'[d] = f
    OBVIOUS
  <2> QED BY <2>5, <2>6, <2>7, <2>8 DEF AppCallInv
<1>22. \A d \in Clients : AppCallInv(d)'
  <2>1. ASSUME NEW d \in Clients, ~Busy(d)' PROVE AppCallInv(d)'
    BY <2>1 DEF AppCallInv
  <2> QED BY <1>20, <1>21, <2>1
<1> QED BY <1>17, <1>18, <1>19, <1>22 DEF AppInv

LEMMA BlackoutKeeps ==
  ASSUME AppInv, Blackout
  PROVE  AppInv'
<1>1. /\ UNCHANGED <<dir, apps, copy, vowed>> /\ client' = [c \in Clients |-> NoCall]
  BY DEF Blackout
<1>2. \A c \in Clients : ~Busy(c)'
  BY <1>1 DEF Busy, NoCall
<1>3. client' \in [Clients -> AppCalls \cup {NoCall}]
  BY <1>1
<1>4. AppTypes' /\ InstalledAppRuns' /\ VowedDirs'
  BY <1>1, <1>3 DEF AppInv, AppTypes, InstalledAppRuns, VowedDirs, InForce
<1>5. SoundMeetsNobody' /\ \A c \in Clients : AppCallInv(c)'
  BY <1>2 DEF SoundMeetsNobody, AppCallInv
<1> QED BY <1>4, <1>5 DEF AppInv

\* Nobody is in a call while the power is off.
OffIsIdle == boot = "off" => \A c \in Clients : ~Busy(c)

\* A boot puts into NVS what is in force.
LEMMA AppBootKeeps ==
  ASSUME AppInv, OffIsIdle, AppBoot
  PROVE  AppInv'
<1>1. /\ UNCHANGED <<dir, apps, client, vowed>> /\ boot = "off"
      /\ \A a \in Apps : copy'[a] = copy[a] \/ (copy[a] = Gone /\ copy'[a] = apps[a].manifest)
      /\ DOMAIN copy' = Apps /\ copy' = [a \in Apps |-> copy'[a]]
  <2>1. PICK reached \in SUBSET dir : RunBootApps(reached)
    BY DEF AppBoot
  <2> QED BY <2>1 DEF AppBoot, RunBootApps, ReadAtBoot
<1>2. apps \in AppFiles /\ copy \in AppCopies
  BY DEF AppInv, AppTypes
<1>3. \A a \in Apps : copy'[a] \in Rights \cup {Gone, Ragged}
  BY <1>1, <1>2 DEF AppFiles, AppCopies
<1>4. copy' \in AppCopies
  BY <1>1, <1>3 DEF AppCopies
<1>5. \A c \in Clients : ~Busy(c)'
  BY <1>1 DEF OffIsIdle, Busy
<1>6. \A a \in Apps : InForce(a)' = InForce(a)
  BY <1>1 DEF InForce
<1>7. AppTypes' /\ InstalledAppRuns' /\ VowedDirs'
  BY <1>1, <1>4, <1>6 DEF AppInv, AppTypes, InstalledAppRuns, VowedDirs
<1>8. SoundMeetsNobody' /\ \A c \in Clients : AppCallInv(c)'
  BY <1>5 DEF SoundMeetsNobody, AppCallInv
<1> QED BY <1>7, <1>8 DEF AppInv

LEMMA AppStarts ==
  ASSUME AppInit
  PROVE  AppInv /\ OffIsIdle
<1>1. /\ boot = "complete" /\ client = [c \in Clients |-> NoCall]
  BY DEF AppInit
<1>2. PICK granted \in [Apps -> Rights \cup {Gone}], strays \in SUBSET Strays :
        /\ dir = {a \in Apps : granted[a] # Gone} \cup strays
        /\ apps = [a \in Apps |-> [manifest |-> granted[a], main |-> IF granted[a] = Gone THEN Gone ELSE Stub]]
        /\ copy = granted
        /\ vowed = [a \in Apps |-> IF a \in dir THEN Vow("app", granted[a], Stub) ELSE NoVow]
  BY DEF AppInit
<1>3. \A c \in Clients : ~Busy(c)
  BY <1>1 DEF Busy, NoCall
<1>4. client \in [Clients -> AppCalls \cup {NoCall}]
  BY <1>1
<1>5. dir \subseteq Apps \cup Strays /\ apps \in AppFiles /\ copy \in AppCopies
  BY <1>2 DEF AppFiles, AppCopies
<1>9. \A a \in Apps : a \in dir <=> granted[a] # Gone
  BY <1>2, AppAssumption
<1>6. vowed \in AppVows
  BY <1>2, <1>9 DEF AppVows
<1>7. InstalledAppRuns /\ VowedDirs
  <2> SUFFICES ASSUME NEW a \in Apps
               PROVE  /\ vowed[a].is = "app" => Vow("app", InForce(a), apps[a].main) = vowed[a] /\ a \in dir
                      /\ vowed[a].is = "removed" => a \notin dir
    BY DEF InstalledAppRuns, VowedDirs
  <2>1. CASE a \in dir
    BY <1>2, <1>9, <2>1 DEF InForce, Vow
  <2>2. CASE a \notin dir
    BY <1>2, <2>2 DEF NoVow, Vow
  <2> QED BY <2>1, <2>2
<1>8. SoundMeetsNobody /\ \A c \in Clients : AppCallInv(c)
  BY <1>3 DEF SoundMeetsNobody, AppCallInv
<1> QED BY <1>1, <1>4, <1>5, <1>6, <1>7, <1>8 DEF AppInv, AppTypes, OffIsIdle

LEMMA AppStepInv ==
  ASSUME AppInv, NEW c \in Clients, AppStep(c)
  PROVE  AppInv'
<1>1. CASE Load(c)
  BY <1>1, LoadKeeps
<1>2. CASE Judge(c)
  BY <1>2, JudgeKeeps
<1>3. CASE Truncate(c, "emptyManifest", "manifest") \/ Truncate(c, "emptyMain", "main")
  BY <1>3, TruncateKeeps
<1>4. CASE WriteFile(c, "writeManifest", "manifest", client[c].rights)
  BY <1>4, ManifestKeeps
<1>5. CASE WriteFile(c, "writeStub", "main", Stub)
  BY <1>5, StubKeeps
<1>6. CASE WriteFile(c, "saveText", "main", client[c].text) \/ CopyText(c)
  BY <1>6, TextKeeps
<1>7. CASE Remember(c)
  BY <1>7, RememberKeeps
<1>8. CASE Forget(c)
  BY <1>8, ForgetKeeps
<1>9. CASE Unlink(c)
  BY <1>9, UnlinkKeeps
<1> QED BY <1>1, <1>2, <1>3, <1>4, <1>5, <1>6, <1>7, <1>8, <1>9 DEF AppStep

LEMMA RequestsKeep ==
  ASSUME AppInv, NEW c \in Clients, Install(c) \/ Update(c) \/ NewApp(c) \/ RemoveApp(c) \/ UseApp(c)
  PROVE  AppInv'
<1>1. CASE Install(c)
  <2>1. PICK a \in Apps, r \in Rights, s \in Sources, kind \in {"install", "save"} : Request(c, kind, a, r, s)
    BY <1>1 DEF Install
  <2>2. kind \in AppKinds
    BY DEF AppKinds
  <2> QED BY <2>1, <2>2, RequestKeeps
<1>2. CASE Update(c)
  <2>1. PICK a \in Apps, s \in Sources : Request(c, "update", a, Gone, s)
    BY <1>2 DEF Update
  <2>2. "update" \in AppKinds
    BY DEF AppKinds
  <2> QED BY <2>1, <2>2, RequestKeeps
<1>3. CASE NewApp(c)
  <2>1. PICK a \in Apps, r \in Rights : Request(c, "scaffold", a, r, Gone)
    BY <1>3 DEF NewApp
  <2>2. "scaffold" \in AppKinds
    BY DEF AppKinds
  <2> QED BY <2>1, <2>2, RequestKeeps
<1>4. CASE RemoveApp(c)
  <2>1. PICK a \in Apps : Request(c, "remove", a, Gone, Gone)
    BY <1>4 DEF RemoveApp
  <2>2. "remove" \in AppKinds
    BY DEF AppKinds
  <2> QED BY <2>1, <2>2, RequestKeeps
<1>5. CASE UseApp(c)
  <2>1. PICK a \in Apps : Request(c, "use", a, Gone, Gone)
    BY <1>5 DEF UseApp
  <2>2. "use" \in AppKinds
    BY DEF AppKinds
  <2> QED BY <2>1, <2>2, RequestKeeps
<1> QED BY <1>1, <1>2, <1>3, <1>4, <1>5

\* Only a call makes a client busy, and nobody calls while the power is off.
LEMMA OffStaysIdle ==
  ASSUME AppInv, OffIsIdle, [AppNext]_appVars
  PROVE  OffIsIdle'
<1>1. CASE Blackout
  <2>1. client' = [c \in Clients |-> NoCall]
    BY <1>1 DEF Blackout
  <2> QED BY <2>1 DEF OffIsIdle, Busy, NoCall
<1>2. CASE AppBoot
  BY <1>2 DEF AppBoot, OffIsIdle
<1>3. CASE \E c \in Clients : Busy(c) /\ AppStep(c)
  <2>1. boot # "off"
    BY <1>3 DEF OffIsIdle
  <2>2. boot' = boot
    BY <1>3 DEF AppStep, Load, Judge, Truncate, WriteFile, CopyText, Remember, Forget, Unlink
  <2> QED BY <2>1, <2>2 DEF OffIsIdle
<1>4. CASE \E c \in Clients : Install(c) \/ Update(c) \/ NewApp(c) \/ RemoveApp(c) \/ UseApp(c)
  <2>1. boot # "off" /\ boot' = boot
    BY <1>4 DEF Install, Update, NewApp, RemoveApp, UseApp, Request
  <2> QED BY <2>1 DEF OffIsIdle
<1>5. CASE UNCHANGED appVars
  BY <1>5 DEF appVars, OffIsIdle, Busy
<1> QED BY <1>1, <1>2, <1>3, <1>4, <1>5 DEF AppNext

LEMMA AppKeeps ==
  ASSUME AppInv, OffIsIdle, [AppNext]_appVars
  PROVE  AppInv'
<1>1. CASE UNCHANGED appVars
  <2>1. AppTypes' /\ SoundMeetsNobody' /\ InstalledAppRuns' /\ VowedDirs'
    BY <1>1 DEF appVars, AppInv, AppTypes, SoundMeetsNobody, InstalledAppRuns, VowedDirs, InForce, Busy, App
  <2>2. ASSUME NEW c \in Clients PROVE AppCallInv(c)'
    <3>1. AppCallInv(c)
      BY DEF AppInv
    <3> QED BY <1>1, <3>1 DEF appVars, AppCallInv, Busy, Harmless, Progressed, InForce
  <2> QED BY <2>1, <2>2 DEF AppInv
<1>2. CASE Blackout
  BY <1>2, BlackoutKeeps
<1>3. CASE AppBoot
  BY <1>3, AppBootKeeps
<1>4. CASE \E c \in Clients : Busy(c) /\ AppStep(c)
  BY <1>4, AppStepInv
<1>5. CASE \E c \in Clients : Install(c) \/ Update(c) \/ NewApp(c) \/ RemoveApp(c) \/ UseApp(c)
  BY <1>5, RequestsKeep
<1> QED BY <1>1, <1>2, <1>3, <1>4, <1>5 DEF AppNext

LEMMA AppAlways == AppSpec => [](AppInv /\ OffIsIdle)
<1>1. AppInit => AppInv /\ OffIsIdle
  BY AppStarts
<1>2. AppInv /\ OffIsIdle /\ [AppNext]_appVars => (AppInv /\ OffIsIdle)'
  BY AppKeeps, OffStaysIdle
<1> QED BY <1>1, <1>2, PTL DEF AppSpec

\* What a call that succeeded said of an app stays true until the next call that changes
\* it, the manifest in NVS included (espclaw_app_load_manifest, app_runtime.c:713, fills
\* that copy whenever anybody reads the manifest): for any number of threads, apps,
\* manifests and requests, and whatever power failures, failed accesses and clashes came
\* before.
THEOREM AppsStay == AppSpec => []InstalledAppRuns
<1>1. AppInv => InstalledAppRuns
  BY DEF AppInv
<1> QED BY <1>1, AppAlways, PTL

\* A boot runs, of the apps that successful calls left, none but those that ask for it
\* (espclaw_app_run_boot_apps, app_runtime.c:2985). One that comes to its end has run all
\* of these among the directories that it took, which are all of them, or BootMax, whatever
\* they hold: below that number an app with broken files keeps no other from starting.
THEOREM BootRunsApps == AppSpec => BootRunsInstalled
<1> DEFINE Sorted ==
      /\ \A a \in Apps :
           /\ vowed[a].is = "removed" => ran'[a] = Gone
           /\ vowed[a].is = "app" /\ vowed[a].rights \notin OnBoot => ran'[a] = Gone
           /\ vowed[a].is = "app" => ran'[a] \in {vowed[a].main, Gone}
      /\ boot' = "complete" =>
           \E taken \in SUBSET dir :
             /\ Taken(taken)
             /\ \A a \in taken \cap Apps : vowed[a].is = "app" /\ vowed[a].rights \in OnBoot => ran'[a] = vowed[a].main
<1>1. ASSUME AppInv, [AppNext]_appVars, boot = "off", boot' # "off" PROVE Sorted
  <2>1. AppBoot
    <3>1. ~UNCHANGED appVars /\ ~Blackout
      BY <1>1 DEF appVars, Blackout
    <3>2. ASSUME NEW c \in Clients, AppStep(c) PROVE FALSE
      BY <1>1, <3>2 DEF AppStep, Load, Judge, Truncate, WriteFile, CopyText, Remember, Forget, Unlink
    <3>3. ASSUME NEW c \in Clients, Install(c) \/ Update(c) \/ NewApp(c) \/ RemoveApp(c) \/ UseApp(c) PROVE FALSE
      BY <1>1, <3>3 DEF Install, Update, NewApp, RemoveApp, UseApp, Request
    <3> QED BY <1>1, <3>1, <3>2, <3>3 DEF AppNext
  <2>2. PICK reached \in SUBSET dir : RunBootApps(reached) /\ (boot' = "complete" => Taken(reached))
    BY <2>1 DEF AppBoot
  <2>3. ASSUME NEW a \in Apps
        PROVE  /\ vowed[a].is = "removed" => ran'[a] = Gone
               /\ vowed[a].is = "app" /\ vowed[a].rights \notin OnBoot => ran'[a] = Gone
               /\ vowed[a].is = "app" => ran'[a] \in {vowed[a].main, Gone}
               /\ vowed[a].is = "app" /\ vowed[a].rights \in OnBoot /\ a \in reached => ran'[a] = vowed[a].main
    <3>3. ran'[a] = IF a \in reached /\ Starts(a) THEN apps[a].main ELSE Gone
      BY <2>2 DEF RunBootApps
    <3>4. CASE vowed[a].is = "removed"
      <4>1. a \notin dir
        BY <1>1, <3>4 DEF AppInv, VowedDirs
      <4> QED BY <2>2, <3>3, <3>4, <4>1
    <3>5. CASE vowed[a].is = "app"
      <4>1. Vow("app", InForce(a), apps[a].main) = vowed[a] /\ a \in dir
        BY <1>1, <3>5 DEF AppInv, InstalledAppRuns, VowedDirs
      <4>2. vowed[a].rights = InForce(a) /\ vowed[a].main = apps[a].main
        BY <4>1 DEF Vow
      <4>3. ReadAtBoot(a) = InForce(a)
        BY <4>1 DEF ReadAtBoot, InForce
      <4>4. apps[a].main # Gone
        <5>1. vowed[a] \in {Vow("app", r, s) : r \in Rights, s \in Sources \cup {Stub}}
          BY <1>1, <3>5 DEF AppInv, AppTypes, AppVows, NoVow, Vow
        <5>2. vowed[a].main \in Sources \cup {Stub}
          BY <5>1 DEF Vow
        <5> QED BY <4>2, <5>2, AppAssumption
      <4> QED BY <2>2, <3>3, <3>5, <4>1, <4>2, <4>3, <4>4 DEF Starts
    <3>6. CASE vowed[a].is \notin {"app", "removed"}
      BY <3>6
    <3> QED BY <3>4, <3>5, <3>6
  <2>4.  boot' = "complete" => /\ Taken(reached)
                               /\ \A a \in reached \cap Apps :
                                    vowed[a].is = "app" /\ vowed[a].rights \in OnBoot => ran'[a] = vowed[a].main
    BY <2>2, <2>3
  <2> QED BY <2>3, <2>4
<1>2. AppInv /\ [AppNext]_appVars => [boot = "off" /\ boot' # "off" => Sorted]_appVars
  BY <1>1
<1> QED BY <1>2, AppAlways, PTL DEF AppSpec, BootRunsInstalled
=============================================================================
