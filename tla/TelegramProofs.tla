---------------------------- MODULE TelegramProofs --------------------------
(***************************************************************************)
(* For every set of requesters and every number of requests, updates and   *)
(* restarts: whoever asks the operator worker reads its own answer, and    *)
(* the Telegram server forgets no message before its text was handled.     *)
(***************************************************************************)
EXTENDS Telegram, SequenceTheorems, FiniteSetTheorems, TLAPS

\* What OperatorTypeOK says a requester is.
ClientRecord ==
  [pc: {"idle", "lock", "wait", "give", "read"}, n: 0 .. MaxRequests,
   result: Works \cup {None}, outcome: BOOLEAN, told: BOOLEAN]

USE DEF ClientRecord

\* Who has a notification to take: nobody, or one task.
NobodyNotified == \A t \in Requesters \cup {Worker} : notified[t] = 0
OnlyNotified(x) ==
  \A t \in Requesters \cup {Worker} : notified[t] = IF t = x THEN 1 ELSE 0

\* The request of r is in the record; the request of r has been answered.
Asked(r) == request.work = <<r, client[r].n>>
HasOwn(r) == client[r].result = <<r, client[r].n>>
Served(r) == HasOwn(r) /\ request.ok = client[r].outcome

\* What r waits for while it holds the mutex: the worker to take the request, to
\* run it, to notify r, or its own turn to wake.
Phase(r) ==
  \/ worker.pc = "wait" /\ OnlyNotified(Worker) /\ Asked(r)
  \/ worker.pc = "run" /\ worker.requester = r /\ NobodyNotified /\ Asked(r)
  \/ worker.pc = "notify" /\ worker.requester = r /\ NobodyNotified /\ Served(r)
  \/ worker.pc = "wait" /\ OnlyNotified(r) /\ Served(r)

HolderInv == \A r \in Requesters : client[r].pc \in {"wait", "give"} <=> mutex = r

QuietInv ==
  (mutex = None \/ \E r \in Requesters : client[r].pc = "give") =>
    worker.pc = "wait" /\ NobodyNotified

NumberInv == \A r \in Requesters : client[r].pc # "idle" => client[r].n >= 1

WaitInv == \A r \in Requesters : client[r].pc = "wait" => request.requester = r /\ Phase(r)

GiveInv == \A r \in Requesters : client[r].pc = "give" => request.requester = r /\ Served(r)

ReadInv ==
  \A r \in Requesters : client[r].pc = "read" =>
    HasOwn(r) /\ (request.requester = r => request.ok = client[r].outcome)

OperatorIInv ==
  /\ OperatorTypeOK /\ HolderInv /\ QuietInv /\ NumberInv /\ WaitInv /\ GiveInv /\ ReadInv

-----------------------------------------------------------------------------
(* The operator worker.                                                    *)

\* The record and the requesters as memset and a restart leave them.
LEMMA FreshValues ==
  /\ [requester |-> None, work |-> None, ok |-> TRUE]
       \in [requester: Requesters \cup {None}, work: Works \cup {None}, ok: BOOLEAN]
  /\ [pc |-> "wait", requester |-> None]
       \in [pc: {"wait", "run", "notify"}, requester: Requesters \cup {None}]
  /\ Idle \in ClientRecord
  /\ Idle.pc = "idle"
BY OperatorAssumption DEF Idle

LEMMA OperatorInitInv == OperatorInit => OperatorIInv
<1> SUFFICES ASSUME OperatorInit PROVE OperatorIInv
  OBVIOUS
<1>1. \A r \in Requesters : client[r].pc = "idle"
  BY FreshValues DEF OperatorInit
<1>2. OperatorTypeOK
  <2>1. notified \in [Requesters \cup {Worker} -> 0 .. 1]
    BY DEF OperatorInit
  <2> QED BY <2>1, FreshValues, Zenon DEF OperatorInit, OperatorTypeOK
<1> QED
  BY <1>1, <1>2, OperatorAssumption
  DEF OperatorInit, OperatorIInv, HolderInv, QuietInv, NumberInv, WaitInv, GiveInv, ReadInv,
      NobodyNotified

\* What every step below rests on.
LEMMA OperatorFacts ==
  ASSUME OperatorIInv
  PROVE  /\ None \notin Requesters /\ Worker \notin Requesters
         /\ \A r, q \in Requesters :
              client[r].pc \in {"wait", "give"} /\ client[q].pc \in {"wait", "give"} => r = q
         /\ \A r \in Requesters :
              client[r].pc \in {"idle", "lock", "wait", "give", "read"} /\ client[r].n \in 0 .. MaxRequests
         /\ worker.pc # "wait" \/ notified[Worker] > 0 =>
              \E r \in Requesters : mutex = r /\ client[r].pc = "wait"
<1>1. None \notin Requesters /\ Worker \notin Requesters
  BY OperatorAssumption
<1>2. \A r, q \in Requesters :
        client[r].pc \in {"wait", "give"} /\ client[q].pc \in {"wait", "give"} => r = q
  BY DEF OperatorIInv, HolderInv
<1>3. \A r \in Requesters :
        client[r].pc \in {"idle", "lock", "wait", "give", "read"} /\ client[r].n \in 0 .. MaxRequests
  BY DEF OperatorIInv, OperatorTypeOK
<1>4. ASSUME worker.pc # "wait" \/ notified[Worker] > 0
      PROVE  \E r \in Requesters : mutex = r /\ client[r].pc = "wait"
  <2>1. ~(worker.pc = "wait" /\ NobodyNotified)
    BY <1>4 DEF NobodyNotified
  <2>2. mutex \in Requesters /\ client[mutex].pc # "give"
    BY <2>1 DEF OperatorIInv, QuietInv, OperatorTypeOK
  <2> QED BY <2>2 DEF OperatorIInv, HolderInv
<1> QED BY <1>1, <1>2, <1>3, <1>4

LEMMA SubmitKeepsInv ==
  ASSUME OperatorIInv, NEW r \in Requesters, Submit(r)
  PROVE  OperatorIInv'
<1>1. /\ client[r].pc = "idle" /\ client[r].n < MaxRequests
      /\ UNCHANGED <<up, mutex, request, notified, worker>>
  BY DEF Submit
<1>2. /\ client' \in [Requesters -> ClientRecord]
      /\ client'[r].pc \in {"idle", "lock"} /\ client'[r].n = client[r].n + 1
      /\ \A q \in Requesters : q # r => client'[q] = client[q]
  <2> DEFINE c == [client[r] EXCEPT !.n = @ + 1, !.result = None, !.outcome = FALSE,
                                    !.pc = IF up THEN "lock" ELSE "idle", !.told = FALSE]
  <2>1. client' = [client EXCEPT ![r] = c]
    BY DEF Submit, OperatorIInv, OperatorTypeOK
  <2>2. /\ c \in ClientRecord
        /\ c.pc \in {"idle", "lock"} /\ c.n = client[r].n + 1
    <3>1. client[r] \in ClientRecord
      BY DEF OperatorIInv, OperatorTypeOK
    <3>2. client[r].n + 1 \in 0 .. MaxRequests
      BY <1>1, <3>1, OperatorAssumption
    <3> DEFINE x == client[r]
               k == client[r].n + 1
               p == IF up THEN "lock" ELSE "idle"
    <3>3. /\ x \in ClientRecord
          /\ k \in 0 .. MaxRequests /\ p \in {"idle", "lock"}
          /\ c = [x EXCEPT !.n = k, !.result = None, !.outcome = FALSE, !.pc = p, !.told = FALSE]
      BY <3>1, <3>2, Zenon
    <3>4. k = client[r].n + 1
      OBVIOUS
    <3> HIDE DEF c, x, k, p
    <3> QED BY <3>3, <3>4
  <2> HIDE DEF c
  <2> QED BY <2>1, <2>2 DEF OperatorIInv, OperatorTypeOK
<1>3. OperatorTypeOK'
  BY <1>1, <1>2 DEF OperatorIInv, OperatorTypeOK
<1>4. HolderInv' /\ QuietInv' /\ NumberInv'
  BY <1>1, <1>2, OperatorFacts
  DEF OperatorIInv, HolderInv, QuietInv, NumberInv, NobodyNotified
<1>5. ASSUME NEW q \in Requesters, client'[q].pc \in {"wait", "give", "read"}
      PROVE  client'[q] = client[q]
  BY <1>2, <1>5
<1>6. WaitInv' /\ GiveInv' /\ ReadInv'
  BY <1>1, <1>5
  DEF OperatorIInv, WaitInv, GiveInv, ReadInv, Phase, OnlyNotified, NobodyNotified, Asked, Served, HasOwn
<1> QED BY <1>3, <1>4, <1>6 DEF OperatorIInv

LEMMA TakeMutexKeepsInv ==
  ASSUME OperatorIInv, NEW r \in Requesters, TakeMutex(r)
  PROVE  OperatorIInv'
<1>1. /\ client[r].pc = "lock" /\ mutex = None /\ mutex' = r
      /\ request' = [requester |-> r, work |-> <<r, client[r].n>>, ok |-> TRUE]
      /\ notified' = [notified EXCEPT ![Worker] = @ + 1]
      /\ client' = [client EXCEPT ![r].pc = "wait"]
      /\ UNCHANGED <<up, worker>>
  BY DEF TakeMutex
<1>2. worker.pc = "wait" /\ NobodyNotified /\ \A q \in Requesters : client[q].pc \notin {"wait", "give"}
  BY <1>1, OperatorFacts DEF OperatorIInv, QuietInv, HolderInv
<1>3. OnlyNotified(Worker)' /\ notified' \in [Requesters \cup {Worker} -> 0 .. 1]
  BY <1>1, <1>2 DEF OnlyNotified, NobodyNotified, OperatorIInv, OperatorTypeOK
<1>4. /\ client' \in [Requesters -> ClientRecord]
      /\ client'[r].pc = "wait" /\ client'[r].n = client[r].n
      /\ \A q \in Requesters : q # r => client'[q] = client[q]
  BY <1>1 DEF OperatorIInv, OperatorTypeOK
<1>5. <<r, client[r].n>> \in Works
  BY <1>1, OperatorFacts, OperatorAssumption DEF OperatorIInv, NumberInv, Works
<1>6. OperatorTypeOK'
  BY <1>1, <1>3, <1>4, <1>5 DEF OperatorIInv, OperatorTypeOK
<1>7. HolderInv' /\ QuietInv' /\ NumberInv'
  BY <1>1, <1>2, <1>4, OperatorFacts DEF OperatorIInv, HolderInv, QuietInv, NumberInv
<1>8. WaitInv'
  BY <1>1, <1>2, <1>3, <1>4 DEF WaitInv, Phase, Asked
<1>9. GiveInv'
  BY <1>2, <1>4 DEF GiveInv
<1>10. ReadInv'
  BY <1>1, <1>4 DEF OperatorIInv, ReadInv, HasOwn
<1> QED BY <1>6, <1>7, <1>8, <1>9, <1>10 DEF OperatorIInv

LEMMA WorkerTakeKeepsInv ==
  ASSUME OperatorIInv, WorkerTake
  PROVE  OperatorIInv'
<1>1. /\ worker.pc = "wait" /\ notified[Worker] > 0
      /\ notified' = [notified EXCEPT ![Worker] = 0]
      /\ worker' = [pc |-> "run", requester |-> request.requester]
      /\ UNCHANGED <<up, mutex, request, client>>
  BY DEF WorkerTake
<1>2. PICK h \in Requesters : mutex = h /\ client[h].pc = "wait"
  BY <1>1, OperatorFacts
<1>3. \A q \in Requesters : client[q].pc \in {"wait", "give"} => q = h
  BY <1>2, OperatorFacts
<1>4. request.requester = h /\ OnlyNotified(Worker) /\ Asked(h)
  BY <1>1, <1>2, OperatorFacts DEF OperatorIInv, WaitInv, Phase, OnlyNotified
<1>5. NobodyNotified' /\ notified' \in [Requesters \cup {Worker} -> 0 .. 1]
  BY <1>1, <1>4 DEF OnlyNotified, NobodyNotified, OperatorIInv, OperatorTypeOK
<1>6. OperatorTypeOK'
  BY <1>1, <1>4, <1>5 DEF OperatorIInv, OperatorTypeOK
<1>7. HolderInv' /\ NumberInv' /\ GiveInv' /\ ReadInv'
  BY <1>1 DEF OperatorIInv, HolderInv, NumberInv, GiveInv, ReadInv, Served, HasOwn
<1>8. QuietInv'
  BY <1>1, <1>2, <1>3, OperatorFacts DEF QuietInv
<1>9. WaitInv'
  BY <1>1, <1>3, <1>4, <1>5 DEF WaitInv, Phase, Asked
<1> QED BY <1>6, <1>7, <1>8, <1>9 DEF OperatorIInv

LEMMA WorkerRunKeepsInv ==
  ASSUME OperatorIInv, WorkerRun
  PROVE  OperatorIInv'
<1>1. worker.pc = "run" /\ worker' = [worker EXCEPT !.pc = "notify"] /\ UNCHANGED <<up, mutex, notified>>
  BY DEF WorkerRun
<1>2. PICK h \in Requesters : mutex = h /\ client[h].pc = "wait"
  BY <1>1, OperatorFacts
<1>3. \A q \in Requesters : client[q].pc \in {"wait", "give"} => q = h
  BY <1>2, OperatorFacts
<1>4. request.requester = h /\ worker.requester = h /\ NobodyNotified /\ Asked(h)
  BY <1>1, <1>2 DEF OperatorIInv, WaitInv, Phase
<1>5. request.work # None /\ request.work \in Works
  <2>1. <<h, client[h].n>> \in Works
    BY <1>2, OperatorFacts, OperatorAssumption DEF OperatorIInv, NumberInv, Works
  <2>2. None \notin Works
    BY OperatorAssumption DEF Works
  <2> QED BY <1>4, <2>1, <2>2 DEF Asked
<1>6. PICK ok \in BOOLEAN :
        /\ request' = [request EXCEPT !.ok = ok, !.work = None]
        /\ client' = [client EXCEPT ![h].result = request.work, ![h].outcome = ok]
  BY <1>4, <1>5 DEF WorkerRun
<1>7. /\ client' \in [Requesters -> ClientRecord]
      /\ client'[h].pc = "wait" /\ client'[h].n = client[h].n
      /\ client'[h].result = request.work /\ client'[h].outcome = ok
      /\ \A q \in Requesters : q # h => client'[q] = client[q]
  BY <1>2, <1>5, <1>6 DEF OperatorIInv, OperatorTypeOK
<1>8. /\ request' \in [requester: Requesters \cup {None}, work: Works \cup {None}, ok: BOOLEAN]
      /\ request'.requester = h /\ request'.ok = ok
      /\ worker' \in [pc: {"wait", "run", "notify"}, requester: Requesters \cup {None}]
      /\ worker'.pc = "notify" /\ worker'.requester = h
  BY <1>1, <1>4, <1>6 DEF OperatorIInv, OperatorTypeOK
<1>9. OperatorTypeOK'
  BY <1>1, <1>7, <1>8 DEF OperatorIInv, OperatorTypeOK
<1>10. HolderInv' /\ NumberInv'
  BY <1>1, <1>2, <1>7 DEF OperatorIInv, HolderInv, NumberInv
<1>11. QuietInv' /\ GiveInv'
  BY <1>1, <1>2, <1>3, <1>7, OperatorFacts DEF QuietInv, GiveInv
<1>12. WaitInv'
  BY <1>1, <1>3, <1>4, <1>7, <1>8 DEF WaitInv, Phase, Asked, Served, HasOwn, NobodyNotified
<1>13. ReadInv'
  BY <1>7, <1>8 DEF OperatorIInv, ReadInv, HasOwn
<1> QED BY <1>9, <1>10, <1>11, <1>12, <1>13 DEF OperatorIInv

LEMMA WorkerNotifyKeepsInv ==
  ASSUME OperatorIInv, WorkerNotify
  PROVE  OperatorIInv'
<1>1. /\ worker.pc = "notify" /\ worker' = [pc |-> "wait", requester |-> None]
      /\ notified' = [notified EXCEPT ![worker.requester] = @ + 1]
      /\ UNCHANGED <<up, mutex, request, client>>
  BY DEF WorkerNotify
<1>2. PICK h \in Requesters : mutex = h /\ client[h].pc = "wait"
  BY <1>1, OperatorFacts
<1>3. \A q \in Requesters : client[q].pc \in {"wait", "give"} => q = h
  BY <1>2, OperatorFacts
<1>4. request.requester = h /\ worker.requester = h /\ NobodyNotified /\ Served(h)
  BY <1>1, <1>2 DEF OperatorIInv, WaitInv, Phase
<1>5. OnlyNotified(h)' /\ notified' \in [Requesters \cup {Worker} -> 0 .. 1]
  BY <1>1, <1>4 DEF OnlyNotified, NobodyNotified, OperatorIInv, OperatorTypeOK
<1>6. OperatorTypeOK'
  BY <1>1, <1>5 DEF OperatorIInv, OperatorTypeOK
<1>7. HolderInv' /\ NumberInv' /\ GiveInv' /\ ReadInv'
  BY <1>1 DEF OperatorIInv, HolderInv, NumberInv, GiveInv, ReadInv, Served, HasOwn
<1>8. QuietInv'
  BY <1>1, <1>2, <1>3, OperatorFacts DEF QuietInv
<1>9. WaitInv'
  BY <1>1, <1>3, <1>4, <1>5 DEF WaitInv, Phase, Served, HasOwn
<1> QED BY <1>6, <1>7, <1>8, <1>9 DEF OperatorIInv

LEMMA WakeKeepsInv ==
  ASSUME OperatorIInv, NEW r \in Requesters, Wake(r)
  PROVE  OperatorIInv'
<1>1. /\ client[r].pc = "wait" /\ notified[r] > 0
      /\ notified' = [notified EXCEPT ![r] = 0]
      /\ client' = [client EXCEPT ![r].pc = "give"]
      /\ UNCHANGED <<up, mutex, request, worker>>
  BY DEF Wake
<1>2. \A q \in Requesters : client[q].pc \in {"wait", "give"} => q = r
  BY <1>1, OperatorFacts
<1>3. request.requester = r /\ worker.pc = "wait" /\ OnlyNotified(r) /\ Served(r)
  BY <1>1, OperatorFacts DEF OperatorIInv, WaitInv, Phase, OnlyNotified, NobodyNotified
<1>4. NobodyNotified' /\ notified' \in [Requesters \cup {Worker} -> 0 .. 1]
  BY <1>1, <1>3 DEF OnlyNotified, NobodyNotified, OperatorIInv, OperatorTypeOK
<1>5. /\ client' \in [Requesters -> ClientRecord]
      /\ client'[r] = [client[r] EXCEPT !.pc = "give"]
      /\ client'[r].pc = "give" /\ client'[r].n = client[r].n
      /\ client'[r].result = client[r].result /\ client'[r].outcome = client[r].outcome
      /\ \A q \in Requesters : q # r => client'[q] = client[q]
  BY <1>1 DEF OperatorIInv, OperatorTypeOK
<1>6. OperatorTypeOK'
  BY <1>1, <1>4, <1>5 DEF OperatorIInv, OperatorTypeOK
<1>7. HolderInv' /\ NumberInv' /\ ReadInv'
  BY <1>1, <1>5 DEF OperatorIInv, HolderInv, NumberInv, ReadInv, HasOwn
<1>8. QuietInv'
  BY <1>1, <1>3, <1>4 DEF QuietInv
<1>9. WaitInv'
  BY <1>2, <1>5 DEF WaitInv
<1>10. GiveInv'
  BY <1>1, <1>2, <1>3, <1>5 DEF GiveInv, Served, HasOwn
<1> QED BY <1>6, <1>7, <1>8, <1>9, <1>10 DEF OperatorIInv

LEMMA GiveMutexKeepsInv ==
  ASSUME OperatorIInv, NEW r \in Requesters, GiveMutex(r)
  PROVE  OperatorIInv'
<1>1. /\ client[r].pc = "give" /\ mutex' = None
      /\ client' = [client EXCEPT ![r].pc = "read"]
      /\ UNCHANGED <<up, request, notified, worker>>
  BY DEF GiveMutex
<1>2. \A q \in Requesters : client[q].pc \in {"wait", "give"} => q = r
  BY <1>1, OperatorFacts
<1>3. Served(r) /\ worker.pc = "wait" /\ NobodyNotified
  BY <1>1 DEF OperatorIInv, GiveInv, QuietInv
<1>4. /\ client' \in [Requesters -> ClientRecord]
      /\ client'[r].pc = "read" /\ client'[r].n = client[r].n
      /\ client'[r].result = client[r].result /\ client'[r].outcome = client[r].outcome
      /\ \A q \in Requesters : q # r => client'[q] = client[q]
  BY <1>1 DEF OperatorIInv, OperatorTypeOK
<1>5. OperatorTypeOK'
  BY <1>1, <1>4 DEF OperatorIInv, OperatorTypeOK
<1>6. HolderInv' /\ NumberInv' /\ QuietInv'
  BY <1>1, <1>2, <1>3, <1>4, OperatorFacts
  DEF OperatorIInv, HolderInv, NumberInv, QuietInv, NobodyNotified
<1>7. WaitInv' /\ GiveInv'
  BY <1>2, <1>4 DEF WaitInv, GiveInv
<1>8. ReadInv'
  BY <1>1, <1>3, <1>4 DEF OperatorIInv, ReadInv, Served, HasOwn
<1> QED BY <1>5, <1>6, <1>7, <1>8 DEF OperatorIInv

LEMMA ReturnKeepsInv ==
  ASSUME OperatorIInv, NEW r \in Requesters, Return(r)
  PROVE  OperatorIInv'
<1>1. /\ client[r].pc = "read"
      /\ client' = [client EXCEPT ![r].pc = "idle", ![r].told = request.ok]
      /\ UNCHANGED <<up, mutex, request, notified, worker>>
  BY DEF Return
<1>2. /\ client' \in [Requesters -> ClientRecord]
      /\ client'[r].pc = "idle"
      /\ \A q \in Requesters : q # r => client'[q] = client[q]
  BY <1>1 DEF OperatorIInv, OperatorTypeOK
<1>3. OperatorTypeOK'
  BY <1>1, <1>2 DEF OperatorIInv, OperatorTypeOK
<1>4. HolderInv' /\ NumberInv' /\ QuietInv'
  BY <1>1, <1>2, OperatorFacts DEF OperatorIInv, HolderInv, NumberInv, QuietInv, NobodyNotified
<1>5. ASSUME NEW q \in Requesters, client'[q].pc \in {"wait", "give", "read"}
      PROVE  client'[q] = client[q]
  BY <1>2, <1>5
<1>6. WaitInv'
  <2> SUFFICES ASSUME NEW q \in Requesters, client'[q].pc = "wait"
               PROVE  request'.requester = q /\ Phase(q)'
    BY DEF WaitInv
  <2>1. client'[q] = client[q]
    BY <1>5
  <2>2. request.requester = q /\ Phase(q)
    BY <2>1 DEF OperatorIInv, WaitInv
  <2> QED
    BY <1>1, <2>1, <2>2 DEF Phase, OnlyNotified, NobodyNotified, Asked, Served, HasOwn
<1>7. GiveInv' /\ ReadInv'
  BY <1>1, <1>5 DEF OperatorIInv, GiveInv, ReadInv, Served, HasOwn
<1> QED BY <1>3, <1>4, <1>6, <1>7 DEF OperatorIInv

LEMMA UnchangedKeepsInv ==
  ASSUME OperatorIInv, UNCHANGED <<mutex, request, notified, worker, client>>, up' \in BOOLEAN
  PROVE  OperatorIInv'
BY DEF OperatorIInv, OperatorTypeOK, HolderInv, QuietInv, NumberInv, WaitInv, GiveInv, ReadInv, Phase,
       OnlyNotified, NobodyNotified, Asked, Served, HasOwn

LEMMA OperatorStepKeepsInv ==
  ASSUME OperatorIInv, [Next]_vars
  PROVE  OperatorIInv'
<1>1. CASE OperatorNext
  <2>1. CASE StartWorker
    BY <2>1, UnchangedKeepsInv DEF StartWorker
  <2>2. CASE Serve
    BY <2>2, WorkerTakeKeepsInv, WorkerRunKeepsInv, WorkerNotifyKeepsInv DEF Serve
  <2>3. ASSUME NEW r \in Requesters, Submit(r) \/ Proceed(r)
        PROVE  OperatorIInv'
    BY <2>3, SubmitKeepsInv, TakeMutexKeepsInv, WakeKeepsInv, GiveMutexKeepsInv, ReturnKeepsInv
    DEF Proceed
  <2> QED BY <1>1, <2>1, <2>2, <2>3 DEF OperatorNext
<1>2. CASE HandleText
  BY <1>2, SubmitKeepsInv, TelegramAssumption DEF HandleText
<1>3. CASE Restart
  <2>1. \A r \in Requesters : client'[r].pc = "idle"
    BY <1>3, FreshValues DEF Restart
  <2>2. OperatorTypeOK'
    <3>1. notified' \in [Requesters \cup {Worker} -> 0 .. 1]
      BY <1>3 DEF Restart
    <3> QED BY <1>3, <3>1, FreshValues, Zenon DEF Restart, OperatorTypeOK
  <2> QED
    BY <1>3, <2>1, <2>2, OperatorAssumption
    DEF Restart, OperatorIInv, HolderInv, QuietInv, NumberInv, WaitInv, GiveInv, ReadInv,
        NobodyNotified
<1>4. CASE UNCHANGED opVars
  BY <1>4, UnchangedKeepsInv DEF opVars, OperatorIInv, OperatorTypeOK
<1> QED
  BY <1>1, <1>2, <1>3, <1>4
  DEF Next, vars, PollerNext, PollDecodes, PollFails, HandleCommand, TakeAnswer, Reply, UserSends

\* Every requester that leaves the wait of submit_operator_request has the answer
\* to its own request, whoever else asks meanwhile and wherever a restart falls.
THEOREM AnswersAreOwn == Spec => []AnswerIsOwn
<1>1. OperatorIInv => AnswerIsOwn
  BY DEF OperatorIInv, AnswerIsOwn, GiveInv, ReadInv, Served, HasOwn
<1>2. Init => OperatorIInv
  BY OperatorInitInv DEF Init
<1>3. Spec => Init /\ [][Next]_vars
  BY PTL DEF Spec
<1> QED BY <1>1, <1>2, <1>3, OperatorStepKeepsInv, PTL
-----------------------------------------------------------------------------
(* The offset of the poller.                                               *)

Handled(u) == Answerable(u) => u \in kept

\* What an update is.
Update == [kind : Kinds, quotes : 0 .. MaxUpdates + 2]

\* The update just behind the offset is the one the poller works on, for its own
\* chat, unless it was handled; all before it were handled, and so were those the
\* server has forgotten.
PollerInv ==
  /\ sent \in Seq(Update)
  /\ poller = [pc |-> poller.pc, chat |-> poller.chat, text |-> poller.text]
  /\ confirmed \in 0 .. Len(sent)
  /\ offset \in 0 .. Len(sent) + 1
  /\ \A u \in 1 .. confirmed : Handled(u)
  /\ \A u \in 1 .. offset - 1 :
       Handled(u) \/ (u = offset - 1 /\ poller.pc \in {"handle", "submitted"}
                                     /\ poller.chat = u /\ poller.text = FirstText(u))

\* A message with a text is taken as it is: its first text, for its own chat.
LEMMA OwnText ==
  ASSUME NEW first \in Nat, first <= Len(sent), sent \in Seq(Update),
         HasMessage(first), HasText(first)
  PROVE  ChatAt(first) = first /\ TextAt(first) = FirstText(first) /\ Least(Texts(first)) = first
<1>1. Len(sent) \in Nat
  BY LenProperties
<1>2. \A S : (S \subseteq Nat /\ first \in S /\ \A x \in S : first <= x) => Least(S) = first
  <2> SUFFICES ASSUME NEW S, S \subseteq Nat, first \in S, \A x \in S : first <= x
               PROVE  Least(S) = first
    OBVIOUS
  <2>1. Least(S) \in S /\ \A y \in S : Least(S) <= y
    BY DEF Least
  <2>2. Least(S) \in Nat /\ Least(S) <= first /\ first <= Least(S)
    BY <2>1
  <2> HIDE DEF Least
  <2> QED BY <2>2
<1>r. first \in Response(first) /\ Response(first) \subseteq Nat /\ \A x \in Response(first) : first <= x
  BY <1>1, TelegramAssumption DEF Response
<1>3. /\ Messages(first) \subseteq Nat /\ first \in Messages(first)
      /\ \A x \in Messages(first) : first <= x
  BY <1>r DEF Messages
<1>4. ChatAt(first) = first
  BY <1>2, <1>3 DEF ChatAt
<1>5. /\ Texts(first) \subseteq Nat /\ first \in Texts(first)
      /\ \A x \in Texts(first) : first <= x
  BY <1>r, <1>4 DEF Texts
<1> QED BY <1>2, <1>4, <1>5 DEF TextAt

\* While nobody sends, an update is what it was.
LEMMA SentFixed ==
  ASSUME UNCHANGED <<sent, kept>>
  PROVE  \A u : (Handled(u)' <=> Handled(u)) /\ FirstText(u)' = FirstText(u)
BY DEF Handled, Answerable, HasMessage, HasText, IsLong, OfKind, FirstText

\* An update stays what it is when another is sent.
LEMMA SentGrows ==
  ASSUME sent \in Seq(Update), NEW m \in Update, sent' = Append(sent, m), NEW u \in 1 .. Len(sent)
  PROVE  /\ FirstText(u)' = FirstText(u) /\ HasText(u)' = HasText(u) /\ HasMessage(u)' = HasMessage(u)
         /\ IsLong(FirstText(u)) => IsLong(FirstText(u))'
<1>1. /\ Len(sent) \in Nat /\ Len(sent') = Len(sent) + 1
      /\ \A v \in 1 .. Len(sent) : sent'[v] = sent[v]
  BY AppendProperties, LenProperties
<1>2. FirstText(u)' = FirstText(u) /\ HasText(u)' = HasText(u) /\ HasMessage(u)' = HasMessage(u)
  BY <1>1 DEF FirstText, HasText, HasMessage
<1>3. ASSUME OfKind(FirstText(u), "long") PROVE OfKind(FirstText(u), "long")'
  BY <1>1, <1>2, <1>3 DEF OfKind
<1> QED BY <1>2, <1>3 DEF IsLong, LongAnswer

LEMMA ConfirmedHandled ==
  ASSUME PollerInv, poller.pc = "poll"
  PROVE  Confirmed \in 0 .. Len(sent) /\ \A u \in 1 .. Confirmed : Handled(u)
<1>1. Len(sent) \in Nat
  BY LenProperties DEF PollerInv
<1> QED BY <1>1 DEF PollerInv, Confirmed

LEMMA CarriedOutKeepsInv ==
  ASSUME PollerInv, poller.pc \in {"handle", "submitted"}, CarriedOut,
         UNCHANGED <<sent, confirmed, offset>>
  PROVE  PollerInv'
<1>1. kept \subseteq kept'
  BY DEF CarriedOut
<1>2. \A u : Handled(u) => Handled(u)'
  BY <1>1 DEF Handled, Answerable, HasMessage, HasText, IsLong, OfKind, FirstText
<1>3. poller.text = FirstText(poller.chat) => poller.chat \in kept'
  BY DEF CarriedOut
<1>4. poller' = [pc |-> "reply", chat |-> poller.chat, text |-> poller.text]
  BY DEF CarriedOut, PollerInv
<1>5. \A u \in 1 .. offset - 1 : Handled(u)'
  <2> SUFFICES ASSUME NEW u \in 1 .. offset - 1 PROVE Handled(u)'
    OBVIOUS
  <2>1. CASE Handled(u)
    BY <1>2, <2>1
  <2>2. CASE poller.chat = u /\ poller.text = FirstText(u)
    BY <1>3, <2>2 DEF Handled
  <2> QED BY <2>1, <2>2 DEF PollerInv
<1> QED BY <1>2, <1>4, <1>5 DEF PollerInv

LEMMA SentIsUpdate ==
  ASSUME PollerInv, UserSends
  PROVE  Len(sent) < MaxUpdates /\ \E m \in Update : sent' = Append(sent, m)
<1>1. PICK k \in Kinds : \E q \in (IF k = "reply" THEN Quotable ELSE {0}) :
                            sent' = Append(sent, [kind |-> k, quotes |-> q])
  BY DEF UserSends
<1>2. PICK q \in {0} \cup Quotable : sent' = Append(sent, [kind |-> k, quotes |-> q])
  BY <1>1
<1>3. Len(sent) < MaxUpdates /\ Len(sent) \in Nat
  BY LenProperties DEF UserSends, PollerInv
<1>4. q \in 0 .. MaxUpdates + 2
  BY <1>3, TelegramAssumption DEF Quotable, Answer, LongAnswer
<1> QED BY <1>2, <1>3, <1>4 DEF Update

LEMMA PollerStepKeepsInv ==
  ASSUME PollerInv, [Next]_vars
  PROVE  PollerInv'
<1>1. Len(sent) \in Nat
  BY LenProperties DEF PollerInv
<1>2. CASE PollDecodes
  <2> DEFINE first == Confirmed + 1
  <2>1. /\ poller.pc = "poll" /\ Decodable(first)
        /\ confirmed' = Confirmed /\ offset' = first + 1
        /\ poller' = [pc |-> "handle", chat |-> ChatAt(first), text |-> TextAt(first)]
        /\ UNCHANGED <<sent, kept>>
    BY <1>2 DEF PollDecodes
  <2>2. Confirmed \in 0 .. Len(sent) /\ \A u \in 1 .. Confirmed : Handled(u)
    BY <2>1, ConfirmedHandled
  <2>3. first \in 1 .. Len(sent)
    <3>1. first \in Nat \ {0} /\ Messages(first) # {}
      BY <2>1, <2>2 DEF Decodable
    <3> HIDE DEF first
    <3> QED BY <1>1, <3>1 DEF Messages, Response
  <2>4. \A u : (Handled(u)' <=> Handled(u)) /\ FirstText(u)' = FirstText(u)
    BY <2>1, SentFixed
  <2>5. Handled(first) \/ (poller'.pc = "handle" /\ poller'.chat = first /\ poller'.text = FirstText(first))
    <3>1. ASSUME Answerable(first) PROVE ChatAt(first) = first /\ TextAt(first) = FirstText(first)
      <4>1. HasMessage(first) /\ HasText(first)
        BY <3>1 DEF Answerable
      <4> HIDE DEF first
      <4> QED BY <1>1, <2>3, <4>1, OwnText DEF PollerInv
    <3> QED BY <2>1, <3>1 DEF Handled
  <2>6. \A u \in 1 .. offset' - 1 : u \in 1 .. Confirmed \/ u = first
    BY <2>1, <2>2
  <2>7. offset' - 1 = first
    BY <2>1, <2>2
  <2> HIDE DEF first
  <2>8. /\ confirmed' \in 0 .. Len(sent') /\ offset' \in 0 .. Len(sent') + 1 /\ sent' \in Seq(Update)
        /\ poller' = [pc |-> poller'.pc, chat |-> poller'.chat, text |-> poller'.text]
    BY <1>1, <2>1, <2>2, <2>3 DEF PollerInv
  <2>9. \A u \in 1 .. confirmed' : Handled(u)'
    BY <2>1, <2>2, <2>4
  <2>10. \A u \in 1 .. offset' - 1 :
           Handled(u)' \/ (u = offset' - 1 /\ poller'.pc \in {"handle", "submitted"}
                                           /\ poller'.chat = u /\ poller'.text = FirstText(u)')
    BY <2>2, <2>4, <2>5, <2>6, <2>7
  <2> QED BY <2>8, <2>9, <2>10 DEF PollerInv
<1>3. CASE PollFails
  <2>1. Confirmed \in 0 .. Len(sent) /\ \A u \in 1 .. Confirmed : Handled(u)
    BY <1>3, ConfirmedHandled DEF PollFails
  <2> QED BY <1>3, <2>1, SentFixed DEF PollFails, PollerInv
<1>4. CASE HandleCommand \/ TakeAnswer
  BY <1>4, CarriedOutKeepsInv DEF HandleCommand, TakeAnswer
<1>5. CASE HandleText
  <2>1. /\ poller' = [pc |-> "submitted", chat |-> poller.chat, text |-> poller.text]
        /\ UNCHANGED <<sent, confirmed, offset, kept>>
    BY <1>5 DEF HandleText, PollerInv
  <2> QED BY <1>5, <2>1, SentFixed DEF HandleText, PollerInv
<1>6. CASE Reply
  BY <1>6, SentFixed DEF Reply, NoUpdate, PollerInv
<1>7. CASE UserSends
  <2>1. PICK m \in Update : sent' = Append(sent, m)
    BY <1>7, SentIsUpdate
  <2>2. sent' \in Seq(Update) /\ Len(sent') = Len(sent) + 1
    BY <2>1, AppendProperties DEF PollerInv
  <2>3. \A u \in 1 .. Len(sent) : (Handled(u) => Handled(u)') /\ FirstText(u)' = FirstText(u)
    <3>1. kept' = kept
      BY <1>7 DEF UserSends
    <3> QED BY <2>1, <3>1, SentGrows DEF PollerInv, Handled, Answerable
  <2> QED BY <1>1, <1>7, <2>2, <2>3 DEF UserSends, PollerInv
<1>8. CASE Restart
  BY <1>1, <1>8, SentFixed DEF Restart, NoUpdate, PollerInv
<1>9. CASE UNCHANGED <<sent, confirmed, offset, poller, kept>>
  BY <1>9, SentFixed DEF PollerInv
<1> QED
  BY <1>2, <1>3, <1>4, <1>5, <1>6, <1>7, <1>8, <1>9 DEF Next, vars, OperatorNext, PollerNext

\* The server is made to forget a message only after the first text in it was carried
\* out for its own chat (its own text, or in a reply the quoted one), for any number of updates of any kinds, lost responses and
\* restarts.
THEOREM NoneForgotten == Spec => []ForgottenWasHandled
<1>1. Init => PollerInv
  <2> SUFFICES ASSUME Init PROVE PollerInv
    OBVIOUS
  <2>1. sent \in Seq(Update) /\ Len(sent) = 0
    BY EmptySeq DEF Init
  <2> QED BY <2>1 DEF Init, NoUpdate, PollerInv
<1>2. PollerInv => ForgottenWasHandled
  BY DEF PollerInv, ForgottenWasHandled, Handled
<1>3. Spec => Init /\ [][Next]_vars
  BY PTL DEF Spec
<1> QED BY <1>1, <1>2, <1>3, PollerStepKeepsInv, PTL
-----------------------------------------------------------------------------
(* How often a text is met.                                                *)

\* The updates behind the next one a poll decodes whose response may give the text.
NextFirst == Confirmed + 1
Met(text, next) == {v \in 1 .. Len(sent) : v < next /\ Gives(v, text)}
UnderWay(text) == IF poller.pc \in {"handle", "submitted"} /\ poller.text = text THEN 1 ELSE 0

\* A text was carried out, or is being, once for each such update and once more for
\* each restart, which sets the poller back by one update at most.
RepeatInv ==
  /\ done \in [TextIds -> Nat] /\ restarts \in Nat
  /\ Len(sent) <= MaxUpdates
  /\ offset <= confirmed + 2
  /\ poller.pc \in {"handle", "submitted"} => poller.text \in TextIds
  /\ \A text \in TextIds : done[text] + UnderWay(text) <= restarts + Cardinality(Met(text, NextFirst))

LEMMA MetFinite ==
  ASSUME PollerInv, NEW text, NEW next
  PROVE  IsFiniteSet(Met(text, next)) /\ Cardinality(Met(text, next)) \in Nat
<1>1. Len(sent) \in Nat
  BY LenProperties DEF PollerInv
<1>2. IsFiniteSet(1 .. Len(sent))
  BY <1>1, FS_Interval
<1>3. Met(text, next) \subseteq 1 .. Len(sent)
  BY DEF Met
<1>4. IsFiniteSet(Met(text, next))
  BY <1>2, <1>3, FS_Subset
<1> QED BY <1>4, FS_CardinalityType

\* The poller that goes on by one update meets at most that one more, and one whose
\* response gives the text.
LEMMA MetNext ==
  ASSUME PollerInv, NEW text, NEW next \in Nat \ {0}
  PROVE  /\ Cardinality(Met(text, next)) <= Cardinality(Met(text, next + 1))
         /\ Cardinality(Met(text, next + 1)) <= Cardinality(Met(text, next)) + 1
         /\ next <= Len(sent) /\ Gives(next, text) =>
              Cardinality(Met(text, next + 1)) = Cardinality(Met(text, next)) + 1
<1>0. Len(sent) \in Nat
  BY LenProperties DEF PollerInv
<1>1. IsFiniteSet(Met(text, next)) /\ Cardinality(Met(text, next)) \in Nat
  BY MetFinite
<1>2. next \notin Met(text, next)
  BY DEF Met
<1>3. CASE next <= Len(sent) /\ Gives(next, text)
  <2>1. Met(text, next + 1) = Met(text, next) \cup {next}
    BY <1>0, <1>3 DEF Met
  <2>2. Cardinality(Met(text, next + 1)) = Cardinality(Met(text, next)) + 1
    BY <1>1, <1>2, <2>1, FS_AddElement
  <2> QED BY <1>1, <2>2
<1>4. CASE ~(next <= Len(sent) /\ Gives(next, text))
  <2>1. Met(text, next + 1) = Met(text, next)
    BY <1>0, <1>4 DEF Met
  <2> QED BY <1>1, <1>4, <2>1
<1> QED BY <1>3, <1>4

\* Some number of a set of numbers is the least: the smallest of the intervals that
\* lead up to them, which are finite.
LEMMA LeastIsOne ==
  ASSUME NEW S, S \subseteq Nat, S # {}
  PROVE  Least(S) \in S
<1> DEFINE T == {0 .. x : x \in S}
<1>1. T # {} /\ T \subseteq FiniteSubsetsOf(Nat)
  <2>1. \A x \in S : 0 .. x \in FiniteSubsetsOf(Nat)
    BY FS_Interval DEF FiniteSubsetsOf
  <2> QED BY <2>1
<1> HIDE DEF T
<1>2. \E m \in T : \A y \in T : <<y, m>> \notin StrictSubsetOrdering(Nat)
  BY <1>1, WFMin, FS_StrictSubsetOrderingWellFounded
<1>3. PICK x \in S : \A y \in S : <<0 .. y, 0 .. x>> \notin StrictSubsetOrdering(Nat)
  BY <1>2 DEF T
<1>4. \A y \in S : x <= y
  <2> SUFFICES ASSUME NEW y \in S, ~(x <= y) PROVE FALSE
    OBVIOUS
  <2>1. 0 .. y \subseteq 0 .. x /\ x \in 0 .. x /\ x \notin 0 .. y
    OBVIOUS
  <2>2. 0 .. x \in SUBSET Nat /\ 0 .. y \in SUBSET Nat
    OBVIOUS
  <2> QED BY <1>3, <2>1, <2>2, Zenon DEF StrictSubsetOrdering
<1> QED BY <1>4 DEF Least

\* A poll that decodes what follows the confirmed updates: its first update is one
\* that gives the text.
LEMMA DecodedText ==
  ASSUME PollerInv, Len(sent) <= MaxUpdates, poller.pc = "poll", Decodable(NextFirst)
  PROVE  /\ NextFirst \in 1 .. Len(sent)
         /\ TextAt(NextFirst) \in TextIds
         /\ Gives(NextFirst, TextAt(NextFirst))
<1> DEFINE first == NextFirst
           w == Least(Texts(first))
<1>1. Len(sent) \in Nat /\ sent \in Seq(Update)
  BY LenProperties DEF PollerInv
<1>2. first \in Nat \ {0}
  BY <1>1, ConfirmedHandled DEF NextFirst
<1> HIDE DEF first
<1>4. Messages(first) # {} /\ Texts(first) # {}
  BY DEF Decodable, first
<1>5. Texts(first) \subseteq first .. Len(sent)
  BY DEF Texts, Response
<1>6. w \in Texts(first)
  <2>1. Texts(first) \subseteq Nat
    BY <1>1, <1>2, <1>5
  <2> QED BY <1>4, <2>1, LeastIsOne
<1>7. w \in first .. Len(sent) /\ HasText(w)
  BY <1>5, <1>6 DEF Texts
<1>8. first \in 1 .. Len(sent)
  BY <1>1, <1>2, <1>7
<1>9. w = first \/ Bare(first)
  BY <1>1, <1>2, <1>8, OwnText DEF Bare
<1>10. TextAt(first) = FirstText(w)
  BY DEF TextAt
<1> HIDE DEF w
<1>11. Carries(w, TextAt(first))
  BY <1>7, <1>10 DEF Carries
<1>12. Gives(first, TextAt(first))
  <2>1. CASE w = first
    BY <1>11, <2>1 DEF Gives
  <2>2. CASE w # first
    <3>1. w \in first + 1 .. Len(sent)
      BY <1>1, <1>2, <1>7, <2>2
    <3> QED BY <1>9, <1>11, <2>2, <3>1 DEF Gives
  <2> QED BY <2>1, <2>2
<1>13. TextAt(first) \in TextIds
  <2>1. w \in 1 .. Len(sent) /\ MaxUpdates \in Nat
    BY <1>1, <1>2, <1>7, TelegramAssumption
  <2>2. sent[w] \in Update
    BY <1>1, <2>1, ElementOfSeq
  <2>3. sent[w].quotes \in 0 .. MaxUpdates + 2
    BY <2>2 DEF Update
  <2> QED BY <1>1, <1>10, <2>1, <2>3 DEF FirstText, TextIds
<1> QED BY <1>8, <1>12, <1>13 DEF first

\* How many updates were met is a number, and the same while nobody sends.
LEMMA MetTotal ==
  ASSUME PollerInv, NEW text
  PROVE  /\ NextFirst \in Nat \ {0}
         /\ Cardinality(Met(text, NextFirst)) \in Nat
         /\ UNCHANGED <<sent, NextFirst>> => Met(text, NextFirst)' = Met(text, NextFirst)
<1>1. Len(sent) \in Nat /\ confirmed \in Nat /\ offset \in Nat
  BY LenProperties DEF PollerInv
<1>2. NextFirst \in Nat \ {0}
  BY <1>1 DEF NextFirst, Confirmed
<1> HIDE DEF NextFirst
<1> QED
  BY <1>2, MetFinite DEF Met, Gives, Carries, Bare, HasText, HasMessage, FirstText

LEMMA PollDecodesRepeats ==
  ASSUME PollerInv, RepeatInv, PollDecodes
  PROVE  RepeatInv'
<1> DEFINE first == NextFirst
           text == TextAt(first)
<1>1. /\ poller.pc = "poll" /\ Decodable(first)
      /\ confirmed' = Confirmed /\ offset' = first + 1
      /\ poller'.pc = "handle" /\ poller'.text = text
      /\ UNCHANGED <<sent, done, restarts>>
  BY DEF PollDecodes, NextFirst
<1>2. Len(sent) \in Nat /\ confirmed \in Nat /\ offset \in Nat
  BY LenProperties DEF PollerInv
<1>3. NextFirst' = first + 1 /\ offset' <= confirmed' + 2
  BY <1>1, <1>2 DEF NextFirst, Confirmed
<1>4. first \in 1 .. Len(sent) /\ text \in TextIds /\ Gives(first, text)
  BY <1>1, DecodedText DEF RepeatInv
<1> HIDE DEF first, text
<1>5. ASSUME NEW u \in TextIds
      PROVE  (done[u] + UnderWay(u) <= restarts + Cardinality(Met(u, NextFirst)))'
  <2>1. done[u] \in Nat /\ restarts \in Nat
    BY DEF RepeatInv
  <2>2. UnderWay(u) = 0 /\ UnderWay(u)' = IF text = u THEN 1 ELSE 0
    BY <1>1 DEF UnderWay
  <2>3. Met(u, NextFirst)' = Met(u, first + 1)
    BY <1>1, <1>3 DEF Met, Gives, Carries, Bare, HasText, HasMessage, FirstText
  <2>4. /\ Cardinality(Met(u, first)) \in Nat /\ Cardinality(Met(u, first + 1)) \in Nat
        /\ Cardinality(Met(u, first)) <= Cardinality(Met(u, first + 1))
        /\ Gives(first, u) =>
             Cardinality(Met(u, first + 1)) = Cardinality(Met(u, first)) + 1
    <3>1. first \in Nat \ {0} /\ first <= Len(sent)
      BY <1>2, <1>4
    <3> QED BY <3>1, MetNext, MetFinite
  <2>5. done[u] <= restarts + Cardinality(Met(u, first))
    BY <2>1, <2>2 DEF RepeatInv, first
  <2>6. CASE text = u
    BY <1>1, <1>4, <2>1, <2>2, <2>3, <2>4, <2>5, <2>6
  <2>7. CASE text # u
    BY <1>1, <2>1, <2>2, <2>3, <2>4, <2>5, <2>7
  <2> QED BY <2>6, <2>7
<1> QED BY <1>1, <1>3, <1>4, <1>5 DEF RepeatInv

LEMMA CarriedOutRepeats ==
  ASSUME PollerInv, RepeatInv, poller.pc \in {"handle", "submitted"}, CarriedOut,
         UNCHANGED <<sent, confirmed, offset, restarts>>
  PROVE  RepeatInv'
<1> DEFINE text == poller.text
<1>1. text \in TextIds
  BY DEF RepeatInv
<1>2. done' = [done EXCEPT ![text] = @ + 1] /\ poller'.pc = "reply"
  BY DEF CarriedOut, PollerInv
<1>3. UNCHANGED NextFirst
  BY DEF NextFirst, Confirmed
<1> HIDE DEF text
<1>5. /\ done' \in [TextIds -> Nat] /\ done'[text] = done[text] + 1
      /\ \A u \in TextIds : u # text => done'[u] = done[u]
  BY <1>1, <1>2 DEF RepeatInv
<1>6. ASSUME NEW u \in TextIds
      PROVE  (done[u] + UnderWay(u) <= restarts + Cardinality(Met(u, NextFirst)))'
  <2>2. Met(u, NextFirst)' = Met(u, NextFirst) /\ Cardinality(Met(u, NextFirst)) \in Nat
    BY <1>3, MetTotal
  <2>3. UnderWay(u)' = 0 /\ UnderWay(u) = IF u = text THEN 1 ELSE 0
    BY <1>2 DEF UnderWay, text
  <2>4. done[u] + UnderWay(u) <= restarts + Cardinality(Met(u, NextFirst))
    BY DEF RepeatInv
  <2>5. done[u] \in Nat /\ restarts \in Nat
    BY DEF RepeatInv
  <2>6. done'[u] = done[u] + UnderWay(u)
    BY <1>5, <2>3, <2>5
  <2> QED BY <2>2, <2>3, <2>4, <2>5, <2>6
<1> QED BY <1>2, <1>5, <1>6 DEF RepeatInv

\* A step after which no text is under way that was not, and the poller stands
\* where it stood.
LEMMA StandingRepeats ==
  ASSUME PollerInv, RepeatInv, UNCHANGED <<sent, done, restarts, NextFirst>>,
         offset' <= confirmed' + 2,
         poller'.pc \in {"handle", "submitted"} =>
           poller.pc \in {"handle", "submitted"} /\ poller'.text = poller.text
  PROVE  RepeatInv'
<1>2. ASSUME NEW u \in TextIds
      PROVE  (done[u] + UnderWay(u) <= restarts + Cardinality(Met(u, NextFirst)))'
  <2>1. done[u] \in Nat /\ restarts \in Nat
    BY DEF RepeatInv
  <2>2. Met(u, NextFirst)' = Met(u, NextFirst) /\ Cardinality(Met(u, NextFirst)) \in Nat
    BY MetTotal
  <2>3. UnderWay(u) \in {0, 1} /\ UnderWay(u)' \in {0, 1} /\ UnderWay(u)' <= UnderWay(u)
    BY DEF UnderWay
  <2>4. done[u] + UnderWay(u) <= restarts + Cardinality(Met(u, NextFirst))
    BY DEF RepeatInv
  <2> QED BY <2>1, <2>2, <2>3, <2>4
<1> QED BY <1>2 DEF RepeatInv

LEMMA UserSendsRepeats ==
  ASSUME PollerInv, PollerInv', RepeatInv, UserSends
  PROVE  RepeatInv'
<1>1. PICK m \in Update : sent' = Append(sent, m)
  BY SentIsUpdate
<1>2. Len(sent) \in Nat /\ Len(sent') = Len(sent) + 1 /\ Len(sent) < MaxUpdates
  BY <1>1, LenProperties, AppendProperties, SentIsUpdate DEF PollerInv
<1>3. UNCHANGED <<confirmed, offset, poller, done, restarts, NextFirst>>
  BY DEF UserSends, NextFirst, Confirmed
<1>4. ASSUME NEW u \in TextIds
      PROVE  (done[u] + UnderWay(u) <= restarts + Cardinality(Met(u, NextFirst)))'
  <2>1. \A v \in 1 .. Len(sent) : /\ Carries(v, u)' <=> Carries(v, u)
                                  /\ Bare(v)' <=> Bare(v)
    BY <1>1, SentGrows DEF Carries, Bare, PollerInv
  <2>2. ASSUME NEW v \in 1 .. Len(sent), Gives(v, u) PROVE Gives(v, u)'
    <3>1. CASE Carries(v, u)
      BY <2>1, <3>1 DEF Gives
    <3>2. CASE ~Carries(v, u)
      <4>1. PICK w \in v + 1 .. Len(sent) : Carries(w, u)
        BY <2>2, <3>2 DEF Gives
      <4>2. Bare(v)'
        BY <2>1, <2>2, <3>2 DEF Gives
      <4>3. w \in 1 .. Len(sent) /\ w \in v + 1 .. Len(sent')
        BY <1>2
      <4> QED BY <2>1, <4>1, <4>2, <4>3 DEF Gives
    <3> QED BY <3>1, <3>2
  <2>3. Met(u, NextFirst) \subseteq Met(u, NextFirst)'
    BY <1>2, <1>3, <2>2 DEF Met
  <2>4. IsFiniteSet(Met(u, NextFirst)') /\ Cardinality(Met(u, NextFirst)') \in Nat
    <3>1. IsFiniteSet(1 .. Len(sent')) /\ Met(u, NextFirst)' \subseteq 1 .. Len(sent')
      BY <1>2, FS_Interval DEF Met
    <3> QED BY <3>1, FS_Subset, FS_CardinalityType
  <2>5. /\ Cardinality(Met(u, NextFirst)) <= Cardinality(Met(u, NextFirst)')
        /\ Cardinality(Met(u, NextFirst)) \in Nat
    BY <2>3, <2>4, FS_Subset, MetFinite
  <2>6. /\ done[u] \in Nat /\ restarts \in Nat /\ UnderWay(u) \in {0, 1}
        /\ done[u] + UnderWay(u) <= restarts + Cardinality(Met(u, NextFirst))
    BY DEF RepeatInv, UnderWay
  <2>7. (done[u] + UnderWay(u))' = done[u] + UnderWay(u)
    BY <1>3 DEF UnderWay
  <2> QED BY <1>3, <2>4, <2>5, <2>6, <2>7
<1>6. /\ Len(sent') <= MaxUpdates /\ offset' <= confirmed' + 2
      /\ poller'.pc \in {"handle", "submitted"} => poller'.text \in TextIds
  BY <1>2, <1>3, TelegramAssumption DEF RepeatInv
<1> QED BY <1>3, <1>4, <1>6 DEF RepeatInv

LEMMA RestartRepeats ==
  ASSUME PollerInv, RepeatInv, Restart
  PROVE  RepeatInv'
<1>1. Len(sent) \in Nat /\ confirmed \in Nat /\ offset \in Nat
  BY LenProperties DEF PollerInv
<1>2. /\ restarts' = restarts + 1 /\ offset' = 0 /\ poller'.pc = "poll"
      /\ UNCHANGED <<sent, confirmed, done>>
  BY DEF Restart, NoUpdate
<1>3. NextFirst' = confirmed + 1 /\ (NextFirst = NextFirst' \/ NextFirst = NextFirst' + 1)
  BY <1>1, <1>2 DEF NextFirst, Confirmed, RepeatInv
<1>4. ASSUME NEW u \in TextIds
      PROVE  (done[u] + UnderWay(u) <= restarts + Cardinality(Met(u, NextFirst)))'
  <2> DEFINE c == confirmed + 1
  <2>1. done[u] \in Nat /\ restarts \in Nat /\ c \in Nat \ {0}
    BY <1>1 DEF RepeatInv
  <2>2. Met(u, NextFirst)' = Met(u, c)
    BY <1>2, <1>3 DEF Met, Gives, Carries, Bare, HasText, HasMessage, FirstText
  <2>3. NextFirst = c \/ NextFirst = c + 1
    BY <1>3
  <2>4. UnderWay(u)' = 0 /\ UnderWay(u) \in {0, 1}
    BY <1>2 DEF UnderWay
  <2>5. done[u] + UnderWay(u) <= restarts + Cardinality(Met(u, NextFirst))
    BY DEF RepeatInv
  <2> HIDE DEF c
  <2>6. /\ Cardinality(Met(u, c)) \in Nat /\ Cardinality(Met(u, c + 1)) \in Nat
        /\ Cardinality(Met(u, c + 1)) <= Cardinality(Met(u, c)) + 1
    BY <2>1, MetNext, MetFinite
  <2> QED BY <1>2, <2>1, <2>2, <2>3, <2>4, <2>5, <2>6
<1>5. /\ restarts' \in Nat /\ offset' <= confirmed' + 2
      /\ poller'.pc \notin {"handle", "submitted"}
  BY <1>1, <1>2 DEF RepeatInv
<1> QED BY <1>2, <1>4, <1>5 DEF RepeatInv

LEMMA RepeatStep ==
  ASSUME PollerInv, PollerInv', RepeatInv, [Next]_vars
  PROVE  RepeatInv'
<1>1. Len(sent) \in Nat /\ confirmed \in Nat /\ offset \in Nat
  BY LenProperties DEF PollerInv
<1>2. CASE PollFails
  <2>1. /\ confirmed' = Confirmed /\ poller.pc = "poll"
        /\ UNCHANGED <<sent, offset, poller, done, restarts>>
    BY <1>2 DEF PollFails
  <2>2. UNCHANGED NextFirst /\ offset' <= confirmed' + 2
    BY <1>1, <2>1 DEF NextFirst, Confirmed, RepeatInv
  <2> QED BY <2>1, <2>2, StandingRepeats
<1>3. CASE HandleCommand \/ TakeAnswer
  BY <1>3, CarriedOutRepeats DEF HandleCommand, TakeAnswer
<1>4. CASE HandleText \/ Reply
  <2>1. /\ UNCHANGED <<sent, confirmed, offset, done, restarts>>
        /\ poller'.pc \in {"handle", "submitted"} =>
             poller.pc \in {"handle", "submitted"} /\ poller'.text = poller.text
    BY <1>4 DEF HandleText, Reply, NoUpdate, PollerInv
  <2>2. UNCHANGED NextFirst /\ offset' <= confirmed' + 2
    BY <2>1 DEF NextFirst, Confirmed, RepeatInv
  <2> QED BY <2>1, <2>2, StandingRepeats
<1>5. CASE UNCHANGED <<sent, confirmed, offset, poller, done, restarts>>
  <2>1. UNCHANGED NextFirst /\ offset' <= confirmed' + 2
    BY <1>5 DEF NextFirst, Confirmed, RepeatInv
  <2> QED BY <1>5, <2>1, StandingRepeats
<1> QED
  BY <1>2, <1>3, <1>4, <1>5, PollDecodesRepeats, UserSendsRepeats, RestartRepeats
  DEF Next, vars, OperatorNext, PollerNext

\* A text is carried out at most once for each update that may give it and once more
\* for each restart: for any number of updates of any kinds, any quoted texts, any
\* size of a response, lost responses and restarts.
THEOREM RepeatsCaused == Spec => []RepeatsHaveACause
<1>1. Init => PollerInv /\ RepeatInv
  <2> SUFFICES ASSUME Init PROVE PollerInv /\ RepeatInv
    OBVIOUS
  <2>1. sent \in Seq(Update) /\ Len(sent) = 0
    BY EmptySeq DEF Init
  <2>2. PollerInv
    BY <2>1 DEF Init, NoUpdate, PollerInv
  <2>3. \A text \in TextIds : Cardinality(Met(text, NextFirst)) \in Nat
    BY <2>2, MetFinite
  <2> QED BY <2>1, <2>2, <2>3, TelegramAssumption DEF Init, NoUpdate, RepeatInv, UnderWay
<1>2. PollerInv /\ RepeatInv => RepeatsHaveACause
  <2> SUFFICES ASSUME PollerInv, RepeatInv, NEW text \in TextIds
               PROVE  done[text] <= restarts + Cardinality({v \in 1 .. Len(sent) : Gives(v, text)})
    BY DEF RepeatsHaveACause
  <2> DEFINE G == {v \in 1 .. Len(sent) : Gives(v, text)}
  <2>1. IsFiniteSet(G) /\ Cardinality(G) \in Nat
    <3>1. Len(sent) \in Nat
      BY LenProperties DEF PollerInv
    <3>2. IsFiniteSet(1 .. Len(sent)) /\ G \subseteq 1 .. Len(sent)
      BY <3>1, FS_Interval
    <3> QED BY <3>2, FS_Subset, FS_CardinalityType
  <2>2. Met(text, NextFirst) \subseteq G
    BY DEF Met
  <2> HIDE DEF G
  <2>3. Cardinality(Met(text, NextFirst)) <= Cardinality(G) /\ Cardinality(Met(text, NextFirst)) \in Nat
    BY <2>1, <2>2, FS_Subset, MetFinite
  <2>4. /\ done[text] \in Nat /\ restarts \in Nat /\ UnderWay(text) \in {0, 1}
        /\ done[text] + UnderWay(text) <= restarts + Cardinality(Met(text, NextFirst))
    BY DEF RepeatInv, UnderWay
  <2>5. done[text] <= restarts + Cardinality(G)
    BY <2>1, <2>3, <2>4
  <2> QED BY <2>5 DEF G
<1>3. Spec => Init /\ [][Next]_vars
  BY PTL DEF Spec
<1> QED BY <1>1, <1>2, <1>3, PollerStepKeepsInv, RepeatStep, PTL
=============================================================================
