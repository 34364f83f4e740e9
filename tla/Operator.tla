------------------------------ MODULE Operator ------------------------------
(***************************************************************************)
(* The operator worker of runtime.c: the console, the Telegram poller and  *)
(* the benchmark handler give it one request at a time, through one        *)
(* record, a mutex and the notification values of FreeRTOS tasks.  An      *)
(* answer is known by the request it is for, <<requester, number>>.        *)
(***************************************************************************)
EXTENDS Naturals

CONSTANTS
  Requesters,    \* the tasks that submit requests
  MaxRequests,   \* bound on the requests of one of them between restarts
  Worker,        \* operator_worker_task
  None

ASSUME OperatorAssumption ==
  /\ MaxRequests \in Nat
  /\ Worker \notin Requesters
  /\ None \notin Requesters
  /\ None \notin Requesters \X Nat

VARIABLES
  up,        \* s_operator_worker_started
  mutex,     \* the holder of s_operator_request_mutex, or None
  request,   \* s_operator_request: whose it is, what it asks, its status
  notified,  \* the notification values
  worker,    \* where the worker is, and its local requester
  client     \* where a requester is, its result buffer, what it was told

opVars == <<up, mutex, request, notified, worker, client>>

Works == Requesters \X (1 .. MaxRequests)

\* outcome is history: the status of the requester's own last request.
Idle == [pc |-> "idle", n |-> 0, result |-> None, outcome |-> FALSE, told |-> FALSE]

OperatorInit ==
  /\ up = FALSE
  /\ mutex = None
  /\ request = [requester |-> None, work |-> None, ok |-> TRUE]
  /\ notified = [t \in Requesters \cup {Worker} |-> 0]
  /\ worker = [pc |-> "wait", requester |-> None]
  /\ client = [r \in Requesters |-> Idle]

\* maybe_start_operator_worker.
StartWorker ==
  /\ ~up
  /\ up' = TRUE
  /\ UNCHANGED <<mutex, request, notified, worker, client>>

\* A requester clears its result and calls submit_operator_request.
Submit(r) ==
  /\ client[r].pc = "idle"
  /\ client[r].n < MaxRequests
  /\ client' = [client EXCEPT ![r].n = @ + 1, ![r].result = None, ![r].outcome = FALSE,
                              ![r].pc = IF up THEN "lock" ELSE "idle", ![r].told = FALSE]
  /\ UNCHANGED <<up, mutex, request, notified, worker>>

\* Mutants of TakeMutex: the mutex is not waited for; the worker is not told.
TakeMutex_NoWait(r) ==
  /\ client[r].pc = "lock"
  /\ mutex' = r
  /\ request' = [requester |-> r, work |-> <<r, client[r].n>>, ok |-> TRUE]
  /\ notified' = [notified EXCEPT ![Worker] = @ + 1]
  /\ client' = [client EXCEPT ![r].pc = "wait"]
  /\ UNCHANGED <<up, worker>>

\* It takes the mutex, fills the record, whose status memset makes 0, and
\* notifies the worker.
TakeMutex(r) ==
  /\ client[r].pc = "lock"
  /\ mutex = None
  /\ mutex' = r
  /\ request' = [requester |-> r, work |-> <<r, client[r].n>>, ok |-> TRUE]
  /\ notified' = [notified EXCEPT ![Worker] = @ + 1]
  /\ client' = [client EXCEPT ![r].pc = "wait"]
  /\ UNCHANGED <<up, worker>>

\* ulTaskNotifyTake of the worker, which clears the value.
WorkerTake ==
  /\ up
  /\ worker.pc = "wait"
  /\ notified[Worker] > 0
  /\ notified' = [notified EXCEPT ![Worker] = 0]
  /\ worker' = [pc |-> "run", requester |-> request.requester]
  /\ UNCHANGED <<up, mutex, request, client>>

\* execute_operator_request, which writes the result buffer of the request, and
\* the store of its status; kind is cleared last.
WorkerRun ==
  /\ worker.pc = "run"
  /\ \E ok \in BOOLEAN :
       IF request.work = None
       THEN /\ request' = [request EXCEPT !.ok = FALSE]
            /\ UNCHANGED client
       ELSE /\ request' = [request EXCEPT !.ok = ok, !.work = None]
            /\ client' = [client EXCEPT ![request.requester].result = request.work,
                                        ![request.requester].outcome = ok]
  /\ worker' = [worker EXCEPT !.pc = "notify"]
  /\ UNCHANGED <<up, mutex, notified>>

WorkerNotify ==
  /\ worker.pc = "notify"
  /\ notified' = [notified EXCEPT ![worker.requester] = @ + 1]
  /\ worker' = [pc |-> "wait", requester |-> None]
  /\ UNCHANGED <<up, mutex, request, client>>

\* ulTaskNotifyTake of the requester.
Wake(r) ==
  /\ client[r].pc = "wait"
  /\ notified[r] > 0
  /\ notified' = [notified EXCEPT ![r] = 0]
  /\ client' = [client EXCEPT ![r].pc = "give"]
  /\ UNCHANGED <<up, mutex, request, worker>>

GiveMutex(r) ==
  /\ client[r].pc = "give"
  /\ mutex' = None
  /\ client' = [client EXCEPT ![r].pc = "read"]
  /\ UNCHANGED <<up, request, notified, worker>>

\* The status is read after the mutex was given back.
Return(r) ==
  /\ client[r].pc = "read"
  /\ client' = [client EXCEPT ![r].pc = "idle", ![r].told = request.ok]
  /\ UNCHANGED <<up, mutex, request, notified, worker>>

Serve == WorkerTake \/ WorkerRun \/ WorkerNotify
Proceed(r) == TakeMutex(r) \/ Wake(r) \/ GiveMutex(r) \/ Return(r)
-----------------------------------------------------------------------------
OperatorTypeOK ==
  /\ up \in BOOLEAN
  /\ mutex \in Requesters \cup {None}
  /\ request \in [requester: Requesters \cup {None}, work: Works \cup {None}, ok: BOOLEAN]
  /\ notified \in [Requesters \cup {Worker} -> 0 .. 1]
  /\ worker \in [pc: {"wait", "run", "notify"}, requester: Requesters \cup {None}]
  /\ client \in [Requesters -> [pc: {"idle", "lock", "wait", "give", "read"}, n: 0 .. MaxRequests,
                                result: Works \cup {None}, outcome: BOOLEAN, told: BOOLEAN]]

\* Whoever leaves the wait of submit_operator_request finds the answer to its own
\* request in its result buffer, and in the record its own status, unless another
\* request has been filled in since it gave the mutex back: then it may be told
\* the other's.
AnswerIsOwn ==
  \A r \in Requesters : client[r].pc \in {"give", "read"} =>
    /\ client[r].result = <<r, client[r].n>>
    /\ request.requester = r => request.ok = client[r].outcome
    /\ client[r].pc = "give" => request.requester = r
=============================================================================
