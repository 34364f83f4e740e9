--------------------------- MODULE BehaviorStore ----------------------------
(***************************************************************************)
(* Saved behaviors (behavior_runtime.c) and their start at boot            *)
(* (runtime.c).  A behavior is kept in a file and, on the device, a copy   *)
(* in NVS; an index of all behaviors and one of those that start at boot   *)
(* are strings in NVS, read, changed and written back without a lock.  The *)
(* admin server and the agent's tools register, remove, start and stop;    *)
(* some seconds after the boot a task of its own starts what is indexed.   *)
(* A step is one call that touches storage or a task; power may fail       *)
(* between any two.                                                        *)
(*                                                                         *)
(* Abstractions.  A spec is known by its version and whether it starts at  *)
(* boot.  A task is running until it ends or is asked to stop (see         *)
(* TaskRuntime); there is room for every task.  The indexes have room for  *)
(* the ids, a spec fits its buffer, and no two ids share an NVS key.       *)
(***************************************************************************)
EXTENDS Naturals, FiniteSets

CONSTANTS
  Clients,       \* the threads that call the runtime
  Ids,
  Specs,
  AutoSpecs,     \* the specs with autostart set
  NoSpec,        \* nothing is stored
  TornSpec,      \* a file that was truncated and not written
  Unknown,       \* no client may rely on what is stored
  MaxCalls,      \* bound: calls in a behaviour
  MaxLapses,     \* bound: storage calls that fail
  MaxRestarts    \* bound: restarts

ASSUME BehaviorAssumption ==
  /\ AutoSpecs \subseteq Specs
  /\ {NoSpec, TornSpec, Unknown} \cap (Specs \cup Ids) = {}
  /\ NoSpec \notin {TornSpec, Unknown}
  /\ MaxCalls \in Nat /\ MaxLapses \in Nat /\ MaxRestarts \in Nat

VARIABLES
  specFile,  \* id -> behaviors/<id>.json
  specNvs,   \* id -> its copy in NVS
  index,     \* "all" and "auto": the ids in the two indexes
  running,   \* the ids of the running tasks
  client,    \* client -> the call it is in
  boot,      \* the autostart task
  told,      \* id -> what the last call on it said is stored (history)
  used       \* the calls, failures and restarts so far

storage == <<specFile, specNvs, index>>
behaviorVars == <<specFile, specNvs, index, running, client, boot, told, used>>

NoCall == [pc |-> "idle"]
Asleep == [pc |-> "asleep", todo |-> {}, active |-> {}, id |-> NoSpec,
           ran |-> {}, started |-> {}, stirred |-> {}, unread |-> {}]

\* Unless it overlapped with another, a call that succeeded is relied on, with
\* the number of its failures it did not report. A call on another id that cannot
\* read an index writes it back without the ids it had: they may be dropped from it.
Relied(s, n) == [spec |-> s, lapses |-> n, dropped |-> {}]

BehaviorInit ==
  /\ specFile = [id \in Ids |-> NoSpec]
  /\ specNvs = [id \in Ids |-> NoSpec]
  /\ index = [all |-> {}, auto |-> {}]
  /\ running = {}
  /\ client = [c \in Clients |-> NoCall]
  /\ boot = Asleep
  /\ told = [id \in Ids |-> Relied(NoSpec, 0)]
  /\ used = [calls |-> 0, lapses |-> 0, restarts |-> 0]

To(c, pc) == client' = [client EXCEPT ![c].pc = pc]
Fault == used.lapses < MaxLapses /\ used' = [used EXCEPT !.lapses = @ + 1]

\* espclaw_behavior_load: the copy in NVS, or the file where there is none. A copy
\* that is there and cannot be read is taken for none.
Loaded(id) == IF specNvs[id] # NoSpec THEN specNvs[id] ELSE specFile[id]
Read(id, s) ==
  \/ s = Loaded(id) /\ UNCHANGED used
  \/ s \in {specFile[id], NoSpec} /\ Fault

\* A call starts. Two calls that store disturb each other whatever their ids,
\* a call that starts a task disturbs one that stores the same id.
Stores(k) == k.pc # "idle" /\ k.op \in {"register", "remove"}
Starts(k, id) == k.pc # "idle" /\ k.op = "start" /\ k.id = id
Disturbed(k, op, id) ==
  IF op = "start" THEN Stores(k) /\ k.id = id ELSE Stores(k)
Begin(c, op, id, s, pc) ==
  LET others == Clients \ {c}
      alone == /\ op # "start"
               /\ \A d \in others : ~Stores(client[d]) /\ ~Starts(client[d], id)
               /\ boot.id # id
      call == [pc |-> pc, op |-> op, id |-> id, spec |-> s, csv |-> {},
               alone |-> alone, lapses |-> 0] IN
  /\ client[c].pc = "idle"
  /\ client' = [d \in Clients |->
                  IF d = c THEN call
                  ELSE IF Disturbed(client[d], op, id) THEN [client[d] EXCEPT !.alone = FALSE]
                  ELSE client[d]]
  /\ IF op = "start" THEN UNCHANGED <<told, boot>>
     ELSE /\ told' = [told EXCEPT ![id] = Relied(Unknown, 0)]
          /\ boot' = [boot EXCEPT !.stirred = IF boot.pc \in {"asleep", "skipped"} THEN {} ELSE @ \cup {id}]

Called == used.calls < MaxCalls /\ used' = [used EXCEPT !.calls = @ + 1]

\* A call that stores returns an error: nothing is known. One that succeeds tells
\* what is stored, if it was alone.
Failed(c) == To(c, "idle") /\ UNCHANGED told
Succeeded(c, s) ==
  /\ client' = [client EXCEPT ![c] = NoCall]
  /\ told' = IF client[c].alone
               THEN [told EXCEPT ![client[c].id] = Relied(s, client[c].lapses)]
               ELSE told
-----------------------------------------------------------------------------
(* espclaw_behavior_register                                               *)

\* fopen truncates the file.
RegisterOpen(c) ==
  \E id \in Ids, s \in Specs :
    /\ Called
    /\ Begin(c, "register", id, s, "write")
    /\ specFile' = [specFile EXCEPT ![id] = TornSpec]
    /\ UNCHANGED <<specNvs, index, running>>

\* The result of fputs and fclose is not looked at.
RegisterWrite(c) ==
  /\ client[c].pc = "write"
  /\ To(c, "store")
  /\ \/ specFile' = [specFile EXCEPT ![client[c].id] = client[c].spec] /\ UNCHANGED used
     \/ Fault /\ UNCHANGED specFile
  /\ UNCHANGED <<specNvs, index, running, boot, told>>

\* Mutant of RegisterStore: a failure to store the copy is ignored.
RegisterStore_Ignores(c) ==
  /\ client[c].pc = "store"
  /\ \/ /\ specNvs' = [specNvs EXCEPT ![client[c].id] = client[c].spec] /\ UNCHANGED used
     \/ Fault /\ UNCHANGED specNvs
  /\ To(c, "loadAll")
  /\ UNCHANGED <<specFile, index, running, boot, told>>

RegisterStore(c) ==
  /\ client[c].pc = "store"
  /\ \/ /\ specNvs' = [specNvs EXCEPT ![client[c].id] = client[c].spec]
        /\ To(c, "loadAll")
        /\ UNCHANGED <<told, used>>
     \/ Fault /\ Failed(c) /\ UNCHANGED specNvs
  /\ UNCHANGED <<specFile, index, running, boot>>
-----------------------------------------------------------------------------
(* sync_behavior_index, for the index of all and then for that of autostart *)

\* behavior_index_load answers an index it cannot open or read as an empty one.
LoadIndex(c) ==
  LET which == IF client[c].pc = "loadAll" THEN "all" ELSE "auto"
      Got(csv) == client' = [client EXCEPT ![c].pc = IF @ = "loadAll" THEN "saveAll" ELSE "saveAuto",
                                           ![c].csv = csv] IN
  /\ client[c].pc \in {"loadAll", "loadAuto"}
  /\ \/ Got(index[which]) /\ UNCHANGED <<told, used>>
     \/ /\ Fault
        /\ Got({})
        /\ told' = [x \in Ids |-> IF x = client[c].id THEN told[x]
                                 ELSE [told[x] EXCEPT !.dropped = @ \cup {which}]]
  /\ UNCHANGED <<specFile, specNvs, index, running, boot>>

\* Whether the id belongs in the index.
Belongs(k) == k.op = "register" /\ (k.pc = "saveAll" \/ k.spec \in AutoSpecs)

AfterIndex(k) ==
  IF k.pc = "saveAll" THEN "loadAuto" ELSE IF k.op = "remove" THEN "erase" ELSE "answer"

\* Mutant of SaveIndex: an id is added to the index and never taken out.
SaveIndex_NeverRemoves(c) ==
  LET k == client[c]
      which == IF k.pc = "saveAll" THEN "all" ELSE "auto" IN
  /\ k.pc \in {"saveAll", "saveAuto"}
  /\ index' = [index EXCEPT ![which] = IF Belongs(k) THEN k.csv \cup {k.id} ELSE k.csv]
  /\ client' = [client EXCEPT ![c].pc = AfterIndex(k), ![c].csv = {}]
  /\ UNCHANGED <<specFile, specNvs, running, boot, told, used>>

SaveIndex(c) ==
  LET k == client[c]
      which == IF k.pc = "saveAll" THEN "all" ELSE "auto" IN
  /\ k.pc \in {"saveAll", "saveAuto"}
  /\ index' = [index EXCEPT ![which] = IF Belongs(k) THEN k.csv \cup {k.id} ELSE k.csv \ {k.id}]
  /\ client' = [client EXCEPT ![c].pc = AfterIndex(k), ![c].csv = {}]
  /\ UNCHANGED <<specFile, specNvs, running, boot, told, used>>

\* NVS does not take the string: nobody looks at the result. If it cannot be
\* opened, a registration fails and a removal goes on.
SaveIndexFails(c) ==
  LET k == client[c] IN
  /\ k.pc \in {"saveAll", "saveAuto"}
  /\ Fault
  /\ \/ /\ client' = [client EXCEPT ![c].pc = AfterIndex(k), ![c].csv = {},
                                 ![c].lapses = @ + 1]
        /\ UNCHANGED told
     \/ k.op = "register" /\ Failed(c)
  /\ UNCHANGED <<specFile, specNvs, index, running, boot>>

RegisterAnswer(c) ==
  /\ client[c].pc = "answer"
  /\ Succeeded(c, client[c].spec)
  /\ UNCHANGED <<specFile, specNvs, index, running, boot, used>>
-----------------------------------------------------------------------------
(* espclaw_behavior_remove                                                 *)

RemoveStop(c) ==
  \E id \in Ids :
    /\ Called
    /\ Begin(c, "remove", id, NoSpec, "loadAll")
    /\ running' = running \ {id}
    /\ UNCHANGED storage

\* Mutant of EraseSpec: the copy in NVS is left.
EraseSpec_Keeps(c) ==
  /\ client[c].pc = "erase"
  /\ To(c, "unlink")
  /\ UNCHANGED <<specFile, specNvs, index, running, boot, told, used>>

EraseSpec(c) ==
  /\ client[c].pc = "erase"
  /\ \/ /\ specNvs' = [specNvs EXCEPT ![client[c].id] = NoSpec]
        /\ To(c, "unlink")
        /\ UNCHANGED used
     \/ /\ Fault
        /\ client' = [client EXCEPT ![c].pc = "unlink", ![c].lapses = @ + 1]
        /\ UNCHANGED specNvs
  /\ UNCHANGED <<specFile, index, running, boot, told>>

Unlink(c) ==
  /\ client[c].pc = "unlink"
  /\ specFile[client[c].id] # NoSpec
  /\ specFile' = [specFile EXCEPT ![client[c].id] = NoSpec]
  /\ Succeeded(c, NoSpec)
  /\ UNCHANGED <<specNvs, index, running, boot, used>>

UnlinkFails(c) ==
  /\ client[c].pc = "unlink"
  /\ IF specFile[client[c].id] = NoSpec THEN UNCHANGED used ELSE Fault
  /\ Failed(c)
  /\ UNCHANGED <<specFile, specNvs, index, running, boot>>
-----------------------------------------------------------------------------
(* espclaw_behavior_start and espclaw_behavior_stop                        *)

\* The spec is loaded, then the task started, unless it runs already.
StartLoad(c) ==
  \E id \in Ids, s \in Specs :
    /\ \/ s = Loaded(id) /\ Called
       \/ /\ s = specFile[id]
          /\ used.calls < MaxCalls /\ used.lapses < MaxLapses
          /\ used' = [used EXCEPT !.calls = @ + 1, !.lapses = @ + 1]
    /\ Begin(c, "start", id, s, "start")
    /\ UNCHANGED <<specFile, specNvs, index, running>>

StartTask(c) ==
  /\ client[c].pc = "start"
  /\ running' = running \cup {client[c].id}
  /\ client' = [client EXCEPT ![c] = NoCall]
  /\ UNCHANGED <<specFile, specNvs, index, boot, told, used>>

\* A task is asked to stop, or ends.
TaskEnds ==
  /\ \E id \in running : running' = running \ {id}
  /\ UNCHANGED <<specFile, specNvs, index, client, boot, told, used>>
-----------------------------------------------------------------------------
(* espclaw_behavior_start_autostart, in a task of its own after the boot    *)

InFlight == {client[c].id : c \in {d \in Clients : Stores(client[d])}}

\* An index that cannot be read names nothing to start.
AutostartIndex ==
  /\ boot.pc = "asleep"
  /\ \/ /\ boot' = [boot EXCEPT !.pc = "tasks", !.todo = index.auto, !.stirred = InFlight]
        /\ UNCHANGED used
     \/ /\ Fault
        /\ boot' = [boot EXCEPT !.pc = "tasks", !.unread = index.auto, !.stirred = InFlight]
  /\ UNCHANGED <<specFile, specNvs, index, running, client, told>>

\* One snapshot of the tasks serves the whole loop.
AutostartTasks ==
  /\ boot.pc = "tasks"
  /\ boot' = [boot EXCEPT !.pc = "next", !.active = running \cap boot.todo]
  /\ UNCHANGED <<specFile, specNvs, index, running, client, told, used>>

\* The autostart task begins to start id: it disturbs a call that stores it.
Touch(id) ==
  client' = [c \in Clients |->
               IF Stores(client[c]) /\ client[c].id = id
                 THEN [client[c] EXCEPT !.alone = FALSE] ELSE client[c]]

\* What is stored of id is not what was read.
Missed(id, s) == IF s = Loaded(id) THEN {} ELSE {id}

\* Mutant of AutostartNext: the first behavior that cannot be started ends the loop.
AutostartNext_Stops ==
  /\ boot.pc = "next"
  /\ \E id \in boot.todo :
       \/ /\ id \in boot.active
          /\ boot' = [boot EXCEPT !.todo = @ \ {id}, !.ran = @ \cup {id}]
          /\ UNCHANGED <<client, used>>
       \/ \E s \in {Loaded(id), specFile[id], NoSpec} :
            /\ id \notin boot.active
            /\ Read(id, s)
            /\ \/ /\ s \notin AutoSpecs
                  /\ boot' = [boot EXCEPT !.todo = {}, !.unread = @ \cup Missed(id, s)]
                  /\ UNCHANGED client
               \/ /\ s \in AutoSpecs
                  /\ boot' = [boot EXCEPT !.pc = "load", !.id = id, !.todo = @ \ {id}]
                  /\ Touch(id)
  /\ UNCHANGED <<specFile, specNvs, index, running, told>>

AutostartNext ==
  /\ boot.pc = "next"
  /\ \E id \in boot.todo :
       \/ /\ id \in boot.active
          /\ boot' = [boot EXCEPT !.todo = @ \ {id}, !.ran = @ \cup {id}]
          /\ UNCHANGED <<client, used>>
       \/ \E s \in {Loaded(id), specFile[id], NoSpec} :
            /\ id \notin boot.active
            /\ Read(id, s)
            /\ \/ /\ s \notin AutoSpecs
                  /\ boot' = [boot EXCEPT !.todo = @ \ {id}, !.unread = @ \cup Missed(id, s)]
                  /\ UNCHANGED client
               \/ /\ s \in AutoSpecs
                  /\ boot' = [boot EXCEPT !.pc = "load", !.id = id, !.todo = @ \ {id}]
                  /\ Touch(id)
  /\ UNCHANGED <<specFile, specNvs, index, running, told>>

\* espclaw_behavior_start loads the spec again.
AutostartLoad ==
  /\ boot.pc = "load"
  /\ \E s \in {Loaded(boot.id), specFile[boot.id], NoSpec} :
       /\ Read(boot.id, s)
       /\ boot' = IF s \in Specs THEN [boot EXCEPT !.pc = "start"]
                  ELSE [boot EXCEPT !.pc = "next", !.id = NoSpec, !.unread = @ \cup Missed(boot.id, s)]
  /\ UNCHANGED <<specFile, specNvs, index, running, client, told>>

AutostartStart ==
  /\ boot.pc = "start"
  /\ running' = running \cup {boot.id}
  /\ boot' = [boot EXCEPT !.pc = "next", !.id = NoSpec, !.ran = @ \cup {boot.id},
                          !.started = IF boot.id \in running THEN @ ELSE @ \cup {boot.id}]
  /\ UNCHANGED <<specFile, specNvs, index, client, told, used>>

AutostartDone ==
  /\ boot.pc = "next" /\ boot.todo = {}
  /\ boot' = [boot EXCEPT !.pc = "done", !.active = {}]
  /\ UNCHANGED <<specFile, specNvs, index, running, client, told, used>>

\* The device restarts in the middle of anything. After a panic, a watchdog or a
\* brownout nothing is started automatically.
Restart ==
  /\ used.restarts < MaxRestarts
  /\ used' = [used EXCEPT !.restarts = @ + 1]
  /\ running' = {}
  /\ client' = [c \in Clients |-> NoCall]
  /\ \E pc \in {"asleep", "skipped"} : boot' = [Asleep EXCEPT !.pc = pc]
  /\ UNCHANGED <<specFile, specNvs, index, told>>

BehaviorNext ==
  \/ \E c \in Clients :
       \/ RegisterOpen(c) \/ RegisterWrite(c) \/ RegisterStore(c) \/ RegisterAnswer(c)
       \/ LoadIndex(c) \/ SaveIndex(c) \/ SaveIndexFails(c)
       \/ RemoveStop(c) \/ EraseSpec(c) \/ Unlink(c) \/ UnlinkFails(c)
       \/ StartLoad(c) \/ StartTask(c)
  \/ TaskEnds
  \/ AutostartIndex \/ AutostartTasks \/ AutostartNext \/ AutostartLoad
  \/ AutostartStart \/ AutostartDone
  \/ Restart

BehaviorSpec == BehaviorInit /\ [][BehaviorNext]_behaviorVars
-----------------------------------------------------------------------------
Known(id) == told[id].spec # Unknown /\ told[id].lapses = 0

\* What a call that was not overlapped by another said is stored, is: the behavior
\* loads as it was saved, it is in an index only if it belongs there, and it is in
\* each it belongs in, until the next call on the same id, whatever calls on other
\* ids, restarts and failed writes come between. A registration has a spare copy: it
\* holds also when the file was torn. What may lose an id from an index is a later
\* call on another that cannot read the index: it writes it back without the rest.
AckedIsStored ==
  \A id \in Ids : Known(id) =>
    /\ Loaded(id) = told[id].spec
    /\ id \in index.all => told[id].spec \in Specs
    /\ id \in index.auto => told[id].spec \in AutoSpecs
    /\ "all" \notin told[id].dropped /\ told[id].spec \in Specs => id \in index.all
    /\ "auto" \notin told[id].dropped /\ told[id].spec \in AutoSpecs => id \in index.auto

\* A boot that starts behaviors starts each of those saved to be started, also when
\* an index names others that cannot be loaded, and no other; calls that store come
\* between the boot and its end for other ids. It misses only what was dropped from
\* the index, or what it cannot read: the index, or a copy whose file was torn or
\* cannot be read either.
BootStartsSaved ==
  boot.pc = "done" =>
    \A id \in Ids \ boot.stirred : Known(id) =>
      /\ told[id].spec \in AutoSpecs /\ "auto" \notin told[id].dropped /\ id \notin boot.unread =>
           id \in boot.ran
      /\ id \in boot.started => told[id].spec \in AutoSpecs

\* A removed behavior is not started at boot although one step of its removal
\* failed and the caller was not told. It does not run if none failed, whatever
\* started it before: the boot or a client.
RemovedStaysDown ==
  \A id \in Ids : told[id].spec = NoSpec =>
    /\ told[id].lapses < 2 /\ id \notin boot.stirred => id \notin boot.started
    /\ Known(id) => id \notin running
=============================================================================
