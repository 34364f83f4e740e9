# ESPClaw in TLA+

ESPClaw is firmware for ESP32 boards that lets a language model operate the board: an agent loop talks to a model
provider and executes its tool calls, Lua apps run as background tasks and behaviors, and an operator reaches the device
through an admin web server, a serial console and a Telegram bot. This directory models the parts of it whose
correctness depends on the order in which threads, callbacks, file operations and network answers happen, checks them
with TLC on small instances and proves the central facts for all instances with TLAPS.

All definitions are translated from `src/firmware/components/espclaw_core/src/*.c` (the copies under `src/src/*.cpp` are
the Arduino build of the same files). `PROJECT.json` maps every definition to the lines it stands for.

## The system

| Component | State it keeps | Operations | What is hard about it |
|---|---|---|---|
| task runtime (`task_runtime.c`, `control_loop.c`) | eight slots: status, ring of four pending payloads, worker handle | start, stop, emit event, shutdown, worker loop | searches without a lock, slots reused while an old worker is still leaving, wakeups |
| event watches (`event_watch.c`) | eight watches, one polling thread | add, remove, poll UART and ADC, emit | a watch is configured in two critical sections; removal while it is being sampled |
| behaviors (`behavior_runtime.c`) | one file per behavior, two index files, NVS copies | register, remove, start, stop, autostart at boot | several files per operation, crash between them, read-modify-write without a lock |
| operator worker (`runtime.c`) | one request record, a request mutex, a worker task | submit (console, Telegram, benchmark), execute | the result is read after the mutex is given back |
| Telegram poller (`runtime.c`, `telegram_protocol.c`) | next update offset, per-chat contexts | poll, dispatch, reply | crash between processing and acknowledging, updates that cannot be decoded |
| firmware update (`ota_manager.c`, `ota_state.c`, `admin_server.c`) | upload handle, status, slot states of the boot loader | begin, write, finish, abort, confirm, restart | reboots, rollback, failing steps that keep an upload open, delayed callbacks |
| blob store (`workspace.c`) | staging data, staging metadata, target, committed metadata | begin, append, commit, status | crash between file steps |
| components (`component_runtime.c`) | manifest, source and library file per component | install (from text, file, blob, URL, manifest), remove | partial installs, shared temporary files |
| agent loop (`agent_loop.c`) | locals of a turn: iteration, retry counters, tools called and succeeded, items of earlier rounds | run: up to eight rounds of provider call and tools | four retry budgets charged from two places, early exits, requests rebuilt from a shared transcript |
| session store (`session_store.c`) | one append-only transcript per session | append, read back from its beginning | a growing file behind a buffer of fixed size, turns that share it |
| log buffer (`log_buffer.c`) | byte ring with a count of dropped bytes | append, copy tail, render | index arithmetic, a report put together from several critical sections |
| apps and Lua (`app_runtime.c`) | app files, manifest cache, Lua VMs | install, remove, run, boot apps | Lua is external |
| web and console front ends (`admin_server.c`, `admin_api.c`, `admin_ops.c`, `admin_ui.c`, `console_chat.c`) | request-scoped | HTTP routes, slash commands | mostly rendering and dispatch |
| context documents (`context_runtime.c`) | files in chunks | load, chunk, search | pure functions of a file |
| boot and Wi-Fi (`runtime.c`, `provisioning.c`, `main.c`) | static flags, saved credentials, driver mode, event queue | boot, event handlers, join, factory reset, BLE provisioning | callers and the event task change mode and flags between each other's calls; what is saved decides the next boot |
| board, hardware, storage, auth (`board_config.c`, `hardware.c`, `storage.c`, `auth_store.c`, ...) | configuration in NVS and files | load, save, drive peripherals | mostly I/O |

The front ends call the agent loop, directly (HTTP) or through the operator worker (console, Telegram). The agent loop's
tools and the Lua bindings call the task runtime, the event watches, the behaviors, the blob store and the components.
Event watches and Lua handlers emit events into the task runtime; behaviors start tasks in it. The firmware update is
driven by the admin server and by delayed timers.

## What makes each component correct

- Task runtime: a slot belongs to one task at a time, as long as no two starts pick it at once; events are handled in
  order, and only overflow loses one; no wakeup is lost, so a stop ends its task; a slot is given back when its task ends.
- Firmware update: the status an operator sees is true; there is always an image to fall back to; an image is confirmed
  only when it can be updated again, and then is; an upload that failed does not block the next one.
- Blob store: what is staged is in order and acknowledged bytes stay, through power failures; a commit keeps every byte.
- Agent loop: every turn ends; each request shows the model what it needs; an answer that ignores what was asked for is
  not accepted before the retries are used up.
- Event watches: an added watch stays in its slot; an event is a crossing, and a crossing is heard.
- Behaviors and apps: what was said to be saved is found again after a restart, and a boot starts that and nothing else.
- Operator worker: a requester gets the answer to its own request.
- Telegram: no message is forgotten before what the poller takes for its text was carried out; a text is repeated only
  for a known cause; what blocks the updates behind it is known.
- Components: what was said to be installed is whole, and so is everything it depends on, but for what a write lost
  unnoticed.
- Log buffer: it holds the newest bytes and counts the bytes it lost.
- Wi-Fi: a device without credentials can be onboarded; its status is true; it returns to its network, unless the driver
  refuses to dial.

## The modules

| Module | Stands for | Kind |
|---|---|---|
| `PendingQueue` | what a slot's ring promises: a bounded queue whose newest entry is replaced when full | abstract specification |
| `PendingRing` | the ring itself, `head`, `tail`, `count` and cells (`task_runtime.c`) | refines `PendingQueue` |
| `TaskRegistry` | what callers of the task runtime rely on: running tasks, stop requests, queues | abstract specification |
| `TaskRuntime` | slots, workers, handles, callers (`task_runtime.c`) | composes `PendingQueue`, refines `TaskRegistry` |
| `EventWatch` | the slots of the watches, their two-step additions, the polling worker (`event_watch.c`) | component |
| `BehaviorStore` | file, NVS copy and indexes of behaviors, the autostart task (`behavior_runtime.c`, `runtime.c`) | component |
| `AppStore` | manifest, source and cached manifest of apps, the boot run (`app_runtime.c`) | component |
| `ComponentStore` | the three files of a component, installs with dependencies (`component_runtime.c`) | component |
| `BlobStore` | begin, append and commit with their HTTP handlers (`workspace.c`, `admin_server.c`) | component |
| `LogBuffer` | the byte ring of the log and the report made of it (`log_buffer.c`) | component |
| `Operator` | the request record between tasks and the operator worker (`runtime.c`) | component |
| `Telegram` | the polling loop and the server of updates (`runtime.c`, `telegram_protocol.c`) | extends `Operator` by its most important client |
| `AgentLoop` | the turns of one session and its transcript (`agent_loop.c`, `session_store.c`) | component |
| `OtaManager` | upload handler, status, slots of the boot loader, delayed tasks, boots (`ota_manager.c`, `admin_server.c`) | component with its environment |
| `WifiOnboarding` | boots, event handlers, joins and factory reset (`runtime.c`) | component with its environment |
| `MCTaskRuntime`, `MCAgentLoop`, `MCEventWatch`, `MCBehaviorStore`, `MCStores` | constants and symmetries of small instances; `MCStores` puts five that share nothing side by side | for TLC |
| `TaskRuntimeProofs`, `AgentLoopProofs`, `TelegramProofs`, `OtaManagerProofs`, `WifiOnboardingProofs`, `BehaviorStoreProofs`, `EventWatchProofs` | theorems about the module they are named after (`Telegram` with `Operator`) | proofs |
| `StoreProofs` | theorems about `PendingRing`, `LogBuffer`, `BlobStore`, `ComponentStore` and `AppStore`, a section each | proofs |

A definition whose name has an underscore and a comment "Mutant of" is a plausible bug in the definition it is named
after. No specification uses it: it documents which error a property would find.

Every store is modelled in the same way. A call is a list of accesses to files or to NVS, each of which is a step that
power may cut short; a torn file is a value of its own (`Cut`, `TornSpec`, `Ragged`). What clients were told is kept in
a history variable, and a property says for how long what they were told stays true. A call "overlapped" by another on
what both read and write back gives no such promise: the code has no lock there, and the model lets the update be lost.

### Task runtime

The variable `status` holds the fields of `espclaw_task_status_t` that control reads, `pending` the ring of each slot as
the queue that `PendingRing` implements, `handle` is `slot->task`. `worker` and `caller` are the program counters and
locals of threads; `owner` is history. A step is the code under one slot lock, or one unlocked access: the searches of
start (`StartPick`), stop (`StopFind`) and emit (`EmitMatch`) hold no lock and what they found may be stale in the step
after. So is the test of `slot->task` in `notify_task_worker` (`NotifyFound`), after which the handle is used
(`NotifyGive`): the one that was found, or what the slot holds by then if the compiler reads it again. In between the
worker may erase the handle and delete itself; giving to it, or to NULL, is undefined in FreeRTOS and taken to change
nothing of the runtime's state. Any number of threads start tasks: boot, the operator worker and the HTTP server do.
`contested` is history: the slots that two starts picked before either armed them. Creating the worker may fail. The two
ports differ in how a worker sleeps: on `esp` in `ulTaskNotifyTake`, woken through `slot->task`; on `pthread` on the
condition variable of the slot. `Finish` and `Exit` are two steps on `esp`, because `slot->task = NULL` follows
`mark_task_finished`.

Time is left out (a periodic worker may always go on), an unbounded task does not count its iterations, and an event
is known by its name and the number of its emission.

### Firmware update

`image`, `verdict` and `selected` are the two application slots and otadata, as ESP-IDF keeps them with rollback enabled;
`status` and `upload` are `s_ota_snapshot`; `handler` is where `ota_upload_post_handler` stands. Each call of an
`esp_ota_*` function may fail, the upload may be cut off, power may fail at any step, and `RestartTask` and
`ConfirmTask` are the two delayed tasks.

### Blob store

`part`, `smeta`, `cmeta` and `file` are the staging data, its metadata, the metadata of a committed blob and the target;
`req` is the request being handled. Each `fopen("w")`, write, `unlink` and `rename` is a step of its own, and power may
fail or a disk fill up between any two of them. `session`, `acked` and `begun` are what the clients were told.

### Agent loop

`log` is the transcript of a session, `turn` the locals of each run of `espclaw_agent_loop_run_with_options`. A step is a
call of the provider, of a tool, or one access to the transcript. `context` is the set of messages the request being
made lets the model see; a message is known by its turn, its kind and its iteration. `Window` is `load_history`:
the beginning of the file, as much as the buffer holds, of which the newest messages are kept. What the question demands
is an input of the turn. `MCAgentLoop` gives two kinds of question.

Nobody looks at the results of reading and writing the transcript, and neither does the model: a message may be lost at
any time (`Record`, and `lost` as history), and a history that cannot be read is empty while the request goes out all
the same (`History`, and `fromLog` for a request made of one that was read). A provider other than Codex is sent the
results as a continuation of its last response, with `"store":false`: it may have kept the context or not (`FollowUp`).
A line of the transcript is written whole or not at all.

### Event watches

`slot` is the table, `caller` the locals of an addition or a removal, `worker` those of the polling task. Slots are
looked up without their lock. An addition makes the slot active in one critical section and writes channel and threshold
in a second, and the worker copies state out of the slot and reads the rest from it outside the lock. The levels of the
channels move by themselves. The name is read from the slot once more while tasks are compared with it, so that a watch
removed meanwhile reaches nobody. `heard` is what the listening task was told last
of the watch in each slot, `seen` the sides that the worker's samples of it were on, the first one included.

### Behaviors

`specFile`, `specNvs` and the two sets of `index` are the four places a registration writes, in that order, each of
which may fail; what is loaded is the copy in NVS, or the file where there is none. The indexes are strings that a call
reads, changes and writes back. A read may fail as well: an index that cannot be read is taken for an empty one and
written back as such (`LoadIndex`; `told` remembers what such a call may have `dropped`), a copy in NVS that cannot be
read gives way to the file, torn or not (`Read`), and the boot passes over an index or a behavior it cannot read
(`unread`). `running` says which tasks run: what a start does to a slot is the business of `TaskRuntime`. After a boot a
task goes over the index, next to the calls of clients.

### Apps and components

`AppStore` runs the scripts of scaffold, install and removal, one access per step. The manifest that is in force is the
one in NVS; it is put there when a manifest is first read, so a torn file read by another thread stays in force until
the app is installed again. The boot task collects up to `BootMax` ids (32 in the code), in no order of its own and with
the directories that hold no app (`Strays`) among them, reads each and runs those that ask for it. A boot is "complete"
when it came to the end of that list and "short" when its log was full, it was skipped after a crash, or it passed over
an app it could not read. `ComponentStore` adds the installation of what a manifest depends on, to a depth of `DepthMax`
(`ESPCLAW_COMPONENT_DEPENDENCY_MAX`), and the staging file that a download goes through. `write_text_file` reports a
file that cannot be opened and no write that fails: `FillLeafIsLost` leaves a cut file and goes on, and the call
remembers it as `lost`. Copies of files report theirs (`FillLeafFails`).

### Operator worker and Telegram

`request` is the one request record, `mutex` its mutex, `notified` the notification values by which requester and worker
wake each other. The answer is copied out before the mutex is given back, its status after. An update is a
message with a text, a command, a message without text, one with a text too long for its buffer, a reply to a message that
has a text (an earlier one, or an answer of the bot, which may be too long), or an edited message. `Telegram` has the
server hold the updates that no poll has asked beyond; the response may be lost, and a restart empties `offset`.

`espclaw_telegram_extract_update` searches the response as a string, which is modelled by what it finds (`ChatAt`,
`TextAt`): the chat of the first `"message"`, and the first `"text"` after it. So a message without a text takes the
text of the next one, an edited message is passed, and a reply is carried out with the text it quotes, which stands
before its own in the response. A response is cut at `ESPCLAW_TELEGRAM_RESPONSE_BYTES`: it holds the first `Held`
updates (all are taken to be of one size).

### Log buffer

`ring`, `start`, `size` and `dropped` are the static variables, and a byte is known by its number in the log. `Append`
has the two cases of the code: a text as long as the ring replaces everything (and is not counted), a shorter one
pushes bytes out. A reader asks for size, dropped and tail in three critical sections.

### Wi-Fi

`path` is the branch a boot took (station, access point, BLE provisioning), `saved` the credentials in the flash of the
driver, `wifi` the driver, `flags` the static variables of `runtime.c`, `events` what the event loop has not handled. A
join makes three driver calls, between which events are handled and other joins run; a driver call that fails during
boot restarts the device. `esp_wifi_connect` may fail on an idle link as well (`Connect`): the handlers ignore it, a
join answers with an error after the credentials were saved, and `refused` remembers it. The driver, the provisioning
manager and the networks are external, as narrow as `runtime.c` uses them.

## What the runs check

| Run | Instance | What it shows |
|---|---|---|
| `task_table` | esp, 2 slots, 2 ids, 2 starts by either of 2 threads, 1 event, a stopper and an emitter | one worker per slot and active means running, except where two starts picked one slot; live handles; no wakeup lost while the handle is in its slot; the table implements the registry while no starts collide |
| `task_live_pthread` | pthread, 1 slot, queue of 2, 4 events, 2 starts, both schedules | events in order over overflow and restart, stops honoured, events taken up |
| `task_stop_esp` | esp, 1 slot, 2 starts | *disagreement*: a stop of a restarted task is lost |
| `watches` | 2 callers, 2 slots, 2 watches, one of them on either of 2 channels, 3 calls, 2 moves of a level | an added watch is where its caller believes, a settled watch reports true crossings, and crossings are heard, the first one included |
| `behaviors` | 2 clients, 2 ids, a spec with and one without autostart, 3 calls, 1 read or write that fails, 1 restart | what was said to be saved is, a boot starts what of that it can read and nothing else, what was removed stays down |
| `stores` | the ring of 4 cells; a log ring of 4 bytes, texts up to 5, 11 bytes in all, 1 reader; one upload of 6 bytes, bodies of 3 read 2 at a time, 2 faults; 3 components (one needs another, one needs itself), 2 installs, 1 download or write that fails, 1 power cut; 2 apps and a stray directory, 2 taken by a boot, 2 calls, 1 failing access, 1 power cut | the five stores keep what they acknowledged |
| `operator` | poller and console, 3 updates of all kinds, 1 reply among them, 2 in a response, 1 restart | own answers, no message forgotten before its first text was carried out, repetitions have a cause, what nothing blocks is handled |
| `ota` | 6 boots, 5 uploads, 2 faults | true status, an image to fall back to, confirmation only when served, and eventually |
| `wifi` | 2 operators, right and wrong credentials, 2 joins, 1 fault, 1 outage, 2 restarts, all boards | a device without credentials can be onboarded, true status, the network comes back unless the driver refused to dial |
| `wifi_wrong` | the same | *disagreement*: credentials that never worked end the onboarding |
| `agent` | 1 turn of 3 requests, 2 tools, 2 calls a round, 1 message by another turn, 1 message lost while there is room | it ends, keeps what the model must know as far as it was stored and read, retries what is demanded |
| `blob_append` | bodies of 2 bytes read 1 at a time, no faults | *disagreement*: an append is acknowledged after part of its body |

The run `stores` drives one of its five parts in each behaviour. They have no state in common, so nothing is lost by
that, and each property is about the states of its own part.

Why the bounds are enough:

- A ring of four cells is the one in the code; three payloads tell a replaced entry from the old one and from its
  neighbour. The log ring of four is the real one of 16 KiB made small: its arithmetic wraps, texts of every length up
  to one more than the ring meet every start, and 11 bytes go around it more than twice. The proofs cover every size.
- Two slots and two ids give a slot that is reused for another id and an id that moves to another slot; two starts give
  a restart over a worker that is still leaving, and by two threads two that pick one slot. A third start, which ends
  the contest of a slot, is left to the proofs. A queue of two overflows with three events, and the fourth shows the
  order after it.
- Three calls on two watches are an addition, a removal and an addition that finds the slot free, or an addition changed
  while the worker is at it; two moves of a level are a crossing and the way back.
- Three calls on two behaviors are a registration, a failing or torn change of it and a call on another id that writes
  the index in between; the restart may fall anywhere, so that it precedes or follows each. One failure may be a read or
  a write of any of them.
- Two installs overlap, or the second mends what the first left; with the `knot` the recursion meets its limit, which is
  1 here and 4 in the code: the limit only has to be reached. Apps that exist before the run stand for earlier calls. A
  boot that takes two directories has a list that is full with one app and the stray one, or with the two apps, and one
  that is not.
- A body of three bytes read two at a time needs two reads; six bytes make a second append, whose start is
  not the start of the upload. A second fault falls into the recovery from the first.
- Three updates are one in front of the one that is wrong and one behind it, and one more than a response holds. The
  console makes one request and none after a restart, where nothing differs from before, which is enough to hold the
  mutex or the record at any moment of the poller's. One restart repeats everything the server has not forgotten.
- Five uploads over six boots install an image, replace it while the restart is pending, roll back and try again; two
  faults put one failure into the recovery from another.
- Two joins overlap, or the second corrects the first; two restarts are one to find what was saved and one after a
  reset. The one fault is a call of the driver that fails in a handler or in a join.
- Three requests of a turn are one more than a retry and its answer, and allow a round of tools, a retry and another
  round. Five messages are read of a transcript of up to six, and seven are kept: the run meets
  transcripts that fit the history and such that do not, messages lost for want of room, and one lost before.
- Everything named `Max...` that the sources do not define bounds behaviours only. Runs of components that stop where a
  bound is used up, or whose turns end, do not check deadlock; `task_table`, `task_live_pthread`, `watches` and
  `operator` do.

`task_table`, `stores` and `behaviors` use symmetry over the threads that call and the names of what they start or write,
none of which the modules tell apart (the components differ and are not permuted), with safety properties only.

### Fairness

`TaskRuntime!FairSpec` lets each call that began and each worker that can run take its next step: threads are preemptive
and no slot lock is held across a blocking call. No caller has to begin anything. A Lua handler is taken to return: one
that loops forever keeps its worker, which no stop reaches, and the runtime does not claim otherwise.
`OtaManager!FairSpec` lets tasks that were created run and an upload that began end: `httpd_req_recv` returns an error
when its socket times out. No fairness makes power fail. `AgentLoop!Spec` lets a turn take its steps: the provider call
and the tools have timeouts. It does not choose which: `TurnsEnd` holds although the provider may call tools, answer or
fail as it likes. `EventWatch!WatchSpec` is fair to the worker alone, which sleeps 50 ms and goes on. `Telegram!Spec` is
fair to the worker, to each requester that began (tasks are preemptive, the mutex queues its waiters), to a poll that is
answered and to the poller's work on an update: no fairness brings about an update, a request of the console, a lost
response or a restart. `WifiOnboarding!WifiSpec` is fair to a boot, the event task, the driver's attempts, the calls
that began, and to the network, which returns when it went away: without that, nothing can be promised.

## Where the code and its documents disagree

Three runs show a line of the documents broken; `PROJECT.json` quotes the lines under "findings".

1. `task_stop_esp`: the worker writes `slot->task = NULL` after its slot is free again. If the task was restarted in
   between, nobody can notify the new worker any more.
2. `blob_append`: the read loop compares the bytes of the whole upload with the length of the current request.
3. `wifi_wrong`: a join stores the credentials before they were tried, and a boot goes by what is stored.

Others were met while modelling. They are in the models, without a run of their own, or bound what a property claims.

Task runtime:
- Two threads that start tasks can pick one slot, since the search holds no lock (`task_runtime.c:492`), and two starts
  of one id can give it two slots. `OneWorkerPerSlot` and `ActiveMeansRunning` except a slot that two starts picked
  until it was at rest again, and the registry is implemented while no two starts have collided (`Settled`). Two workers
  on a slot may exceed `max_iterations`.
- `notify_task_worker` tests `slot->task` and uses it without the lock (203): the worker may have erased it and deleted
  itself. `HandleIsLive` says of a handle in that gap that it is the slot's worker or one whose handle was taken out of
  the slot since, and no more: nothing keeps it from being given to a task that is gone.
- `emit` tests a slot without its lock and pushes without testing again (`task_runtime.c:659`): the payload may reach a
  slot that was re-armed for another trigger. A stop looks its slot up in the same way (613).

Event watches and behaviors:
- An addition that is sampled between its two critical sections compares with the threshold of nobody: a crossing that
  never was may be reported. `CrossingsAreReal` is about watches added while the worker was elsewhere.
- Overlapping calls on two ids may lose an index entry, and overlapping additions a watch.
- A call that cannot read an index writes it back with its own id alone (`behavior_runtime.c:464`): the others are
  dropped, although their registrations succeeded. `AckedIsStored` and `BootStartsSaved` except what may have been
  dropped.
- A boot does not start what it cannot read at that moment. A copy in NVS that cannot be read gives way to the file,
  which a power failure may have left torn while NVS held the whole.
- Two additions of one id that clash may leave it in two slots for good: each finds another slot free, and a removal
  clears only the first of the two (`event_watch.c:482`). It takes five calls, so that the run does not meet it; the
  proof of `WatchesStay` did. `AddedIsWatched` is about ids that are not in two slots when a call begins (`Doubled`).

Stores:
- A component or app installed from its own source file empties it (`component_runtime.c:289`; the advice to
  edit in place and install again is at `app_patterns.c:25`).
- A commit sent again after a power failure removes the target that the first had moved into place
  (`docs/blob-transfer.md:25`). The metadata of a committed blob hides the state of an upload begun again under its id
  (`workspace.c:610`).
- `write_text_file` (`component_runtime.c:197`) does not look at `fputs` and `fclose`: on a full disk an install of a
  text, or a manifest, is answered with success and leaves an empty or cut file. `InstalledIsWhole` and
  `DependenciesInstalled` say exactly which files.
- A boot collects 32 ids (`app_runtime.c:2991`) in the order of the directory: of more it runs some.
- The checksum in a component's manifest is never compared with the source.
- Creating an app that exists (`/newapp`, `POST /api/apps/scaffold`) replaces its source by the stub. A manifest that is
  torn when another thread reads it stays in force from NVS. Apps that should run at boot do not when those before them
  filled the log of 512 bytes that the boot run writes (`docs/apps.md:173`).
- The log does not count the bytes that a text as long as the ring threw out, and a report of more than
  fits its buffer shows the oldest of those asked for.

Operator and Telegram:
- The status of a request is read after its mutex was given back, when the next request may have replaced it; its text is
  not. `AnswerIsOwn` promises the status only while the record is still the requester's.
- A response is searched as a whole: a message without a text is answered with the text of the next one
  (`RepeatsHaveACause`). A text of 512 bytes or more is never passed, and blocks those behind it (`MessagesHandled`).
- In a reply the text that it quotes comes first (`telegram_protocol.c:163`): that one is carried out, once more, and
  what the user wrote is not. `ForgottenWasHandled` and `MessagesHandled` speak of the first text of a message, which is
  its own in every message but a reply. The text of an edited
  message is never carried out for it, only in the place of a text that a message before it does not have.
- A response is cut at 8192 bytes (`runtime.c:122`): updates without a text that fill it hide every text behind them, and
  are asked for again for good. `MessagesHandled` leaves out what such a stretch stands before.

Agent loop:
- The transcript is read from its beginning into 16384 bytes (`agent_loop.c:1707`; `docs/architecture.md:126`): in a long
  session the question itself may be missing from the request. `ContextComplete` is about transcripts that fit.
- A retry of a stateless turn (Telegram) reads the transcript (1382), against the comment at 7356, and loses the turn's
  own question; a Codex follow-up of a turn without transcript is sent without the question (7240); an empty completion
  ends a turn whatever is demanded (6734). `ContextComplete` and `DemandsRetried` leave these out.
- The results of `espclaw_session_append_message` and `load_history` are ignored (6669, 7238): a message that cannot be
  written is missing from later requests, and a transcript that cannot be read gives a request without the question.
  `ContextComplete` is about requests made of a transcript that was read, and excepts what was lost.
- A provider other than Codex is asked not to store (1900) and then sent a continuation: whether it still knows the
  question is its own affair, and `ContextComplete` makes no claim about it.

Firmware update:
- A failing `esp_ota_end` or `esp_ota_set_boot_partition` leaves `upload_in_progress` set until a restart
  (`ota_manager.c:335`; `docs/ota.md:16`).
- Another upload begun in the 1.5 s before a restart erases the slot that was announced to boot. `FallbackExists` holds.

Wi-Fi:
- A join that chose its mode before an address arrived, and sets it after, raises the open access point again behind a
  device that reports none (`docs/onboarding.md:37`). `NetworkStatusTrue` excepts it.
- Provisioning over BLE does not set `s_sta_connect_enabled`: after the first outage the device stays off the network
  until it is restarted. `StationReturns` excepts it.
- A failing `esp_wifi_connect` is followed by no event (768, 774, 1046): the device is off the network until the next
  join or restart. `StationReturns` excepts it.
- A join that overlaps a factory reset may leave its credentials behind.

## What is proved

All theorems hold for every value of the constants that satisfies the named assumptions of the modules; none of them
takes anything on trust. The assumptions say that sizes and bounds are numbers and that the markers for nothing stored,
torn and unknown are no values. One theorem has a condition of its own: `OrderOfEvents` is about one thread that emits.

| Theorem | Says | Argument |
|---|---|---|
| `StoreProofs!RingInvariant` | the indices stay in range and `tail` is `head + count` modulo the size | inductive as it stands, by lemmas on the remainder |
| `StoreProofs!RingIsConsistent` | the invariant implies that the three indices agree | from `RingInvariant` |
| `StoreProofs!RingImplementsQueue` | `Spec => ImplementsQueue` | under the invariant `Pop` maps to taking the head of the contents, `PushFree` to appending, `PushFull` to replacing the newest |
| `TaskRuntimeProofs!TypeCorrect` | `Spec => []TypeOK`, on both ports | needs `CallerInv`: what the locals of a caller are good for at each program counter |
| `TaskRuntimeProofs!SlotOwnership` | `[]OneWorkerPerSlot` for any number of starters, stoppers, emitters and slots | `OwnInv`, below |
| `TaskRuntimeProofs!ActiveSlotsRun` | `[]ActiveMeansRunning` for the same | `OwnInv` |
| `TaskRuntimeProofs!HandlesAreLive` | `[]HandleIsLive`: a handle in a slot is that of a worker that exists, and one that was found there is, or was, the slot's | `HandleInv`: a start creates a worker of its own (`TargetsFresh`), a worker erases the handle of its slot before it is gone, and a handle found names a worker of the slot (`TargetsNamed`) |
| `TaskRuntimeProofs!NoWakeupLost` | `[]NoWakeupLostWithHandle` for any number of starters, on both ports | below |
| `TaskRuntimeProofs!OrderOfEvents` | `[]EventsInOrder` for one emitting thread and any starters, stoppers and queues | `OrderInv`, below |
| `TaskRuntimeProofs!RegistryImplemented` | `Spec => ImplementsRegistry` for any starters, stoppers, emitters, slots and queues | below |
| `AgentLoopProofs!TypeCorrect` | `Spec => []TypeOK`, with the budgets of retries | `IInv` |
| `AgentLoopProofs!DemandsAreRetried` | `Spec => []DemandsRetried` | `IInv`: a demand is left alone only when it is met or its counter is at its budget; what was called or has succeeded only grows |
| `AgentLoopProofs!ContextIsComplete` | `Spec => []ContextComplete`, for any number of overlapping turns | `CInv`, below |
| `OtaManagerProofs!AlwaysFallback` | `[]FallbackExists`, for any number of uploads, boots and faults | `IInv`, below |
| `OtaManagerProofs!StatusTrue`, `RebootTriesNew` | `[]VerifyingIsTrue`, `[]PendingRebootIsTrue` | `IInv` |
| `OtaManagerProofs!OnlyConfirmedWhenServing` | the action property `ConfirmedWhenServing` | `IInv` |
| `StoreProofs!UploadsInOrder` | `[]UploadInOrder` for any blobs, bodies, power failures and full disks | `BlobIInv`, below |
| `StoreProofs!OpenUploadsKeep`, `MetaBehindData` | `[]AckedBytesStaged`, `[]MetaNeverAhead` | `BlobIInv` |
| `StoreProofs!CommitsStay` | `[]AckedCommitStays` | `BlobIInv` |
| `StoreProofs!KeepsNewest` | `[]LogKeepsNewest` for every size of the ring | `LogIInv`, below |
| `StoreProofs!ReportsAreTrue` | `[]LogReportTrue` for every size and any readers | `ReportInv`, below |
| `StoreProofs!InstallsStay`, `DependenciesThere` | `[]InstalledIsWhole`, the action property `DependenciesInstalled` | `ComponentInv`, below |
| `StoreProofs!AppsStay`, `BootRunsApps` | `[]InstalledAppRuns`, the action property `BootRunsInstalled` | `AppInv`, below |
| `BehaviorStoreProofs!AckedStays`, `BootStarts`, `RemovedStays` | `[]AckedIsStored`, `[]BootStartsSaved`, `[]RemovedStaysDown` for any clients, behaviors, failures and restarts | `BehaviorInv`, below |
| `EventWatchProofs!WatchesStay`, `EventsAreCrossings` | `[]AddedIsWatched`, the action property `CrossingsAreReal` for any callers, slots and watches | `WatchInv`, below |
| `TelegramProofs!AnswersAreOwn` | `[]AnswerIsOwn` for any requesters | `OperatorIInv`, below |
| `TelegramProofs!NoneForgotten`, `RepeatsCaused` | `[]ForgottenWasHandled`, `[]RepeatsHaveACause` for any number of updates and restarts | `PollerInv`, below |
| `WifiOnboardingProofs!AlwaysOnboarding` | `[]UnconfiguredIsOnboarding` for any callers, joins, faults and restarts | `WifiInv`, below |
| `WifiOnboardingProofs!StatusIsTrue` | `[]NetworkStatusTrue` for the same | `StatusInv`, below |

`OwnInv`. That a slot has one worker is not inductive: the search of a start holds no lock, so the invariant has to say
what is still true of the slot it found when the start arms it. `SlotInv` says this of each slot that is not contested:
one start at most is between its search and its end there, until it arms the slot it is free and nothing runs on it, and
from then on it is active and belongs to the worker of that start (`owner`). A second start that searches before the
first has armed the slot breaks all of this, and makes it contested in the same step (`PickOwns`). A slot is uncontested
again when a start finds it free and nothing of the earlier starts is left; the invariant is established anew there, not
kept.

`CInv`. That a request shows everything is not inductive either: a request is built from the transcript, which other
turns append to, or from the context the provider keeps. `Recorded` says that the transcript of a stored turn has its
question and all its results but those that were lost (an append-only file keeps what it has, whoever appends); `Shown`
that a request made of a transcript that was read and fits shows them; `ItemsKept` that a Codex turn carries its results
along itself, which is why it needs no transcript for them; `Fresh` that a turn has no results before its first request.
`WindowWhole` gives the whole transcript for the window as long as it fits, with up to two messages appended to it.

`IInv` of the firmware update. That there is an image to fall back to follows from what the boot loader and the manager
may have done to the two slots: `RunningSound` says that the running image is whole and when it may be discarded,
`SelectedSound` that otadata names the running slot or a new image, and the latter never while the running image is on
trial, `ProbationSound` that an image on trial has a whole, accepted one beside it, `UploadSound` that nothing is
uploaded during a trial, and `ConfirmSound` that the delayed confirmation is due only while the admin server is up.

`BlobIInv`. What a power failure leaves depends on where the request stood, so the invariant has a part for each:
`BeginInv` and `CommitInv` say what a begin and a commit have done so far, `AppendInv` that the bytes of the body are
numbered after all that is staged, that those received so far are staged, and that the metadata in memory counts no more
than the file holds. `StagedInv` is the part that a failure at any point must leave true, and does, because the handler
closes the data before it opens the metadata. A commit sent twice does no harm because `CommittedInv` has the staging
metadata gone. `BodyInOrder` says what one write of the body does to the order and the content of the file.

`LogIInv`. The content of the ring is stated cell by cell (`HoldsNewest`): the byte at `start + i` modulo the capacity is
the i-th of the newest. `WrapsOnce` and `PositionOfCell` turn the remainders of the code into sums, `ShiftedCell` says
where a byte is after the start moved, `RingWithBytes` what writing a text does to each cell.

`OperatorIInv`. An answer is its requester's own because of where everybody stands: `HolderInv` (who holds the mutex is
inside the critical section), `QuietInv` (nobody in it means the record is at rest and the worker idle), `NumberInv` (a
request under way has a number), `WaitInv`, `GiveInv` and `ReadInv` (what the record contains while a requester waits
for the answer, is given it and reads it). `PollerInv` adds that what lies below the offset of the poller was handled,
except perhaps the newest of it, which is then in the poller's hands, and that what the server has forgotten was handled
without exception; handled is an update whose first text was carried out for its own chat, its own text or a quoted one.

`WifiInv`. While nothing is saved the driver has never dialed, so that no event is under way that would take the access
point down, and a join under way, which noted whether the access point was up when it began, chose to keep it.
The property alone is not inductive: the handlers of an address and of the end of provisioning stop what is offered.

`RepeatInv`. How often a text is carried out is counted over the updates the poller went past: `Met` is the set of those
that may give that text (their own, one they quote, or, without a text or a message,
one behind them), and one step of the poller adds one member at most (`MetNext`). A restart sets the poller
back by one update, because the server is asked to forget before the next is handed out, and pays for it with one.

`ReportInv`. A report is made in three critical sections, so the invariant says what a reader remembers of a shorter log:
the size it noted never shrinks, and what left the ring since was counted (`ReadersBehind`). `CopiedBytes` turns the
copy with its two remainders into the newest bytes.

`BehaviorInv`. What was said to be stored depends on the calls under way: `DoneSoFar` says what a call that nobody
overlapped has done at each of its steps, `Bystander` that a call on another id writes the index back with what it read
of this one, or drops it when it read nothing, `StoredAsTold` what is then stored, one failed step of a removal
included. `BootFollows` ties what the autostart task still has to do to what is indexed, for the ids that no call has
stirred since it read the index.

`WatchInv`. `Apart` says that the slot a call is about to change holds no watch that somebody relies on, `Alone` what
more a call knows that no other overlapped, `Remembers` and `WorkerInv` that the worker, at a slot configured unseen,
holds a sample of the watch in it. `Apart` is not preserved when two slots have one id, which is how `Doubled` was found.

`ComponentInv`. `CallProgress` says which of the three files a call that is alone has written so far, `WritesUnpromised`
that nobody relies on what it writes. Which files of the call were cut unnoticed is part of what it has done (`Left`),
and of what it promises. The recursion of an install is a stack of frames; `CallNeeds` says that all that a frame no
longer waits for is done or in the frame above, and that what is done has all it needs, so that at the end the whole
closure is. A component that needs itself, directly or not, is never done; the proof needs no bound on the graph.

`AppInv`. A call is the list of steps it has still to take. `ByPlan` says that the list is the end of what a call of its
kind does, so that the number of steps left tells what has been done; `Progressed` says what that is. `Harmless`
concerns the calls that only read a manifest: what they put into NVS is what the file says, so that an app that somebody
relies on keeps its rights. `VowedDirs` is what a boot needs.

`StatusInv` of the Wi-Fi. The flags lag behind the driver by the events not yet handled, so the invariant is about the
queue: the last event in it that tells of the link says what the driver does, or the flag does when there is none
(`ReadyFollows`); the event that starts provisioning comes first of all (`BleIsTold`).

The wakeups. `NoWakeupLostWithHandle` is inductive together with `BlockedOnPthread`: whoever gives a sleeping worker
something to do is on its way to notify it, and a worker goes to sleep only in a step in which it saw nothing to do. A
notification reaches the worker of the handle on esp, whether the caller uses the handle it tested or reads it again,
because `NotifyDue` counts a caller that holds another worker's handle as nobody. On pthread a signal wakes one of those
that wait, so that the proof takes `OneWorkerPerSlot` from `SlotOwnership` and speaks of slots that were not contested.

The registry. While no slot is contested and no id has two slots (`Settled`), `OwnInv`, with the fact that an active
slot has the id of a task, makes the mapping from slots to tasks a bijection (`View`): the queue of a task is that of
the one active slot with its id. Then each critical section is one step of `TaskRegistry` or none. Arming a slot is the
start of a task, because no slot has its id afterwards but this one, and one slot was free (`Room`); `Finish` and a
failed creation are its end; a stop or a payload that arrives on a slot that has ended meanwhile changes nothing that a
user of the registry can see.

`OrderInv`. That events are in order needs where the emitting thread stands: its event has the newest number
(`NewestUnderWay`), and the slots it still has to visit hold only older ones (`OlderThan`), as do the workers on them. The
proof assumes `SingleEmitter`; the numbers of two threads that emit at once have no order to keep.

Only model-checked: liveness (`StopHonoured`, `EventsTakenUp`, `NewImageConfirmed`, `TurnsEnd`, `MessagesHandled`,
`CrossingsAreHeard`, `StationReturns`), which is out of the prover's reach. Every invariant and every action property of
a passing run is stated by a theorem.

## Plan

All parts whose correctness depends on order are modelled, and what the runs check of their safety is proved. What is
left, in this order:

1. Lemmas that liveness rests on and that are safety: that a step of a turn decreases what is left of it, that
   the offset of the poller only grows between restarts.
2. What is still true of a slot while two starts contest it: which of the two workers the queue and the stop reach.
3. The retries of a stateless turn and the transcript longer than its buffer as properties of `AgentLoop`, once the code
   handles them; the models have the behaviour already.

## What is not modelled

- The synchronous WebAssembly port of the task runtime and the deadlines of periodic tasks.
- The Lua interpreter, HTTP transport, parsing of provider responses, rendering of JSON and HTML, and how demands are
  read out of a question's text: data, not control, for the properties stated here. They make up most of the lines of
  the repository, with the vendored interpreter and the second copy of each source.
- Control loop, hardware, monitoring, context documents and web tools: single calls that compute, load or drive a
  peripheral, with no state another thread changes.
- Configuration and authentication: records that one call loads and one saves. They are saved field by field
  (`auth_store.c:439`, `runtime.c:523`) without a lock, and the results of most calls are not looked at: a turn that
  begins meanwhile, or a power failure in between, sees fields of two profiles. No document promises otherwise, and
  the remedy, one blob per record, would need no model.
- Scan for networks, time synchronisation and mounting of storage: calls made once, whose failure the boot passes over.
- The host's variant of the behaviors' indexes (files instead of NVS), which no device uses.
- The files under `src/src`, which are the Arduino build of the same sources.
