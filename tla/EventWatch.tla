----------------------------- MODULE EventWatch -----------------------------
(***************************************************************************)
(* Hardware event watches (event_watch.c): eight slots, filled and cleared *)
(* by the agent's tools and by Lua apps, and one worker that goes over     *)
(* them, samples an ADC channel or takes the bytes of a UART, and emits an *)
(* event into the task runtime when the sample crosses a threshold or      *)
(* bytes have come.  A slot has a lock, but slots are looked up without    *)
(* it, a watch is added in two critical sections, and the worker reads the *)
(* channel, the threshold and the event name of a slot outside of it.      *)
(*                                                                         *)
(* Abstractions.  The worker finds every watch due when it comes to its    *)
(* slot: an interval only delays it.  Every reading of a channel succeeds  *)
(* (the worker passes over the slot when one fails).  UART ports are not   *)
(* told apart.  One task listens to each event name, and hears the events  *)
(* of every watch of that name; what becomes of them there is the business *)
(* of TaskRuntime.                                                         *)
(***************************************************************************)
EXTENDS Naturals, FiniteSets

CONSTANTS
  Callers,    \* the threads that add and remove watches
  NSlots,     \* ESPCLAW_EVENT_WATCH_MAX
  Watches,    \* what may be added: records of id, kind, name, chan and thr
  Levels,     \* the values of an ADC channel
  Channels,   \* ADC channels; 0 is the one of a cleared slot
  NoName,     \* the empty string
  MaxCalls,   \* bound: additions and removals
  MaxMoves    \* bound: changes of a level

Kinds == {"uart", "adc_threshold"}

\* A watch has an id; one of a UART has no channel and no threshold.
ASSUME WatchAssumption ==
  /\ NSlots \in Nat \ {0}
  /\ Levels \subseteq Nat
  /\ 0 \in Channels
  /\ \A w \in Watches :
       /\ w = [id |-> w.id, kind |-> w.kind, name |-> w.name, chan |-> w.chan, thr |-> w.thr]
       /\ w.id # NoName /\ w.kind \in Kinds /\ w.chan \in Channels /\ w.thr \in Nat
       /\ w.kind = "uart" => w.chan = 0 /\ w.thr = 0
  /\ NoName \notin Kinds
  /\ MaxCalls \in Nat /\ MaxMoves \in Nat

VARIABLES
  slot,     \* s_watches
  worker,   \* where the worker is and what it holds
  caller,   \* caller -> the call it is in
  level,    \* channel -> what the ADC reads there
  heard,    \* slot -> the side that the last event of its watch named (history)
  told,     \* id -> the watch the last call said is active (history)
  clean,    \* the slots configured while nobody was looking (history)
  before,   \* slot -> the side its watch saw last (history)
  seen,     \* slot -> the sides its watch has seen (history)
  calls, moves

watchVars == <<slot, worker, caller, level, heard, told, clean, before, seen, calls, moves>>
saw == <<before, seen>>
callerSide == <<caller, told, calls>>
world == <<level, moves>>

Slots == 1 .. NSlots
Lowest(S) == IF S = {} THEN 0 ELSE CHOOSE s \in S : \A t \in S : s <= t
WatchIds == {w.id : w \in Watches}
Names == {w.name : w \in Watches}

\* A slot as memset leaves it.
Cleared == [id |-> NoName, kind |-> NoName, name |-> NoName, chan |-> 0, thr |-> 0,
            ready |-> FALSE, above |-> FALSE]

Sweep(todo) == [pc |-> "sweep", todo |-> todo, at |-> 0, raw |-> 0, above |-> FALSE,
                left |-> {}, real |-> FALSE]
Away == [pc |-> "away"]
Unknown == [id |-> "unknown"]
None == [id |-> "none"]

WatchInit ==
  /\ slot = [s \in Slots |-> Cleared]
  /\ worker = Sweep({})
  /\ caller = [c \in Callers |-> Away]
  /\ level = [ch \in Channels |-> Lowest(Levels)]
  /\ heard = [s \in Slots |-> "nothing"]
  /\ told = [id \in WatchIds |-> None]
  /\ clean = {}
  /\ before = [s \in Slots |-> "none"]
  /\ seen = [s \in Slots |-> {}]
  /\ calls = 0 /\ moves = 0
-----------------------------------------------------------------------------
(* Callers                                                                 *)

\* find_watch_index and find_free_watch_index: the first slot, or 0.
Find(id) == Lowest({s \in Slots : slot[s].id = id})

\* Mutant of FindOrFree: an id that is there already is not looked for.
FindOrFree_Free(id) == Lowest({s \in Slots : slot[s].id = NoName})

FindOrFree(id) == IF Find(id) # 0 THEN Find(id) ELSE Lowest({s \in Slots : slot[s].id = NoName})

\* Two additions of one id that clash may leave it in two slots, for good: removals
\* clear the first.
Doubled(id) == \E s, t \in Slots : s # t /\ slot[s].id = id /\ slot[t].id = id

\* A call starts; while another is on its way neither can be relied on.
Enter(c, w, pc, s) ==
  LET alone == ~Doubled(w.id) /\ \A d \in Callers \ {c} : caller[d].pc = "away" IN
  /\ caller[c].pc = "away"
  /\ calls < MaxCalls
  /\ calls' = calls + 1
  /\ told' = [told EXCEPT ![w.id] = Unknown]
  /\ caller' = [d \in Callers |->
       IF d = c THEN [pc |-> pc, watch |-> w, at |-> s, alone |-> alone, calm |-> TRUE]
       ELSE IF caller[d].pc = "away" THEN Away ELSE [caller[d] EXCEPT !.alone = FALSE]]

Leave(c, t) ==
  /\ caller' = [caller EXCEPT ![c] = Away]
  /\ told' = IF caller[c].alone THEN [told EXCEPT ![caller[c].watch.id] = t] ELSE told

\* add_common_watch looks for the id, or for a free slot, without a lock.
AddFind(c) ==
  \E w \in Watches :
    /\ FindOrFree(w.id) # 0
    /\ Enter(c, w, "claim", FindOrFree(w.id))
    /\ UNCHANGED <<slot, worker, heard, clean, saw, world>>

\* A new watch has seen nothing and said nothing.
Forget(s) ==
  /\ clean' = clean \ {s}
  /\ before' = [before EXCEPT ![s] = "none"]
  /\ seen' = [seen EXCEPT ![s] = {}]
  /\ heard' = [heard EXCEPT ![s] = "nothing"]

\* Mutant of AddClaim: the slot is not cleared first.
AddClaim_Keeps(c) ==
  LET s == caller[c].at  w == caller[c].watch IN
  /\ caller[c].pc = "claim"
  /\ slot' = [slot EXCEPT ![s] = [@ EXCEPT !.id = w.id, !.kind = w.kind, !.name = w.name]]
  /\ caller' = [caller EXCEPT ![c].pc = "find", ![c].calm = worker.at # s]
  /\ Forget(s)
  /\ UNCHANGED <<worker, told, calls, world>>

\* The watch is active from here on, on channel 0 and with threshold 0.
AddClaim(c) ==
  LET s == caller[c].at  w == caller[c].watch IN
  /\ caller[c].pc = "claim"
  /\ slot' = [slot EXCEPT ![s] = [Cleared EXCEPT !.id = w.id, !.kind = w.kind, !.name = w.name]]
  /\ caller' = [caller EXCEPT ![c].pc = "find", ![c].calm = worker.at # s]
  /\ Forget(s)
  /\ UNCHANGED <<worker, told, calls, world>>

\* espclaw_event_watch_add_uart and _adc_threshold look the id up again: it may be
\* gone, and the call fails.
AddFindAgain(c) ==
  LET s == Find(caller[c].watch.id) IN
  /\ caller[c].pc = "find"
  /\ IF s = 0 THEN Leave(c, Unknown)
     ELSE caller' = [caller EXCEPT ![c].pc = "configure", ![c].at = s] /\ UNCHANGED told
  /\ UNCHANGED <<slot, worker, heard, clean, saw, calls, world>>

AddConfigure(c) ==
  LET s == caller[c].at  w == caller[c].watch IN
  /\ caller[c].pc = "configure"
  /\ slot' = [slot EXCEPT ![s] = IF w.kind = "uart" THEN @
                                     ELSE [@ EXCEPT !.chan = w.chan, !.thr = w.thr]]
  /\ clean' = IF caller[c].alone /\ caller[c].calm THEN clean \cup {s} ELSE clean \ {s}
  /\ Leave(c, w)
  /\ UNCHANGED <<worker, heard, saw, calls, world>>

RemoveFind(c) ==
  \E w \in Watches :
    /\ Find(w.id) # 0
    /\ Enter(c, w, "clear", Find(w.id))
    /\ UNCHANGED <<slot, worker, heard, clean, saw, world>>

\* Whatever is in the slot now.
RemoveClear(c) ==
  LET s == caller[c].at IN
  /\ caller[c].pc = "clear"
  /\ slot' = [slot EXCEPT ![s] = Cleared]
  /\ clean' = clean \ {s}
  /\ Leave(c, None)
  /\ UNCHANGED <<worker, heard, saw, calls, world>>
-----------------------------------------------------------------------------
(* The worker                                                              *)

\* event_watch_step: the slots in turn, again and again.
Noticed(s) == [c \in Callers |-> IF caller[c].pc \in {"find", "configure"} /\ caller[c].at = s
                                   THEN [caller[c] EXCEPT !.calm = FALSE] ELSE caller[c]]

WorkerLook ==
  LET todo == IF worker.todo = {} THEN Slots ELSE worker.todo
      s == Lowest(todo)
      rest == todo \ {s} IN
  /\ worker.pc = "sweep"
  /\ \/ /\ slot[s].kind = NoName
        /\ worker' = Sweep(rest)
        /\ UNCHANGED caller
     \/ /\ slot[s].kind # NoName
        /\ worker' = [Sweep(rest) EXCEPT !.pc = IF slot[s].kind = "uart" THEN "take" ELSE "sample",
                                         !.at = s]
        /\ caller' = Noticed(s)
  /\ UNCHANGED <<slot, told, calls, heard, clean, saw, world>>

\* handle_uart_watch: bytes may have come; they are taken out of their buffer before
\* the event is emitted.
TakeBytes ==
  /\ worker.pc = "take"
  /\ \/ worker' = [worker EXCEPT !.pc = "emit", !.left = Names]
     \/ worker' = Sweep(worker.todo)
  /\ UNCHANGED <<slot, callerSide, heard, clean, saw, world>>

\* handle_adc_threshold_watch: the channel and the threshold are read without the
\* lock, one after the other.
Sample ==
  /\ worker.pc = "sample"
  /\ worker' = [worker EXCEPT !.pc = "compare", !.raw = level[slot[worker.at].chan]]
  /\ UNCHANGED <<slot, callerSide, heard, clean, saw, world>>

Compare ==
  /\ worker.pc = "compare"
  /\ worker' = [worker EXCEPT !.pc = "update", !.above = worker.raw >= slot[worker.at].thr]
  /\ UNCHANGED <<slot, callerSide, heard, clean, saw, world>>

Side(above) == IF above THEN "above" ELSE "below"

\* Mutants of Crossed: the first sample counts as a crossing from below; only a
\* rise counts.
Crossed_First(s) == slot[s].above # worker.above
Crossed_Rising(s) == slot[s].ready /\ ~slot[s].above /\ worker.above

\* Under the lock: the first sample is only remembered.
Crossed(s) == slot[s].ready /\ slot[s].above # worker.above

Update ==
  LET s == worker.at  side == Side(worker.raw >= slot[s].thr) IN
  /\ worker.pc = "update"
  /\ slot' = [slot EXCEPT ![s].ready = TRUE, ![s].above = worker.above]
  /\ worker' = IF Crossed(s)
                 THEN [worker EXCEPT !.pc = "emit", !.left = Names, !.raw = 0,
                                     !.real = before[s] \notin {"none", side}]
                 ELSE Sweep(worker.todo)
  /\ IF s \in clean
       THEN before' = [before EXCEPT ![s] = side] /\ seen' = [seen EXCEPT ![s] = @ \cup {side}]
       ELSE UNCHANGED saw
  /\ UNCHANGED <<callerSide, heard, clean, world>>

\* espclaw_task_emit_event compares the name, still in the slot, with the trigger of
\* one task after the other.
Matches(n) == slot[worker.at].name = n
Emit ==
  /\ worker.pc = "emit"
  /\ LET n == CHOOSE m \in worker.left : TRUE IN
       /\ worker' = IF worker.left = {n} THEN Sweep(worker.todo) ELSE [worker EXCEPT !.left = @ \ {n}]
       /\ heard' = IF Matches(n) /\ slot[worker.at].kind = "adc_threshold"
                     THEN [heard EXCEPT ![worker.at] = Side(worker.above)] ELSE heard
  /\ UNCHANGED <<slot, callerSide, clean, saw, world>>

Worker ==
  \/ WorkerLook \/ TakeBytes \/ Sample \/ Compare \/ Update \/ Emit

World ==
  /\ moves < MaxMoves
  /\ moves' = moves + 1
  /\ \E ch \in Channels, l \in Levels : level[ch] # l /\ level' = [level EXCEPT ![ch] = l]
  /\ UNCHANGED <<slot, worker, callerSide, heard, clean, saw>>

Calling(c) ==
  \/ AddFind(c) \/ AddClaim(c) \/ AddFindAgain(c) \/ AddConfigure(c)
  \/ RemoveFind(c) \/ RemoveClear(c)

WatchNext == Worker \/ World \/ \E c \in Callers : Calling(c)

\* The worker is a task of its own that never ends.
WatchSpec == WatchInit /\ [][WatchNext]_watchVars /\ WF_watchVars(Worker)
-----------------------------------------------------------------------------
\* What a call that no other overlapped said about a watch stays true until the next
\* call on its id: an added watch is in one slot, with the configuration asked for, a
\* removed one in none, whatever other callers add and remove in between. It is said
\* only of ids that no earlier clash left in two slots.
AddedIsWatched ==
  \A id \in WatchIds : told[id] # Unknown =>
    LET held == {s \in Slots : slot[s].id = id} IN
    IF told[id] = None THEN held = {}
    ELSE \E s \in Slots : /\ held = {s}
                          /\ \A f \in DOMAIN told[id] : slot[s][f] = told[id][f]

\* docs/events.md:76: an ADC watch emits only on threshold crossings. When a watch
\* that was added while the worker was not at its slot emits, two samples of it, one
\* after the other, were on different sides of its threshold.
CrossingsAreReal ==
  [][\A n \in Names :
       worker.pc = "emit" /\ n \in worker.left \ worker'.left /\ Matches(n)
         /\ worker.at \in clean /\ slot[worker.at].kind = "adc_threshold"
         => worker.real]_watchVars

\* docs/events.md:20: it emits when the value crosses the threshold. Once the signal
\* rests, a watch that was added while the worker was not at its slot, and that has seen
\* another side than the one the signal rests on, has emitted, to the task that listens
\* to its name, and the last of its events named that side: neither its first crossing
\* nor its last is lost.
CrossingsAreHeard ==
  <>[](\A s \in clean :
         LET rest == Side(level[slot[s].chan] >= slot[s].thr) IN
         slot[s].kind = "adc_threshold" /\ seen[s] \ {rest} # {} => heard[s] = rest)
=============================================================================
