-------------------------- MODULE EventWatchProofs --------------------------
(***************************************************************************)
(* For any callers, slots, watches and levels: an undisturbed call leaves  *)
(* a watch where its caller believes it, and an event of a settled watch   *)
(* is a crossing.                                                          *)
(***************************************************************************)
EXTENDS EventWatch, FiniteSetTheorems, WellFoundedInduction, TLAPS

SlotStates == [id : WatchIds \cup {NoName}, kind : Kinds \cup {NoName}, name : Names \cup {NoName},
               chan : Channels, thr : Nat, ready : BOOLEAN, above : BOOLEAN]
Stations == [pc : {"sweep", "take", "sample", "compare", "update", "emit"}, todo : SUBSET Slots,
             at : Slots \cup {0}, raw : Nat, above : BOOLEAN, left : SUBSET Names, real : BOOLEAN]
CallStates == [pc : {"claim", "find", "configure", "clear"}, watch : Watches, at : Slots,
               alone : BOOLEAN, calm : BOOLEAN]

WatchTypes ==
  /\ slot \in [Slots -> SlotStates]
  /\ worker \in Stations /\ (worker.pc # "sweep" => worker.at \in Slots)
  /\ caller \in [Callers -> CallStates \cup {Away}]
  /\ level \in [Channels -> Nat]
  /\ told \in [WatchIds -> Watches \cup {Unknown, None}]
  /\ clean \subseteq Slots
  /\ before \in [Slots -> {"none", "above", "below"}]

\* What a call knows: nobody relies on its watch, and the slot it is about to change
\* holds no watch that somebody relies on.
InCall(c) == caller[c].pc # "away"
Apart(c) ==
  InCall(c) =>
    /\ told[caller[c].watch.id] = Unknown
    /\ \A id \in WatchIds : caller[c].pc # "find" /\ told[id] # Unknown => slot[caller[c].at].id # id

\* One that is alone knows more: its watch is in no other slot and, once claimed, in
\* this one, as AddClaim left it but for what the worker notes there.
Sole(c) == \A s \in Slots : slot[s].id = caller[c].watch.id => s = caller[c].at
Claimed(c) ==
  LET now == slot[caller[c].at]  w == caller[c].watch IN
  now.id = w.id /\ now.kind = w.kind /\ now.name = w.name /\ now.chan = 0 /\ now.thr = 0
Alone(c) ==
  InCall(c) /\ caller[c].alone =>
    /\ \A d \in Callers \ {c} : ~InCall(d)
    /\ Sole(c)
    /\ caller[c].pc \in {"find", "configure"} =>
         /\ Claimed(c)
         /\ caller[c].calm => /\ ~slot[caller[c].at].ready /\ before[caller[c].at] = "none"
                              /\ worker.at # caller[c].at

Kept(s, w) ==
  /\ slot[s].id = w.id /\ slot[s].kind = w.kind /\ slot[s].name = w.name
  /\ slot[s].chan = w.chan /\ slot[s].thr = w.thr
ToldInv ==
  \A id \in WatchIds : told[id] # Unknown =>
    /\ told[id] = None => \A s \in Slots : slot[s].id # id
    /\ told[id] # None => /\ told[id] \in Watches /\ told[id].id = id
                          /\ \E s \in Slots : Kept(s, told[id]) /\ \A t \in Slots : slot[t].id = id => t = s

\* A slot that was configured while nobody was looking remembers the side its watch
\* saw last; the worker, at such a slot, holds what belongs to the watch in it.
Remembers(s) == s \in clean => before[s] = IF slot[s].ready THEN Side(slot[s].above) ELSE "none"
WorkerInv ==
  worker.pc # "sweep" /\ worker.at \in clean =>
    /\ worker.pc = "take" => slot[worker.at].kind = "uart"
    /\ worker.pc = "update" => (worker.above <=> worker.raw >= slot[worker.at].thr)
    /\ worker.pc = "emit" /\ slot[worker.at].kind = "adc_threshold" => worker.real

WatchInv ==
  /\ WatchTypes /\ ToldInv /\ WorkerInv
  /\ \A c \in Callers : Apart(c) /\ Alone(c)
  /\ \A s \in Slots : Remembers(s)
-----------------------------------------------------------------------------
\* No watch has the record of an outcome, nor the empty id.
LEMMA WatchFields ==
  ASSUME NEW w \in Watches
  PROVE  /\ w.id \in WatchIds /\ w.id # NoName /\ w.kind \in Kinds /\ w.name \in Names /\ w.chan \in Channels
         /\ w.thr \in Nat /\ w # Unknown /\ w # None /\ Unknown # None
         /\ DOMAIN w = {"id", "kind", "name", "chan", "thr"}
<1>1. /\ w = [id |-> w.id, kind |-> w.kind, name |-> w.name, chan |-> w.chan, thr |-> w.thr]
      /\ w.id # NoName /\ w.kind \in Kinds /\ w.chan \in Channels /\ w.thr \in Nat
  BY WatchAssumption
<1>2. w.id \in WatchIds /\ w.name \in Names
  BY DEF WatchIds, Names
<1>3. DOMAIN w = {"id", "kind", "name", "chan", "thr"}
  BY <1>1
<1>4. w # Unknown /\ w # None
  <2>1. "kind" \notin DOMAIN Unknown /\ "kind" \notin DOMAIN None
    BY DEF Unknown, None
  <2> QED BY <1>3, <2>1
<1>5. Unknown # None
  BY DEF Unknown, None
<1> QED BY <1>1, <1>2, <1>3, <1>4, <1>5

LEMMA NoNameIsNoId == NoName \notin WatchIds
BY WatchAssumption DEF WatchIds

\* Some number of a set of numbers is the least: the smallest of the intervals that
\* lead up to them, which are finite.
LEMMA LowestIsOne ==
  ASSUME NEW S, S \subseteq Nat, S # {}
  PROVE  Lowest(S) \in S
<1> DEFINE T == {0 .. x : x \in S}
<1>1. T # {} /\ T \subseteq FiniteSubsetsOf(Nat)
  <2>1. \A x \in S : 0 .. x \in FiniteSubsetsOf(Nat)
    BY FS_Interval DEF FiniteSubsetsOf
  <2> QED BY <2>1
<1> HIDE DEF T
<1>2. \E m \in T : \A y \in T : <<y, m>> \notin StrictSubsetOrdering(Nat)
  BY <1>1, WFMin, FS_StrictSubsetOrderingWellFounded
<1>3. PICK x \in S : \A y \in S : <<0 .. y, 0 .. x>> \notin StrictSubsetOrdering(Nat)
  BY <1>2 DEF T
<1>4. \A y \in S : x <= y
  <2> SUFFICES ASSUME NEW y \in S, ~(x <= y) PROVE FALSE
    OBVIOUS
  <2>1. 0 .. y \subseteq 0 .. x /\ x \in 0 .. x /\ x \notin 0 .. y
    OBVIOUS
  <2>2. 0 .. x \in SUBSET Nat /\ 0 .. y \in SUBSET Nat
    OBVIOUS
  <2> QED BY <1>3, <2>1, <2>2, Zenon DEF StrictSubsetOrdering
<1> QED BY <1>4 DEF Lowest

\* find_watch_index finds a slot with the id if there is one, and otherwise
\* add_common_watch a free one if there is one.
LEMMA Finds ==
  ASSUME NEW id \in WatchIds
  PROVE  /\ Find(id) = 0 => \A s \in Slots : slot[s].id # id
         /\ Find(id) # 0 => Find(id) \in Slots /\ slot[Find(id)].id = id
         /\ FindOrFree(id) # 0 =>
              /\ FindOrFree(id) \in Slots
              /\ slot[FindOrFree(id)].id \in {id, NoName}
              /\ slot[FindOrFree(id)].id = NoName => \A s \in Slots : slot[s].id # id
<1> DEFINE With(x) == {s \in Slots : slot[s].id = x}
<1>1. \A x : /\ Lowest(With(x)) # 0 => Lowest(With(x)) \in With(x)
             /\ Lowest(With(x)) = 0 => With(x) = {}
  <2> SUFFICES ASSUME NEW x PROVE /\ Lowest(With(x)) # 0 => Lowest(With(x)) \in With(x)
                                  /\ Lowest(With(x)) = 0 => With(x) = {}
    OBVIOUS
  <2>1. With(x) \subseteq Nat /\ 0 \notin With(x)
    BY WatchAssumption DEF Slots
  <2>2. CASE With(x) = {}
    BY <2>2 DEF Lowest
  <2>3. CASE With(x) # {}
    BY <2>1, <2>3, LowestIsOne
  <2> QED BY <2>2, <2>3
<1>2. Find(id) = Lowest(With(id))
  BY DEF Find
<1>3. FindOrFree(id) = IF Find(id) # 0 THEN Find(id) ELSE Lowest(With(NoName))
  BY DEF FindOrFree
<1> QED BY <1>1, <1>2, <1>3, NoNameIsNoId

LEMMA InitWatch == WatchInit => WatchInv
<1> SUFFICES ASSUME WatchInit PROVE WatchInv
  OBVIOUS
<1>1. \A c \in Callers : ~InCall(c)
  BY DEF WatchInit, InCall, Away
<1>2. Lowest(Levels) \in Nat
  <2>1. CASE Levels = {}
    BY <2>1 DEF Lowest
  <2>2. CASE Levels # {}
    BY <2>2, LowestIsOne, WatchAssumption
  <2> QED BY <2>1, <2>2
<1>3. Cleared \in SlotStates /\ Cleared.id = NoName /\ ~Cleared.ready
  BY WatchAssumption DEF Cleared, SlotStates
<1>4. WatchTypes
  BY <1>2, <1>3 DEF WatchInit, WatchTypes, Sweep, Stations
<1>5. \A c \in Callers : Apart(c) /\ Alone(c)
  BY <1>1 DEF Apart, Alone
<1>6. ToldInv /\ WorkerInv /\ \A s \in Slots : Remembers(s)
  BY <1>3, NoNameIsNoId DEF WatchInit, ToldInv, WorkerInv, Remembers, Sweep
<1> QED BY <1>4, <1>5, <1>6 DEF WatchInv
-----------------------------------------------------------------------------
(* The worker and the world                                                *)

\* The configuration of a slot stays.
SameWatch(s) ==
  /\ slot'[s].id = slot[s].id /\ slot'[s].kind = slot[s].kind /\ slot'[s].name = slot[s].name
  /\ slot'[s].chan = slot[s].chan /\ slot'[s].thr = slot[s].thr
\* A caller stays where it is, or was noticed by the worker.
SameCall(k, l) ==
  \/ l = k
  \/ /\ l \in CallStates /\ k \in CallStates /\ l.pc = k.pc /\ l.watch = k.watch /\ l.at = k.at
     /\ l.alone = k.alone /\ ~l.calm

\* The worker notes what it sees in its own slot, and comes to no other unnoticed.
LEMMA WorkerKeeps ==
  ASSUME WatchInv, UNCHANGED <<told, clean>>,
         slot' \in [Slots -> SlotStates], level' \in [Channels -> Nat],
         worker' \in Stations, worker'.pc # "sweep" => worker'.at \in Slots,
         caller' \in [Callers -> CallStates \cup {Away}],
         before' \in [Slots -> {"none", "above", "below"}],
         \A s \in Slots : SameWatch(s) /\ Remembers(s)',
         \A s \in Slots : s # worker.at => slot'[s] = slot[s] /\ before'[s] = before[s],
         \A c \in Callers : /\ SameCall(caller[c], caller'[c])
                            /\ worker'.at \in {worker.at, 0} \/ worker'.at # caller[c].at \/ ~InCall(c)
                                 \/ ~caller'[c].calm \/ caller[c].pc \notin {"find", "configure"},
         WorkerInv'
  PROVE  WatchInv'
<1>1. WatchTypes'
  BY DEF WatchInv, WatchTypes
<1>2. ToldInv'
  <2> SUFFICES ASSUME NEW id \in WatchIds, told[id] # Unknown
               PROVE  /\ told[id] = None => \A s \in Slots : slot'[s].id # id
                      /\ told[id] # None =>
                           /\ told[id] \in Watches /\ told[id].id = id
                           /\ \E s \in Slots : Kept(s, told[id])' /\ \A t \in Slots : slot'[t].id = id => t = s
    BY DEF ToldInv
  <2> QED BY DEF WatchInv, ToldInv, SameWatch, Kept
<1>3. ASSUME NEW c \in Callers PROVE Apart(c)' /\ Alone(c)'
  <2>1. /\ Apart(c) /\ Alone(c) /\ SameCall(caller[c], caller'[c])
        /\ (InCall(c) => caller[c].at \in Slots /\ caller[c].watch \in Watches)
    BY DEF WatchInv, WatchTypes, InCall, Away, CallStates
  <2>2. \A d \in Callers : InCall(d)' <=> InCall(d)
    BY DEF SameCall, InCall
  <2>3. InCall(c) => /\ caller'[c].pc = caller[c].pc /\ caller'[c].watch = caller[c].watch
                     /\ caller'[c].at = caller[c].at /\ caller'[c].alone = caller[c].alone
                     /\ (caller'[c].calm => caller[c].calm)
    BY <2>1 DEF SameCall
  <2>4. Apart(c)'
    BY <2>1, <2>2, <2>3 DEF Apart, SameWatch, InCall
  <2>5. Alone(c)'
    <3> SUFFICES ASSUME InCall(c), caller[c].alone
                 PROVE  /\ \A d \in Callers \ {c} : ~InCall(d)'
                        /\ Sole(c)'
                        /\ caller[c].pc \in {"find", "configure"} =>
                             /\ Claimed(c)'
                             /\ caller'[c].calm => /\ ~slot'[caller[c].at].ready
                                                   /\ before'[caller[c].at] = "none"
                                                   /\ worker'.at # caller[c].at
      BY <2>2, <2>3 DEF Alone
    <3>1. Sole(c)'
      BY <2>1, <2>3 DEF Alone, Sole, SameWatch
    <3>2. caller[c].pc \in {"find", "configure"} => Claimed(c)'
      BY <2>1, <2>3 DEF Alone, Claimed, SameWatch
    <3>3. ASSUME caller[c].pc \in {"find", "configure"}, caller'[c].calm
          PROVE  /\ ~slot'[caller[c].at].ready /\ before'[caller[c].at] = "none"
                 /\ worker'.at # caller[c].at
      <4>1. /\ ~slot[caller[c].at].ready /\ before[caller[c].at] = "none" /\ worker.at # caller[c].at
        BY <2>1, <2>3, <3>3 DEF Alone
      <4>2. 0 # caller[c].at
        BY <2>1 DEF Slots
      <4> QED BY <2>1, <3>3, <4>1, <4>2
    <3> QED BY <2>1, <2>2, <3>1, <3>2, <3>3 DEF Alone
  <2> QED BY <2>4, <2>5
<1> QED BY <1>1, <1>2, <1>3 DEF WatchInv

\* Where the worker stands, and what it finds in its slot.
LEMMA AtSlot ==
  ASSUME WatchInv
  PROVE  /\ worker \in Stations /\ worker.todo \subseteq Slots /\ worker.left \subseteq Names
         /\ worker.pc # "sweep" => worker.at \in Slots
         /\ \A s \in Slots : slot[s] \in SlotStates /\ slot[s].thr \in Nat /\ slot[s].chan \in Channels
         /\ \A ch \in Channels : level[ch] \in Nat
BY DEF WatchInv, WatchTypes, Stations, SlotStates

\* A worker that only moves: what it holds is right for the slot it is at.
LEMMA MoveKeeps ==
  ASSUME WatchInv, UNCHANGED <<told, clean, slot, before>>, level' \in [Channels -> Nat],
         worker' \in Stations, worker'.pc # "sweep" => worker'.at \in Slots,
         worker'.at \in {worker.at, 0}, UNCHANGED caller, WorkerInv'
  PROVE  WatchInv'
<1>1. /\ slot' \in [Slots -> SlotStates] /\ caller' \in [Callers -> CallStates \cup {Away}]
      /\ before' \in [Slots -> {"none", "above", "below"}]
  BY DEF WatchInv, WatchTypes
<1>2. \A s \in Slots : SameWatch(s) /\ Remembers(s)'
  BY DEF WatchInv, SameWatch, Remembers
<1>3. \A c \in Callers : SameCall(caller[c], caller'[c])
  BY DEF SameCall
<1> QED BY <1>1, <1>2, <1>3, WorkerKeeps

LEMMA SweepStands ==
  ASSUME NEW T \in SUBSET Slots
  PROVE  Sweep(T) \in Stations /\ Sweep(T).pc = "sweep" /\ Sweep(T).at = 0
BY DEF Sweep, Stations

LEMMA WorkerLookKeeps ==
  ASSUME WatchInv, WorkerLook
  PROVE  WatchInv'
<1> PICK T : T = IF worker.todo = {} THEN Slots ELSE worker.todo
  OBVIOUS
<1> PICK s : s = Lowest(T)
  OBVIOUS
<1> PICK R : R = T \ {s}
  OBVIOUS
<1>1. /\ UNCHANGED <<slot, told, heard, clean, before, level>>
      /\ \/ worker' = Sweep(R) /\ UNCHANGED caller
         \/ /\ slot[s].kind # NoName /\ caller' = Noticed(s)
            /\ worker' = [Sweep(R) EXCEPT !.pc = IF slot[s].kind = "uart" THEN "take" ELSE "sample", !.at = s]
  BY DEF WorkerLook, world, saw
<1>2. T \subseteq Slots /\ R \in SUBSET Slots /\ s \in Slots
  <2>1. T \subseteq Slots /\ T # {} /\ T \subseteq Nat
    BY AtSlot, WatchAssumption DEF Slots
  <2>2. s \in T
    BY <2>1, LowestIsOne
  <2> QED BY <2>1, <2>2
<1>3. level' \in [Channels -> Nat]
  BY <1>1 DEF WatchInv, WatchTypes
<1>4. CASE worker' = Sweep(R) /\ UNCHANGED caller
  BY <1>1, <1>2, <1>3, <1>4, SweepStands, MoveKeeps DEF WorkerInv
<1>5. CASE /\ slot[s].kind # NoName /\ caller' = Noticed(s)
           /\ worker' = [Sweep(R) EXCEPT !.pc = IF slot[s].kind = "uart" THEN "take" ELSE "sample", !.at = s]
  <2>1. PICK pc \in {"take", "sample"} : /\ pc = "take" => slot[s].kind = "uart"
                                         /\ worker' = [Sweep(R) EXCEPT !.pc = pc, !.at = s]
    <3>1. CASE slot[s].kind = "uart"
      BY <1>5, <3>1
    <3>2. CASE slot[s].kind # "uart"
      BY <1>5, <3>2
    <3> QED BY <3>1, <3>2
  <2>2. worker' \in Stations /\ worker'.pc = pc /\ worker'.at = s
    <3> PICK q : q = Sweep(R)
      OBVIOUS
    <3>1. q \in Stations /\ worker' = [q EXCEPT !.pc = pc, !.at = s]
      BY <1>2, <2>1, SweepStands
    <3> QED BY <1>2, <3>1 DEF Stations
  <2>3. WorkerInv'
    BY <1>1, <2>1, <2>2 DEF WorkerInv
  <2>4. ASSUME NEW c \in Callers
        PROVE  /\ caller'[c] \in CallStates \cup {Away} /\ SameCall(caller[c], caller'[c])
               /\ worker'.at # caller[c].at \/ ~InCall(c) \/ ~caller'[c].calm
                    \/ caller[c].pc \notin {"find", "configure"}
    <3>1. caller[c] \in CallStates \cup {Away}
      BY DEF WatchInv, WatchTypes
    <3>2. CASE caller[c].pc \in {"find", "configure"} /\ caller[c].at = s
      <4> PICK k : k = [caller[c] EXCEPT !.calm = FALSE]
        OBVIOUS
      <4>1. caller'[c] = k
        BY <1>5, <3>2 DEF Noticed
      <4>2. caller[c] \in CallStates
        BY <3>1, <3>2 DEF Away
      <4>3. /\ k \in CallStates /\ ~k.calm /\ k.pc = caller[c].pc /\ k.watch = caller[c].watch
            /\ k.at = caller[c].at /\ k.alone = caller[c].alone
        BY <4>2 DEF CallStates
      <4> QED BY <4>1, <4>2, <4>3 DEF SameCall
    <3>3. CASE ~(caller[c].pc \in {"find", "configure"} /\ caller[c].at = s)
      <4>1. caller'[c] = caller[c]
        BY <1>5, <3>3 DEF Noticed
      <4> QED BY <2>2, <3>1, <3>3, <4>1 DEF SameCall
    <3> QED BY <3>2, <3>3
  <2>5. caller' \in [Callers -> CallStates \cup {Away}]
    BY <1>5, <2>4 DEF Noticed
  <2>6. /\ slot' \in [Slots -> SlotStates] /\ before' \in [Slots -> {"none", "above", "below"}]
        /\ \A x \in Slots : SameWatch(x) /\ Remembers(x)'
    BY <1>1 DEF WatchInv, WatchTypes, SameWatch, Remembers
  <2> QED BY <1>1, <1>2, <1>3, <2>2, <2>3, <2>4, <2>5, <2>6, WorkerKeeps
<1> QED BY <1>1, <1>4, <1>5

LEMMA TakeBytesKeeps ==
  ASSUME WatchInv, TakeBytes
  PROVE  WatchInv'
<1>1. /\ worker.pc = "take" /\ UNCHANGED <<slot, caller, told, clean, before, level>>
      /\ worker' = [worker EXCEPT !.pc = "emit", !.left = Names] \/ worker' = Sweep(worker.todo)
  BY DEF TakeBytes, callerSide, world, saw
<1>2. worker.at \in Slots /\ level' \in [Channels -> Nat]
  BY <1>1 DEF WatchInv, WatchTypes
<1>3. CASE worker' = Sweep(worker.todo)
  BY <1>1, <1>2, <1>3, SweepStands, AtSlot, MoveKeeps DEF WorkerInv
<1>4. CASE worker' = [worker EXCEPT !.pc = "emit", !.left = Names]
  <2>1. worker' \in Stations /\ worker'.pc = "emit" /\ worker'.at = worker.at
    BY <1>4, AtSlot DEF Stations
  <2>2. WorkerInv'
    BY <1>1, <2>1 DEF WatchInv, WorkerInv
  <2> QED BY <1>1, <1>2, <2>1, <2>2, MoveKeeps
<1> QED BY <1>1, <1>3, <1>4

LEMMA SampleKeeps ==
  ASSUME WatchInv, Sample
  PROVE  WatchInv'
<1> PICK n : n = level[slot[worker.at].chan]
  OBVIOUS
<1>1. /\ worker.pc = "sample" /\ UNCHANGED <<slot, caller, told, clean, before, level>>
      /\ worker' = [worker EXCEPT !.pc = "compare", !.raw = n]
  BY DEF Sample, callerSide, world, saw
<1>2. worker.at \in Slots /\ level' \in [Channels -> Nat] /\ n \in Nat
  BY <1>1, AtSlot DEF WatchInv, WatchTypes
<1>3. worker' \in Stations /\ worker'.pc = "compare" /\ worker'.at = worker.at
  BY <1>1, <1>2, AtSlot DEF Stations
<1> QED BY <1>1, <1>2, <1>3, MoveKeeps DEF WorkerInv

LEMMA CompareKeeps ==
  ASSUME WatchInv, Compare
  PROVE  WatchInv'
<1> PICK b \in BOOLEAN : b <=> worker.raw >= slot[worker.at].thr
  OBVIOUS
<1>1. /\ worker.pc = "compare" /\ UNCHANGED <<slot, caller, told, clean, before, level>>
      /\ worker' = [worker EXCEPT !.pc = "update", !.above = b]
  <2>1. b = (worker.raw >= slot[worker.at].thr)
    BY AtSlot DEF Compare, Stations
  <2> QED BY <2>1 DEF Compare, callerSide, world, saw
<1>2. worker.at \in Slots /\ level' \in [Channels -> Nat]
  BY <1>1 DEF WatchInv, WatchTypes
<1>3. /\ worker' \in Stations /\ worker'.pc = "update" /\ worker'.at = worker.at
      /\ worker'.above = b /\ worker'.raw = worker.raw
  BY <1>1, AtSlot DEF Stations
<1>4. WorkerInv'
  BY <1>1, <1>3 DEF WorkerInv
<1> QED BY <1>1, <1>2, <1>3, <1>4, MoveKeeps

LEMMA EmitKeeps ==
  ASSUME WatchInv, Emit
  PROVE  WatchInv'
<1> PICK n : n = CHOOSE m \in worker.left : TRUE
  OBVIOUS
<1> PICK L : L = worker.left \ {n}
  OBVIOUS
<1>1. /\ worker.pc = "emit" /\ UNCHANGED <<slot, caller, told, clean, before, level>>
      /\ worker' = [worker EXCEPT !.left = L] \/ worker' = Sweep(worker.todo)
  BY DEF Emit, callerSide, world, saw
<1>2. worker.at \in Slots /\ level' \in [Channels -> Nat]
  BY <1>1 DEF WatchInv, WatchTypes
<1>3. CASE worker' = Sweep(worker.todo)
  BY <1>1, <1>2, <1>3, SweepStands, AtSlot, MoveKeeps DEF WorkerInv
<1>4. CASE worker' = [worker EXCEPT !.left = L]
  <2>1. worker' \in Stations /\ worker'.pc = "emit" /\ worker'.at = worker.at /\ worker'.real = worker.real
    BY <1>1, <1>4, AtSlot DEF Stations
  <2>2. WorkerInv'
    BY <1>1, <2>1 DEF WatchInv, WorkerInv
  <2> QED BY <1>1, <1>2, <2>1, <2>2, MoveKeeps
<1> QED BY <1>1, <1>3, <1>4

LEMMA UpdateKeeps ==
  ASSUME WatchInv, Update
  PROVE  WatchInv'
<1>1. worker.pc = "update" /\ UNCHANGED <<caller, told, clean, level>>
  BY DEF Update, callerSide, world, saw
<1>2. PICK s \in Slots : s = worker.at
  BY <1>1, AtSlot
<1> PICK side : side = Side(worker.raw >= slot[s].thr)
  OBVIOUS
<1> PICK k : k = [slot[s] EXCEPT !.ready = TRUE, !.above = worker.above]
  OBVIOUS
<1>3. /\ k \in SlotStates /\ k.id = slot[s].id /\ k.kind = slot[s].kind /\ k.name = slot[s].name
      /\ k.chan = slot[s].chan /\ k.thr = slot[s].thr /\ k.ready /\ k.above = worker.above
  <2>1. worker.above \in BOOLEAN
    BY AtSlot DEF Stations
  <2> QED BY <2>1, AtSlot DEF SlotStates
<1>4. slot' = [slot EXCEPT ![s] = k]
  BY <1>2 DEF Update, WatchInv, WatchTypes
<1>5. /\ slot' \in [Slots -> SlotStates] /\ slot'[s] = k
      /\ \A x \in Slots : SameWatch(x) /\ (x # s => slot'[x] = slot[x])
  BY <1>3, <1>4 DEF WatchInv, WatchTypes, SameWatch
<1>6. side \in {"above", "below"}
  BY DEF Side
<1>7. before' = IF s \in clean THEN [before EXCEPT ![s] = side] ELSE before
  BY <1>2 DEF Update, saw
<1>8. /\ before' \in [Slots -> {"none", "above", "below"}]
      /\ s \in clean => before'[s] = side
      /\ \A x \in Slots : x # s => before'[x] = before[x]
  BY <1>6, <1>7 DEF WatchInv, WatchTypes
<1>9. s \in clean => side = Side(worker.above)
  BY <1>1, <1>2 DEF WatchInv, WorkerInv, Side
<1>10. \A x \in Slots : Remembers(x)'
  <2> SUFFICES ASSUME NEW x \in Slots, x \in clean
               PROVE  before'[x] = IF slot'[x].ready THEN Side(slot'[x].above) ELSE "none"
    BY <1>1 DEF Remembers
  <2>1. CASE x = s
    BY <1>3, <1>5, <1>8, <1>9, <2>1
  <2>2. CASE x # s
    BY <1>5, <1>8, <2>2 DEF WatchInv, Remembers
  <2> QED BY <2>1, <2>2
<1>11. PICK b \in BOOLEAN : b <=> before[s] \notin {"none", side}
  OBVIOUS
<1>12. /\ worker' \in Stations /\ (worker'.pc # "sweep" => worker'.at \in Slots) /\ worker'.at \in {worker.at, 0}
       /\ WorkerInv'
  <2>1. CASE ~Crossed(s)
    BY <1>2, <2>1, SweepStands, AtSlot DEF Update, WorkerInv
  <2>2. CASE Crossed(s)
    <3>1. worker' = [worker EXCEPT !.pc = "emit", !.left = Names, !.raw = 0, !.real = b]
      <4>1. b = (before[s] \notin {"none", side})
        BY <1>11
      <4> QED BY <1>2, <2>2, <4>1 DEF Update
    <3>2. worker' \in Stations /\ worker'.pc = "emit" /\ worker'.at = s /\ worker'.real = b
      BY <1>2, <3>1, AtSlot DEF Stations
    <3>3. s \in clean => b
      <4>1. slot[s].ready /\ slot[s].above # worker.above /\ slot[s].above \in BOOLEAN /\ worker.above \in BOOLEAN
        BY <2>2, AtSlot DEF Crossed, SlotStates, Stations
      <4>2. s \in clean => before[s] = Side(slot[s].above)
        BY <4>1 DEF WatchInv, Remembers
      <4> QED BY <1>9, <1>11, <4>1, <4>2 DEF Side
    <3> QED BY <1>1, <1>2, <3>2, <3>3 DEF WorkerInv
  <2> QED BY <2>1, <2>2
<1>13. caller' \in [Callers -> CallStates \cup {Away}] /\ level' \in [Channels -> Nat]
       /\ \A c \in Callers : SameCall(caller[c], caller'[c])
  BY <1>1 DEF WatchInv, WatchTypes, SameCall
<1> QED BY <1>1, <1>2, <1>5, <1>8, <1>10, <1>12, <1>13, WorkerKeeps

LEMMA WorldKeeps ==
  ASSUME WatchInv, World
  PROVE  WatchInv'
<1>1. /\ UNCHANGED <<slot, worker, caller, told, clean, before>>
      /\ \E ch \in Channels, l \in Levels : level' = [level EXCEPT ![ch] = l]
  BY DEF World, callerSide, saw
<1>2. level' \in [Channels -> Nat]
  BY <1>1, WatchAssumption DEF WatchInv, WatchTypes
<1>3. WorkerInv'
  BY <1>1 DEF WatchInv, WorkerInv
<1> QED BY <1>1, <1>2, <1>3, MoveKeeps DEF WatchInv, WatchTypes
-----------------------------------------------------------------------------
(* Callers                                                                 *)

LEMMA CallFields ==
  ASSUME WatchInv, NEW c \in Callers, InCall(c)
  PROVE  /\ caller[c] \in CallStates /\ caller[c].watch \in Watches /\ caller[c].at \in Slots
         /\ caller[c].watch.id \in WatchIds /\ Apart(c) /\ Alone(c)
<1>1. caller[c] \in CallStates /\ Apart(c) /\ Alone(c)
  BY DEF WatchInv, WatchTypes, InCall, Away
<1> QED BY <1>1, WatchFields DEF CallStates

\* A call starts with a slot that holds its watch, or with a free one if none does.
LEMMA EnterKeeps ==
  ASSUME WatchInv, NEW c \in Callers, NEW w \in Watches, NEW pc \in {"claim", "clear"}, NEW s \in Slots,
         Enter(c, w, pc, s), UNCHANGED <<slot, worker, clean, before, level>>,
         slot[s].id \in {w.id, NoName},
         slot[s].id = NoName => \A x \in Slots : slot[x].id # w.id
  PROVE  WatchInv'
<1> PICK a \in BOOLEAN : a <=> ~Doubled(w.id) /\ \A d \in Callers \ {c} : caller[d].pc = "away"
  OBVIOUS
<1> PICK k : k = [pc |-> pc, watch |-> w, at |-> s, alone |-> a, calm |-> TRUE]
  OBVIOUS
<1>1. /\ caller[c].pc = "away" /\ told' = [told EXCEPT ![w.id] = Unknown]
      /\ caller' = [d \in Callers |-> IF d = c THEN k ELSE IF caller[d].pc = "away" THEN Away
                                      ELSE [caller[d] EXCEPT !.alone = FALSE]]
  <2>1. a = (~Doubled(w.id) /\ \A d \in Callers \ {c} : caller[d].pc = "away")
    OBVIOUS
  <2> QED BY <2>1 DEF Enter
<1>2. k \in CallStates /\ k.pc = pc /\ k.watch = w /\ k.at = s /\ k.alone = a
  BY DEF CallStates
<1>3. ASSUME NEW d \in Callers, d # c
      PROVE  /\ caller'[d] \in CallStates \cup {Away} /\ (InCall(d)' <=> InCall(d))
             /\ InCall(d) => /\ ~caller'[d].alone /\ caller'[d].pc = caller[d].pc
                             /\ caller'[d].watch = caller[d].watch /\ caller'[d].at = caller[d].at
  <2>1. CASE ~InCall(d)
    BY <1>1, <1>3, <2>1 DEF InCall, Away
  <2>2. CASE InCall(d)
    <3> PICK l : l = [caller[d] EXCEPT !.alone = FALSE]
      OBVIOUS
    <3>1. caller'[d] = l
      BY <1>1, <1>3, <2>2 DEF InCall
    <3>2. /\ l \in CallStates /\ ~l.alone /\ l.pc = caller[d].pc /\ l.watch = caller[d].watch
          /\ l.at = caller[d].at
      BY <2>2, CallFields DEF CallStates
    <3> QED BY <2>2, <3>1, <3>2 DEF InCall
  <2> QED BY <2>1, <2>2
<1>4. caller'[c] = k /\ caller' \in [Callers -> CallStates \cup {Away}]
  BY <1>1, <1>2, <1>3
<1>5. /\ told' \in [WatchIds -> Watches \cup {Unknown, None}] /\ told'[w.id] = Unknown
      /\ \A id \in WatchIds : told'[id] # Unknown => id # w.id /\ told'[id] = told[id]
  BY <1>1, WatchFields DEF WatchInv, WatchTypes
<1>6. WatchTypes'
  BY <1>4, <1>5 DEF WatchInv, WatchTypes
<1>7. ToldInv'
  BY <1>5 DEF WatchInv, ToldInv, Kept
<1>8. WorkerInv' /\ \A x \in Slots : Remembers(x)'
  BY DEF WatchInv, WorkerInv, Remembers
<1>9. Apart(c)'
  BY <1>2, <1>4, <1>5, NoNameIsNoId DEF Apart
<1>10. Alone(c)'
  <2> SUFFICES ASSUME a PROVE /\ \A d \in Callers \ {c} : ~InCall(d)'
                              /\ Sole(c)'
    BY <1>2, <1>4 DEF Alone
  <2>1. Sole(c)'
    BY <1>2, <1>4 DEF Sole, Doubled
  <2> QED BY <1>3, <2>1 DEF InCall
<1>11. ASSUME NEW d \in Callers, d # c PROVE Apart(d)' /\ Alone(d)'
  <2>1. CASE ~InCall(d)
    BY <1>3, <1>11, <2>1 DEF Apart, Alone
  <2>2. CASE InCall(d)
    <3>1. Apart(d)'
      BY <1>3, <1>5, <1>11, <2>2, CallFields DEF Apart
    <3> QED BY <1>3, <1>11, <2>2, <3>1 DEF Alone
  <2> QED BY <2>1, <2>2
<1> QED BY <1>6, <1>7, <1>8, <1>9, <1>10, <1>11 DEF WatchInv

LEMMA AddFindKeeps ==
  ASSUME WatchInv, NEW c \in Callers, AddFind(c)
  PROVE  WatchInv'
<1> PICK w \in Watches : FindOrFree(w.id) # 0 /\ Enter(c, w, "claim", FindOrFree(w.id))
  BY DEF AddFind
<1> PICK s : s = FindOrFree(w.id)
  OBVIOUS
<1>1. UNCHANGED <<slot, worker, clean, before, level>>
  BY DEF AddFind, world, saw
<1>2. /\ s \in Slots /\ slot[s].id \in {w.id, NoName}
      /\ slot[s].id = NoName => \A x \in Slots : slot[x].id # w.id
  BY Finds, WatchFields
<1> QED BY <1>1, <1>2, EnterKeeps

LEMMA RemoveFindKeeps ==
  ASSUME WatchInv, NEW c \in Callers, RemoveFind(c)
  PROVE  WatchInv'
<1> PICK w \in Watches : Find(w.id) # 0 /\ Enter(c, w, "clear", Find(w.id))
  BY DEF RemoveFind
<1> PICK s : s = Find(w.id)
  OBVIOUS
<1>1. UNCHANGED <<slot, worker, clean, before, level>>
  BY DEF RemoveFind, world, saw
<1>2. s \in Slots /\ slot[s].id = w.id /\ w.id # NoName
  BY Finds, WatchFields
<1> QED BY <1>1, <1>2, EnterKeeps

LEMMA AddClaimKeeps ==
  ASSUME WatchInv, NEW c \in Callers, AddClaim(c)
  PROVE  WatchInv'
<1>1. caller[c].pc = "claim" /\ InCall(c) /\ UNCHANGED <<worker, told, level>>
  BY DEF AddClaim, InCall, world, saw
<1>2. PICK s \in Slots, w \in Watches : s = caller[c].at /\ w = caller[c].watch
  BY <1>1, CallFields
<1> PICK r : r = [Cleared EXCEPT !.id = w.id, !.kind = w.kind, !.name = w.name]
  OBVIOUS
<1> PICK a \in BOOLEAN : a <=> worker.at # s
  OBVIOUS
<1> PICK k : k = [caller[c] EXCEPT !.pc = "find", !.calm = a]
  OBVIOUS
<1>3. /\ slot' = [slot EXCEPT ![s] = r] /\ caller' = [caller EXCEPT ![c] = k]
      /\ clean' = clean \ {s} /\ before' = [before EXCEPT ![s] = "none"]
  <2>1. a = (worker.at # s)
    OBVIOUS
  <2>2. caller' = [caller EXCEPT ![c].pc = "find", ![c].calm = a]
    BY <1>2, <2>1 DEF AddClaim
  <2> QED BY <1>2, <2>2 DEF AddClaim, Forget
<1>4. /\ r \in SlotStates /\ r.id = w.id /\ r.kind = w.kind /\ r.name = w.name /\ r.chan = 0 /\ r.thr = 0 /\ ~r.ready
  BY WatchFields, WatchAssumption DEF Cleared, SlotStates
<1>5. k \in CallStates /\ k.pc = "find" /\ k.watch = w /\ k.at = s /\ k.alone = caller[c].alone /\ k.calm = a
  BY <1>1, <1>2, CallFields DEF CallStates
<1>6. /\ slot' \in [Slots -> SlotStates] /\ slot'[s] = r /\ \A x \in Slots : x # s => slot'[x] = slot[x]
      /\ before' \in [Slots -> {"none", "above", "below"}] /\ before'[s] = "none"
      /\ \A x \in Slots : x # s => before'[x] = before[x]
      /\ caller' \in [Callers -> CallStates \cup {Away}] /\ caller'[c] = k
      /\ \A d \in Callers : d # c => caller'[d] = caller[d]
  BY <1>3, <1>4, <1>5 DEF WatchInv, WatchTypes
<1>7. told[w.id] = Unknown /\ w.id \in WatchIds /\ (\A id \in WatchIds : told[id] # Unknown => slot[s].id # id)
  BY <1>1, <1>2, CallFields DEF Apart
<1>8. WatchTypes'
  BY <1>1, <1>3, <1>6 DEF WatchInv, WatchTypes
<1>9. ToldInv'
  <2> SUFFICES ASSUME NEW id \in WatchIds, told[id] # Unknown
               PROVE  /\ told[id] = None => \A x \in Slots : slot'[x].id # id
                      /\ told[id] # None =>
                           /\ told[id] \in Watches /\ told[id].id = id
                           /\ \E x \in Slots : Kept(x, told[id])' /\ \A t \in Slots : slot'[t].id = id => t = x
    BY <1>1 DEF ToldInv
  <2>1. id # w.id /\ slot[s].id # id
    BY <1>7
  <2>2. ASSUME NEW x \in Slots PROVE slot'[x].id = id <=> slot[x].id = id
    <3>1. CASE x = s
      BY <1>4, <1>6, <2>1, <3>1
    <3>2. CASE x # s
      BY <1>6, <3>2
    <3> QED BY <3>1, <3>2
  <2>3. CASE told[id] = None
    <3>1. \A x \in Slots : slot[x].id # id
      BY <2>3 DEF WatchInv, ToldInv
    <3> QED BY <2>2, <2>3, <3>1
  <2>4. CASE told[id] # None
    <3>1. told[id] \in Watches /\ told[id].id = id
      BY <2>4 DEF WatchInv, ToldInv
    <3>2. PICK x \in Slots : Kept(x, told[id]) /\ \A t \in Slots : slot[t].id = id => t = x
      BY <2>4 DEF WatchInv, ToldInv
    <3>3. x # s
      BY <2>1, <3>1, <3>2 DEF Kept
    <3>4. Kept(x, told[id])'
      BY <1>1, <1>6, <3>2, <3>3 DEF Kept
    <3> QED BY <2>2, <2>4, <3>1, <3>2, <3>4
  <2> QED BY <2>3, <2>4
<1>10. WorkerInv' /\ \A x \in Slots : Remembers(x)'
  BY <1>1, <1>3, <1>6 DEF WatchInv, WatchTypes, WorkerInv, Remembers
<1>11. Apart(c)' /\ Alone(c)'
  <2>1. Apart(c)'
    BY <1>1, <1>5, <1>6, <1>7 DEF Apart
  <2>2. ASSUME caller[c].alone PROVE (\A d \in Callers \ {c} : ~InCall(d)) /\ Sole(c)
    BY <1>1, <2>2, CallFields DEF Alone
  <2>3. caller[c].alone => Sole(c)'
    BY <1>2, <1>5, <1>6, <2>2 DEF Sole
  <2>4. caller'[c].at = s /\ caller'[c].watch = w /\ slot'[caller'[c].at] = r
    BY <1>5, <1>6
  <2>5. Claimed(c)'
    BY <1>4, <2>4 DEF Claimed
  <2>6. \A d \in Callers \ {c} : ~InCall(d) => ~InCall(d)'
    BY <1>6 DEF InCall
  <2>7. caller'[c].calm => ~slot'[s].ready /\ before'[s] = "none" /\ worker'.at # s
    BY <1>1, <1>4, <1>5, <1>6
  <2>8. caller'[c].alone = caller[c].alone
    BY <1>5, <1>6
  <2> QED BY <2>1, <2>2, <2>3, <2>4, <2>5, <2>6, <2>7, <2>8 DEF Alone
<1>12. ASSUME NEW d \in Callers, d # c PROVE Apart(d)' /\ Alone(d)'
  <2>1. CASE ~InCall(d)
    BY <1>6, <1>12, <2>1 DEF Apart, Alone, InCall
  <2>2. CASE InCall(d)
    <3>1. caller[d].at \in Slots /\ Apart(d) /\ caller'[d] = caller[d] /\ caller[d].watch.id \in WatchIds
      BY <1>6, <1>12, <2>2, CallFields
    <3>2. Apart(d)'
      <4> SUFFICES ASSUME NEW id \in WatchIds, caller[d].pc # "find", told[id] # Unknown
                   PROVE  slot'[caller[d].at].id # id
        BY <1>1, <2>2, <3>1 DEF Apart
      <4>1. slot[caller[d].at].id # id /\ id # w.id
        BY <1>7, <2>2, <3>1 DEF Apart
      <4>2. CASE caller[d].at = s
        BY <1>4, <1>6, <4>1, <4>2
      <4>3. CASE caller[d].at # s
        BY <1>6, <3>1, <4>1, <4>3
      <4> QED BY <4>2, <4>3
    <3>3. ~caller[d].alone
      BY <1>1, <1>12, <2>2, CallFields DEF Alone
    <3> QED BY <3>1, <3>2, <3>3 DEF Alone, InCall
  <2> QED BY <2>1, <2>2
<1> QED BY <1>8, <1>9, <1>10, <1>11, <1>12 DEF WatchInv

\* A call ends: it changed no slot that somebody relies on, and what it says of its
\* own watch is so. Nobody else was in a call if it says anything.
LEMMA LeaveKeeps ==
  ASSUME WatchInv, NEW c \in Callers, InCall(c), NEW s \in Slots,
         NEW t \in Watches \cup {Unknown, None}, Leave(c, t),
         UNCHANGED <<worker, level, before>>, clean' \subseteq Slots,
         slot' \in [Slots -> SlotStates], \A x \in Slots : x # s => slot'[x] = slot[x],
         \A id \in WatchIds : told[id] # Unknown => slot'[s] = slot[s] \/ (slot[s].id # id /\ slot'[s].id # id),
         caller[c].alone /\ t = None => \A x \in Slots : slot'[x].id # caller[c].watch.id,
         caller[c].alone /\ t \in Watches => /\ t.id = caller[c].watch.id /\ Kept(s, t)'
                                             /\ \A x \in Slots : slot'[x].id = t.id => x = s,
         WorkerInv', \A x \in Slots : Remembers(x)'
  PROVE  WatchInv'
<1> PICK own \in WatchIds : own = caller[c].watch.id
  BY CallFields
<1>1. /\ caller' \in [Callers -> CallStates \cup {Away}] /\ caller'[c] = Away
      /\ \A d \in Callers : d # c => caller'[d] = caller[d]
  BY DEF WatchInv, WatchTypes, Leave
<1>2. /\ told' \in [WatchIds -> Watches \cup {Unknown, None}]
      /\ \A id \in WatchIds : told'[id] = IF caller[c].alone /\ id = own THEN t ELSE told[id]
  BY DEF WatchInv, WatchTypes, Leave
<1>3. WatchTypes'
  BY <1>1, <1>2 DEF WatchInv, WatchTypes
<1>4. told[own] = Unknown
  BY CallFields DEF Apart
<1>5. ASSUME NEW id \in WatchIds, told[id] # Unknown, NEW x \in Slots
      PROVE  (slot'[x].id = id <=> slot[x].id = id) /\ (slot[x].id = id => slot'[x] = slot[x])
  <2>1. CASE x = s
    BY <1>5, <2>1
  <2>2. CASE x # s
    BY <2>2
  <2> QED BY <2>1, <2>2
<1>6. ToldInv'
  <2> SUFFICES ASSUME NEW id \in WatchIds, told'[id] # Unknown
               PROVE  /\ told'[id] = None => \A x \in Slots : slot'[x].id # id
                      /\ told'[id] # None =>
                           /\ told'[id] \in Watches /\ told'[id].id = id
                           /\ \E x \in Slots : Kept(x, told[id])' /\ \A y \in Slots : slot'[y].id = id => y = x
    BY DEF ToldInv
  <2>1. CASE caller[c].alone /\ id = own
    <3>1. told'[id] = t
      BY <1>2, <2>1
    <3>2. CASE t = None
      BY <2>1, <3>1, <3>2
    <3>3. CASE t # None
      <4>1. t \in Watches /\ t.id = id /\ Kept(s, t)' /\ \A x \in Slots : slot'[x].id = id => x = s
        BY <2>1, <3>1, <3>3
      <4>2. Kept(s, told[id])'
        BY <3>1, <4>1 DEF Kept
      <4> QED BY <3>1, <3>3, <4>1, <4>2
    <3> QED BY <3>2, <3>3
  <2>2. CASE ~(caller[c].alone /\ id = own)
    <3>1. told'[id] = told[id] /\ told[id] # Unknown
      BY <1>2, <2>2
    <3>2. CASE told[id] = None
      <4>1. \A x \in Slots : slot[x].id # id
        BY <3>1, <3>2 DEF WatchInv, ToldInv
      <4> QED BY <1>5, <3>1, <3>2, <4>1
    <3>3. CASE told[id] # None
      <4>1. told[id] \in Watches /\ told[id].id = id
        BY <3>1, <3>3 DEF WatchInv, ToldInv
      <4>2. PICK x \in Slots : Kept(x, told[id]) /\ \A y \in Slots : slot[y].id = id => y = x
        BY <3>1, <3>3 DEF WatchInv, ToldInv
      <4>3. slot'[x] = slot[x]
        BY <1>5, <3>1, <4>1, <4>2 DEF Kept
      <4>4. Kept(x, told[id])'
        BY <3>1, <4>2, <4>3 DEF Kept
      <4>5. \A y \in Slots : slot'[y].id = id => y = x
        BY <1>5, <3>1, <4>2
      <4> QED BY <3>1, <3>3, <4>1, <4>4, <4>5
    <3> QED BY <3>2, <3>3
  <2> QED BY <2>1, <2>2
<1>7. ASSUME NEW d \in Callers PROVE Apart(d)' /\ Alone(d)'
  <2>1. CASE d = c
    BY <1>1, <2>1 DEF Apart, Alone, InCall, Away
  <2>2. CASE d # c /\ ~InCall(d)
    BY <1>1, <2>2 DEF Apart, Alone, InCall
  <2>3. CASE d # c /\ InCall(d)
    <3>1. ~caller[c].alone /\ ~caller[d].alone
      BY <2>3, CallFields DEF Alone
    <3>2. /\ caller'[d] = caller[d] /\ caller[d].at \in Slots /\ caller[d].watch.id \in WatchIds
          /\ \A id \in WatchIds : told'[id] = told[id]
      BY <1>1, <1>2, <2>3, <3>1, CallFields
    <3>3. told'[caller[d].watch.id] = Unknown
      BY <2>3, <3>2, CallFields DEF Apart
    <3>4. ASSUME NEW id \in WatchIds, caller[d].pc # "find", told[id] # Unknown
          PROVE  slot'[caller[d].at].id # id
      <4>1. slot[caller[d].at].id # id
        BY <2>3, <3>4, CallFields DEF Apart
      <4> QED BY <1>5, <3>2, <3>4, <4>1
    <3>5. Apart(d)'
      BY <3>2, <3>3, <3>4 DEF Apart
    <3> QED BY <3>1, <3>2, <3>5 DEF Alone
  <2> QED BY <2>1, <2>2, <2>3
<1> QED BY <1>3, <1>6, <1>7 DEF WatchInv

\* The id is looked up again by a call that is alone: it is where AddClaim put it.
LEMMA AddFindAgainKeeps ==
  ASSUME WatchInv, NEW c \in Callers, AddFindAgain(c)
  PROVE  WatchInv'
<1>1. caller[c].pc = "find" /\ InCall(c) /\ UNCHANGED <<slot, worker, clean, before, level>>
  BY DEF AddFindAgain, InCall, world, saw
<1> PICK own \in WatchIds : own = caller[c].watch.id
  BY <1>1, CallFields
<1> PICK s : s = Find(own)
  OBVIOUS
<1>2. WorkerInv' /\ \A x \in Slots : Remembers(x)'
  BY <1>1 DEF WatchInv, WorkerInv, Remembers
<1>3. CASE s = 0
  <2>1. Leave(c, Unknown)
    BY <1>3 DEF AddFindAgain
  <2>2. PICK x \in Slots : x = caller[c].at
    BY <1>1, CallFields
  <2>3. slot' \in [Slots -> SlotStates] /\ clean' \subseteq Slots
    BY <1>1 DEF WatchInv, WatchTypes
  <2>4. Unknown \notin Watches /\ Unknown # None
    BY WatchFields DEF Unknown, None
  <2> QED BY <1>1, <1>2, <2>1, <2>2, <2>3, <2>4, LeaveKeeps
<1>4. CASE s # 0
  <2>1. s \in Slots /\ slot[s].id = own
    BY <1>4, Finds
  <2>2. PICK k : k = [caller[c] EXCEPT !.pc = "configure", !.at = s]
    OBVIOUS
  <2>3. told' = told /\ caller' = [caller EXCEPT ![c] = k]
    BY <1>4, <2>2 DEF AddFindAgain
  <2>4. /\ k \in CallStates /\ k.pc = "configure" /\ k.watch = caller[c].watch /\ k.at = s
        /\ k.alone = caller[c].alone /\ k.calm = caller[c].calm
    BY <1>1, <2>1, <2>2, CallFields DEF CallStates
  <2>5. /\ caller' \in [Callers -> CallStates \cup {Away}] /\ caller'[c] = k
        /\ \A d \in Callers : d # c => caller'[d] = caller[d]
    BY <2>3, <2>4 DEF WatchInv, WatchTypes
  <2>6. WatchTypes' /\ ToldInv'
    BY <1>1, <2>3, <2>5 DEF WatchInv, WatchTypes, ToldInv, Kept
  <2>7. Apart(c)'
    <3>1. told[own] = Unknown
      BY <1>1, CallFields DEF Apart
    <3> QED BY <1>1, <2>1, <2>3, <2>4, <2>5, <3>1 DEF Apart
  <2>8. Alone(c)'
    <3> SUFFICES ASSUME caller[c].alone PROVE Alone(c)'
      BY <2>4, <2>5 DEF Alone
    <3>1. Alone(c) /\ caller[c].at \in Slots
      BY <1>1, CallFields
    <3>2. s = caller[c].at
      BY <1>1, <2>1, <3>1 DEF Alone, Sole
    <3>3. \A d \in Callers \ {c} : ~InCall(d)'
      BY <1>1, <2>5, <3>1 DEF Alone, InCall
    <3>4. Sole(c)' /\ Claimed(c)'
      BY <1>1, <2>4, <2>5, <3>1, <3>2 DEF Alone, Sole, Claimed
    <3>5. caller'[c].calm => ~slot'[s].ready /\ before'[s] = "none" /\ worker'.at # s
      BY <1>1, <2>4, <2>5, <3>1, <3>2 DEF Alone
    <3> QED BY <2>4, <2>5, <3>3, <3>4, <3>5 DEF Alone
  <2>9. ASSUME NEW d \in Callers, d # c PROVE Apart(d)' /\ Alone(d)'
    <3>1. CASE ~InCall(d)
      BY <2>5, <2>9, <3>1 DEF Apart, Alone, InCall
    <3>2. CASE InCall(d)
      <4>1. ~caller[d].alone /\ Apart(d)
        BY <1>1, <2>9, <3>2, CallFields DEF Alone
      <4> QED BY <1>1, <2>3, <2>5, <2>9, <4>1 DEF Apart, Alone, InCall
    <3> QED BY <3>1, <3>2
  <2> QED BY <1>2, <2>6, <2>7, <2>8, <2>9 DEF WatchInv
<1> QED BY <1>3, <1>4

\* A slot becomes one that was configured unseen only if it is as AddClaim left it.
LEMMA AddConfigureKeeps ==
  ASSUME WatchInv, NEW c \in Callers, AddConfigure(c)
  PROVE  WatchInv'
<1>1. caller[c].pc = "configure" /\ InCall(c) /\ UNCHANGED <<worker, level, before>>
  BY DEF AddConfigure, InCall, world, saw
<1>2. PICK s \in Slots, w \in Watches : s = caller[c].at /\ w = caller[c].watch
  BY <1>1, CallFields
<1>3. PICK r : r = IF w.kind = "uart" THEN slot[s] ELSE [slot[s] EXCEPT !.chan = w.chan, !.thr = w.thr]
  OBVIOUS
<1>4. /\ slot' = [slot EXCEPT ![s] = r]
      /\ clean' = IF caller[c].alone /\ caller[c].calm THEN clean \cup {s} ELSE clean \ {s}
      /\ Leave(c, w)
  BY <1>2, <1>3 DEF AddConfigure
<1>5. /\ r \in SlotStates /\ r.id = slot[s].id /\ r.kind = slot[s].kind /\ r.name = slot[s].name
      /\ r.ready = slot[s].ready /\ r.above = slot[s].above
      /\ w.kind # "uart" => r.chan = w.chan /\ r.thr = w.thr
      /\ w.kind = "uart" => r.chan = slot[s].chan /\ r.thr = slot[s].thr
  <2>1. slot[s] \in SlotStates /\ w.chan \in Channels /\ w.thr \in Nat
    BY WatchFields DEF WatchInv, WatchTypes
  <2>2. CASE w.kind = "uart"
    BY <1>3, <2>1, <2>2
  <2>3. CASE w.kind # "uart"
    <3>1. r = [slot[s] EXCEPT !.chan = w.chan, !.thr = w.thr]
      BY <1>3, <2>3
    <3> QED BY <2>1, <2>3, <3>1 DEF SlotStates
  <2> QED BY <2>2, <2>3
<1>6. /\ slot' \in [Slots -> SlotStates] /\ slot'[s] = r /\ \A x \in Slots : x # s => slot'[x] = slot[x]
      /\ clean' \subseteq Slots
  BY <1>4, <1>5 DEF WatchInv, WatchTypes
<1>7. \A id \in WatchIds : told[id] # Unknown => slot[s].id # id /\ slot'[s].id # id
  BY <1>1, <1>2, <1>5, <1>6, CallFields DEF Apart
<1>8. caller[c].alone => /\ Sole(c) /\ Claimed(c)
                         /\ caller[c].calm => ~slot[s].ready /\ before[s] = "none" /\ worker.at # s
  BY <1>1, <1>2, CallFields DEF Alone
<1>9. w.kind = "uart" => w.chan = 0 /\ w.thr = 0
  BY WatchAssumption
<1>10. ASSUME caller[c].alone
       PROVE  Kept(s, w)' /\ \A x \in Slots : slot'[x].id = w.id => x = s
  <2>1. slot[s].id = w.id /\ slot[s].kind = w.kind /\ slot[s].name = w.name /\ slot[s].chan = 0 /\ slot[s].thr = 0
    BY <1>2, <1>8, <1>10 DEF Claimed
  <2>2. Kept(s, w)'
    BY <1>5, <1>6, <1>9, <2>1 DEF Kept
  <2>3. \A x \in Slots : slot'[x].id = w.id => x = s
    BY <1>2, <1>6, <1>8, <1>10 DEF Sole
  <2> QED BY <2>2, <2>3
<1>11. \A x \in Slots : x # s => (x \in clean' <=> x \in clean)
  BY <1>4
<1>12. s \in clean' => ~slot[s].ready /\ before[s] = "none" /\ worker.at # s
  BY <1>4, <1>8
<1>13. WorkerInv'
  <2> SUFFICES ASSUME worker.pc # "sweep", worker.at \in clean' PROVE WorkerInv'
    BY <1>1 DEF WorkerInv
  <2>1. worker.at \in Slots /\ worker.at # s
    BY <1>6, <1>12
  <2>2. worker.at \in clean /\ slot'[worker.at] = slot[worker.at]
    BY <1>6, <1>11, <2>1
  <2> QED BY <1>1, <2>2 DEF WatchInv, WorkerInv
<1>14. ASSUME NEW x \in Slots PROVE Remembers(x)'
  <2>1. CASE x = s
    BY <1>1, <1>5, <1>6, <1>12, <2>1 DEF Remembers
  <2>2. CASE x # s
    <3>1. Remembers(x)
      BY DEF WatchInv
    <3> QED BY <1>1, <1>6, <1>11, <2>2, <3>1 DEF Remembers
  <2> QED BY <2>1, <2>2
<1>15. w # None /\ w.id = caller[c].watch.id
  BY <1>2, WatchFields
<1> QED BY <1>1, <1>4, <1>6, <1>7, <1>10, <1>13, <1>14, <1>15, LeaveKeeps

LEMMA RemoveClearKeeps ==
  ASSUME WatchInv, NEW c \in Callers, RemoveClear(c)
  PROVE  WatchInv'
<1>1. caller[c].pc = "clear" /\ InCall(c) /\ UNCHANGED <<worker, level, before>> /\ Leave(c, None)
  BY DEF RemoveClear, InCall, world, saw
<1>2. PICK s \in Slots, own \in WatchIds : s = caller[c].at /\ own = caller[c].watch.id
  BY <1>1, CallFields
<1>3. Cleared \in SlotStates /\ Cleared.id = NoName
  BY WatchAssumption DEF Cleared, SlotStates
<1>4. slot' = [slot EXCEPT ![s] = Cleared] /\ clean' = clean \ {s}
  BY <1>2 DEF RemoveClear
<1>5. /\ slot' \in [Slots -> SlotStates] /\ slot'[s].id = NoName /\ \A x \in Slots : x # s => slot'[x] = slot[x]
      /\ clean' \subseteq Slots
  BY <1>3, <1>4 DEF WatchInv, WatchTypes
<1>6. \A id \in WatchIds : told[id] # Unknown => slot[s].id # id /\ slot'[s].id # id
  BY <1>1, <1>2, <1>5, CallFields, NoNameIsNoId DEF Apart
<1>7. ASSUME caller[c].alone, NEW x \in Slots PROVE slot'[x].id # own
  <2>1. CASE x = s
    BY <1>5, <2>1, NoNameIsNoId
  <2>2. CASE x # s
    BY <1>1, <1>2, <1>5, <1>7, <2>2, CallFields DEF Alone, Sole
  <2> QED BY <2>1, <2>2
<1>8. WorkerInv'
  BY <1>1, <1>4, <1>5 DEF WatchInv, WatchTypes, WorkerInv
<1>9. \A x \in Slots : Remembers(x)'
  BY <1>1, <1>4, <1>5 DEF WatchInv, Remembers
<1>10. None \notin Watches
  BY WatchFields
<1> QED BY <1>1, <1>2, <1>5, <1>6, <1>7, <1>8, <1>9, <1>10, LeaveKeeps
-----------------------------------------------------------------------------
(* The theorems                                                            *)

LEMMA WatchStep == WatchInv /\ [WatchNext]_watchVars => WatchInv'
<1> SUFFICES ASSUME WatchInv, [WatchNext]_watchVars PROVE WatchInv'
  OBVIOUS
<1>1. CASE Worker
  BY <1>1, WorkerLookKeeps, TakeBytesKeeps, SampleKeeps, CompareKeeps, UpdateKeeps, EmitKeeps DEF Worker
<1>2. CASE World
  BY <1>2, WorldKeeps
<1>3. ASSUME NEW c \in Callers, Calling(c) PROVE WatchInv'
  BY <1>3, AddFindKeeps, AddClaimKeeps, AddFindAgainKeeps, AddConfigureKeeps, RemoveFindKeeps,
     RemoveClearKeeps DEF Calling
<1>4. CASE UNCHANGED watchVars
  BY <1>4 DEF watchVars, WatchInv, WatchTypes, ToldInv, Kept, WorkerInv, Apart, Alone, InCall, Sole, Claimed,
     Remembers
<1> QED BY <1>1, <1>2, <1>3, <1>4 DEF WatchNext

LEMMA WatchAlways == WatchSpec => []WatchInv
<1> QED BY InitWatch, WatchStep, PTL DEF WatchSpec

\* A watch that an undisturbed call added is in one slot with the configuration asked
\* for, one it removed in none, until the next call on its id, whatever other callers
\* and the worker do in between (event_watch.c:356-409).
THEOREM WatchesStay == WatchSpec => []AddedIsWatched
<1>1. WatchInv => AddedIsWatched
  <2> SUFFICES ASSUME WatchInv, NEW id \in WatchIds, told[id] # Unknown
               PROVE  LET held == {s \in Slots : slot[s].id = id} IN
                      IF told[id] = None THEN held = {}
                      ELSE \E s \in Slots : /\ held = {s}
                                            /\ \A f \in DOMAIN told[id] : slot[s][f] = told[id][f]
    BY DEF AddedIsWatched
  <2>1. CASE told[id] = None
    BY <2>1 DEF WatchInv, ToldInv
  <2>2. CASE told[id] # None
    <3>1. PICK w \in Watches : w = told[id] /\ w.id = id
      BY <2>2 DEF WatchInv, ToldInv
    <3>2. PICK s \in Slots : Kept(s, w) /\ \A t \in Slots : slot[t].id = id => t = s
      BY <2>2, <3>1 DEF WatchInv, ToldInv
    <3>3. {t \in Slots : slot[t].id = id} = {s}
      BY <3>1, <3>2 DEF Kept
    <3>4. \A f \in DOMAIN w : slot[s][f] = w[f]
      BY <3>2, WatchFields DEF Kept
    <3> QED BY <2>2, <3>1, <3>3, <3>4
  <2> QED BY <2>1, <2>2
<1> QED BY <1>1, WatchAlways, PTL

\* docs/events.md:76, of a watch that was configured unseen: when it emits, two of its
\* samples, one after the other, were on different sides of its threshold
\* (event_watch.c:210-260).
THEOREM EventsAreCrossings == WatchSpec => CrossingsAreReal
<1>1. WatchInv /\ [WatchNext]_watchVars =>
        [\A n \in Names :
           worker.pc = "emit" /\ n \in worker.left \ worker'.left /\ Matches(n)
             /\ worker.at \in clean /\ slot[worker.at].kind = "adc_threshold"
             => worker.real]_watchVars
  BY DEF WatchInv, WorkerInv
<1> QED BY <1>1, WatchAlways, PTL DEF WatchSpec, CrossingsAreReal
=============================================================================
