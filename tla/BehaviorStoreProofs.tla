------------------------ MODULE BehaviorStoreProofs -------------------------
(***************************************************************************)
(* For any clients, behaviors and bounds: what a call that was not         *)
(* overlapped by another said is stored, is stored, and a boot starts what *)
(* it says.                                                                *)
(***************************************************************************)
EXTENDS BehaviorStore, TLAPS

Pcs == {"idle", "write", "store", "loadAll", "saveAll", "loadAuto", "saveAuto", "answer", "erase", "unlink", "start"}
Calls == [pc : Pcs, op : {"register", "remove", "start"}, id : Ids, spec : Specs \cup {NoSpec},
          csv : SUBSET Ids, alone : BOOLEAN, lapses : Nat]
Boots == [pc : {"asleep", "skipped", "tasks", "next", "load", "start", "done"}, todo : SUBSET Ids,
          active : SUBSET Ids, id : Ids \cup {NoSpec}, ran : SUBSET Ids, started : SUBSET Ids,
          stirred : SUBSET Ids, unread : SUBSET Ids]
Told == [Ids -> [spec : Specs \cup {NoSpec, Unknown}, lapses : Nat, dropped : SUBSET {"all", "auto"}]]

\* Which operation a client that stands at pc is in, and with what.
RightPlace(k) ==
  k.pc # "idle" =>
    /\ k \in Calls
    /\ k.pc \in {"write", "store", "answer"} => k.op = "register"
    /\ k.pc \in {"erase", "unlink"} => k.op = "remove"
    /\ k.pc = "start" <=> k.op = "start"
    /\ k.op = "register" => k.spec \in Specs
    /\ k.op = "remove" => k.spec = NoSpec

BehaviorTypes ==
  /\ specFile \in [Ids -> Specs \cup {NoSpec, TornSpec}]
  /\ specNvs \in [Ids -> Specs \cup {NoSpec}]
  /\ index \in [all : SUBSET Ids, auto : SUBSET Ids]
  /\ running \subseteq Ids
  /\ client \in [Clients -> Calls \cup {NoCall}]
  /\ \A c \in Clients : RightPlace(client[c])
  /\ boot \in Boots
  /\ told \in Told

\* A call that stores and was not overlapped is the only one that stores; nobody is
\* about to start its behavior.
AloneInv ==
  \A c \in Clients : Stores(client[c]) /\ client[c].alone =>
    /\ \A d \in Clients \ {c} : ~Stores(client[d]) /\ ~Starts(client[d], client[c].id)
    /\ boot.id # client[c].id
    /\ client[c].op = "remove" => client[c].id \notin running

\* What such a call has done of its work so far: without a failure it did not report,
\* all; a removal with one of them has either taken the behavior out of the index of
\* those that start at boot, or erased its copy.
Registered(k) ==
  /\ specFile[k.id] \in {k.spec, TornSpec}
  /\ k.pc \notin {"write", "store"} => specNvs[k.id] = k.spec
  /\ k.lapses = 0 /\ k.pc \in {"loadAuto", "saveAuto", "answer"} => k.id \in index.all
  /\ k.lapses = 0 /\ k.pc = "answer" => (k.id \in index.auto <=> k.spec \in AutoSpecs)
Removed(k) ==
  /\ k.lapses = 0 /\ k.pc \in {"loadAuto", "saveAuto", "erase", "unlink"} => k.id \notin index.all
  /\ k.lapses = 0 /\ k.pc \in {"erase", "unlink"} => k.id \notin index.auto
  /\ k.lapses = 0 /\ k.pc = "unlink" => specNvs[k.id] = NoSpec
  /\ k.lapses < 2 /\ k.pc = "unlink" => k.id \notin index.auto \/ specNvs[k.id] = NoSpec
DoneSoFar(k) ==
  Stores(k) /\ k.alone => (k.op = "register" => Registered(k)) /\ (k.op = "remove" => Removed(k))
DoneInv == \A c \in Clients : DoneSoFar(client[c])

\* An id that the last call on it left known may be in an index, and in a boot's list
\* of what to start, only if it was stored to be, or its removal lost a step and left
\* no copy of it; and it is in an index it belongs in, unless it was dropped from it.
Settled(id) == told[id].spec # Unknown
MayList(id) == told[id].lapses = 0 => told[id].spec \in Specs
MayStart(id) ==
  /\ told[id].lapses = 0 => told[id].spec \in AutoSpecs
  /\ told[id].spec = NoSpec /\ told[id].lapses < 2 => specNvs[id] = NoSpec
MustList(id) == told[id].lapses = 0 /\ told[id].spec \in Specs /\ "all" \notin told[id].dropped
MustStart(id) == told[id].lapses = 0 /\ told[id].spec \in AutoSpecs /\ "auto" \notin told[id].dropped
FitsAll(id, S) == (id \in S => MayList(id)) /\ (MustList(id) => id \in S)
FitsAuto(id, S) == (id \in S => MayStart(id)) /\ (MustStart(id) => id \in S)

\* No call that stores is on such an id, and those on others write nothing else of it.
Bystander(k, id) ==
  Stores(k) =>
    /\ k.id # id
    /\ k.pc = "saveAll" => FitsAll(id, k.csv)
    /\ k.pc = "saveAuto" => FitsAuto(id, k.csv)
IndexFits(id) == FitsAll(id, index.all) /\ FitsAuto(id, index.auto)
StoredAsTold(id) ==
  /\ told[id].lapses = 0 => specNvs[id] = told[id].spec
  /\ told[id].spec = NoSpec => specFile[id] = NoSpec
  /\ told[id].spec \in Specs => specFile[id] \in {told[id].spec, TornSpec}
DownAsTold(id) ==
  told[id].spec = NoSpec /\ told[id].lapses = 0 =>
    id \notin running /\ boot.id # id /\ \A c \in Clients : ~Starts(client[c], id)
SettledInv(id) ==
  Settled(id) =>
    /\ \A c \in Clients : Bystander(client[c], id)
    /\ IndexFits(id)
    /\ StoredAsTold(id)
    /\ DownAsTold(id)

\* The autostart task, for the ids that no call stored since it read its index.
BootUp == boot.pc \notin {"asleep", "skipped"}
BootFollows(id) ==
  BootUp /\ id \notin boot.stirred /\ Settled(id) =>
    /\ id \in boot.todo => MayStart(id)
    /\ id \in boot.started \/ boot.id = id =>
         MayStart(id) /\ ~(told[id].spec = NoSpec /\ told[id].lapses < 2)
    /\ MustStart(id) => id \in boot.todo \cup boot.ran \cup boot.unread \cup {boot.id}
BootInv ==
  /\ boot.pc \notin {"load", "start"} => boot.id = NoSpec
  /\ boot.pc \in {"load", "start"} => boot.id \in Ids
  /\ ~BootUp => boot.started = {} /\ boot.todo = {}
  /\ boot.pc = "done" => boot.todo = {}
  /\ BootUp => \A c \in Clients : Stores(client[c]) => client[c].id \in boot.stirred

BehaviorInv ==
  /\ BehaviorTypes /\ AloneInv /\ DoneInv /\ BootInv
  /\ \A id \in Ids : SettledInv(id) /\ BootFollows(id)
-----------------------------------------------------------------------------
\* Nothing is stored, and nothing is said to be.
LEMMA InitBehavior == BehaviorInit => BehaviorInv
<1> SUFFICES ASSUME BehaviorInit PROVE BehaviorInv
  OBVIOUS
<1>1. \A c \in Clients : client[c] = NoCall /\ client[c].pc = "idle"
  BY DEF BehaviorInit, NoCall
<1>2. BehaviorTypes
  BY <1>1 DEF BehaviorInit, BehaviorTypes, RightPlace, Asleep, Boots, Relied, Told
<1>3. AloneInv /\ DoneInv /\ BootInv
  BY <1>1 DEF AloneInv, DoneInv, DoneSoFar, Stores, BootInv, BootUp, BehaviorInit, Asleep
<1>4. ASSUME NEW id \in Ids PROVE SettledInv(id) /\ BootFollows(id)
  <2>1. /\ told[id].spec = NoSpec /\ told[id].lapses = 0 /\ specNvs[id] = NoSpec /\ specFile[id] = NoSpec
        /\ index.all = {} /\ index.auto = {} /\ running = {} /\ boot.id = NoSpec /\ boot.pc = "asleep"
    BY DEF BehaviorInit, Relied, Asleep
  <2>2. NoSpec \notin Specs /\ NoSpec \notin AutoSpecs /\ NoSpec # id
    BY BehaviorAssumption
  <2>3. ~MustList(id) /\ ~MustStart(id)
    BY <2>1, <2>2 DEF MustList, MustStart
  <2> QED BY <1>1, <2>1, <2>2, <2>3
        DEF SettledInv, Bystander, Stores, Starts, StoredAsTold, DownAsTold, BootFollows, BootUp, IndexFits, FitsAll, FitsAuto
<1> QED BY <1>2, <1>3, <1>4 DEF BehaviorInv
-----------------------------------------------------------------------------
(* What a step leaves alone                                                *)

\* All that is stored of an id, and what was said of it, but for the indexes.
Untouched(id) ==
  /\ told'[id].spec = told[id].spec /\ told'[id].lapses = told[id].lapses
  /\ told[id].dropped \subseteq told'[id].dropped
  /\ specFile'[id] = specFile[id] /\ specNvs'[id] = specNvs[id]

\* Such an id may be in what it might be in before, and must be in no more.
LEMMA UntouchedFits ==
  ASSUME NEW id \in Ids, Untouched(id)
  PROVE  /\ MayList(id)' <=> MayList(id)
         /\ MayStart(id)' <=> MayStart(id)
         /\ MustList(id)' => MustList(id)
         /\ MustStart(id)' => MustStart(id)
BY DEF Untouched, MayList, MayStart, MustList, MustStart

LEMMA SettledKept ==
  ASSUME NEW id \in Ids, SettledInv(id), Untouched(id),
         Settled(id) => FitsAll(id, index'.all) /\ FitsAuto(id, index'.auto),
         \A c \in Clients : Settled(id) => Bystander(client'[c], id) \/ Bystander(client[c], id)',
         told[id].spec = NoSpec /\ told[id].lapses = 0 /\ DownAsTold(id) => DownAsTold(id)'
  PROVE  SettledInv(id)'
<1> SUFFICES ASSUME Settled(id)'
             PROVE  (\A c \in Clients : Bystander(client[c], id)') /\ IndexFits(id)' /\ StoredAsTold(id)' /\ DownAsTold(id)'
  BY DEF SettledInv
<1>1. Settled(id)
  BY DEF Settled, Untouched
<1>2. (\A c \in Clients : Bystander(client[c], id)) /\ StoredAsTold(id) /\ DownAsTold(id)
  BY <1>1 DEF SettledInv
<1>3. StoredAsTold(id)'
  BY <1>2 DEF StoredAsTold, Untouched
<1>4. DownAsTold(id)'
  BY <1>2 DEF DownAsTold, Untouched
<1>5. IndexFits(id)'
  BY <1>1, UntouchedFits DEF IndexFits, FitsAll, FitsAuto
<1>6. ASSUME NEW c \in Clients PROVE Bystander(client[c], id)'
  BY <1>1, UntouchedFits DEF Bystander, FitsAll, FitsAuto, Stores
<1> QED BY <1>3, <1>4, <1>5, <1>6

LEMMA BootKept ==
  ASSUME NEW id \in Ids, BootFollows(id), Untouched(id),
         boot'.pc = boot.pc, boot'.todo = boot.todo, boot'.id = boot.id, boot'.ran = boot.ran,
         boot'.started = boot.started, boot'.unread = boot.unread,
         boot.stirred \subseteq boot'.stirred
  PROVE  BootFollows(id)'
<1>1. /\ MayStart(id)' <=> MayStart(id)
      /\ MustStart(id)' => MustStart(id)
  BY UntouchedFits
<1>2. told'[id].spec = told[id].spec /\ told'[id].lapses = told[id].lapses
  BY DEF Untouched
<1> QED BY <1>1, <1>2 DEF BootFollows, Settled, BootUp

\* A client that stores goes on: what it changes is of its own id, and what it does
\* to the indexes fits every other id that is settled.
LEMMA ProgressKeeps ==
  ASSUME BehaviorInv, NEW c \in Clients, Stores(client[c]), NEW own \in Ids, own = client[c].id,
         UNCHANGED <<boot, running>>,
         specFile' \in [Ids -> Specs \cup {NoSpec, TornSpec}],
         specNvs' \in [Ids -> Specs \cup {NoSpec}],
         index' \in [all : SUBSET Ids, auto : SUBSET Ids],
         told' \in Told,
         NEW k, client' = [client EXCEPT ![c] = k],
         k \in Calls \cup {NoCall}, RightPlace(k),
         k.pc # "idle" => /\ k.op = client[c].op /\ k.id = own
                          /\ k.spec = client[c].spec /\ k.alone = client[c].alone,
         DoneSoFar(k)',
         \A id \in Ids \ {own} : Untouched(id),
         \A id \in Ids \ {own} : SettledInv(id) /\ Settled(id) =>
           FitsAll(id, index'.all) /\ FitsAuto(id, index'.auto) /\ (Bystander(k, id) \/ Bystander(k, id)'),
         told'[own] = told[own] \/ SettledInv(own)'
  PROVE  BehaviorInv'
<1>1. /\ client'[c] = k /\ \A d \in Clients : d # c => client'[d] = client[d]
      /\ client' \in [Clients -> Calls \cup {NoCall}]
  BY DEF BehaviorInv, BehaviorTypes, RightPlace, Stores, Calls
<1>2. \A d \in Clients : Stores(client'[d]) =>
        /\ Stores(client[d]) /\ client'[d].id = client[d].id /\ client'[d].op = client[d].op
        /\ client'[d].alone = client[d].alone
  BY <1>1 DEF Stores
<1>3. \A d \in Clients, id \in Ids : Starts(client'[d], id) => Starts(client[d], id)
  BY <1>1 DEF Stores, Starts
<1>4. BehaviorTypes'
  BY <1>1 DEF BehaviorInv, BehaviorTypes
<1>5. AloneInv'
  BY <1>1, <1>2, <1>3 DEF BehaviorInv, AloneInv, BehaviorTypes, RightPlace, Calls, Stores
<1>6. DoneInv'
  <2> SUFFICES ASSUME NEW d \in Clients, d # c PROVE DoneSoFar(client[d])'
    BY <1>1 DEF DoneInv
  <2>1. ~(Stores(client[d]) /\ client[d].alone)
    BY DEF BehaviorInv, AloneInv
  <2> QED BY <1>1, <2>1 DEF DoneSoFar, Stores
<1>7. BootInv'
  BY <1>2 DEF BehaviorInv, BootInv, BootUp
<1>8. ~Settled(own)
  BY <1>1 DEF BehaviorInv, SettledInv, Bystander
<1>9. own \in Ids /\ SettledInv(own) /\ BootFollows(own) /\ (BootUp => own \in boot.stirred)
  BY <1>1 DEF BehaviorInv, BootInv
<1>10. SettledInv(own)' /\ BootFollows(own)'
  <2>1. SettledInv(own)'
    BY <1>8 DEF SettledInv, Settled
  <2>2. BootFollows(own)'
    BY <1>9 DEF BootFollows, BootUp
  <2> QED BY <2>1, <2>2
<1>11. ASSUME NEW id \in Ids, id # own PROVE SettledInv(id)' /\ BootFollows(id)'
  <2>1. SettledInv(id) /\ BootFollows(id) /\ Untouched(id)
    BY <1>11 DEF BehaviorInv
  <2>2. \A d \in Clients : Settled(id) => Bystander(client'[d], id) \/ Bystander(client[d], id)'
    <3> SUFFICES ASSUME NEW d \in Clients, Settled(id)
                 PROVE  Bystander(client'[d], id) \/ Bystander(client[d], id)'
      OBVIOUS
    <3>1. CASE d = c
      BY <1>1, <1>11, <2>1, <3>1
    <3>2. CASE d # c
      BY <1>1, <2>1, <3>2 DEF SettledInv
    <3> QED BY <3>1, <3>2
  <2>3. DownAsTold(id) /\ told[id].spec = NoSpec /\ told[id].lapses = 0 => DownAsTold(id)'
    BY <1>3 DEF DownAsTold
  <2>4. Settled(id) => FitsAll(id, index'.all) /\ FitsAuto(id, index'.auto)
    BY <1>11, <2>1
  <2>5. SettledInv(id)'
    BY <2>1, <2>2, <2>3, <2>4, SettledKept
  <2>6. BootFollows(id)'
    BY <2>1, BootKept
  <2> QED BY <2>5, <2>6
<1> QED BY <1>4, <1>5, <1>6, <1>7, <1>10, <1>11 DEF BehaviorInv

\* The same for a step that leaves the indexes and is not about to write one.
LEMMA PlainProgressKeeps ==
  ASSUME BehaviorInv, NEW c \in Clients, Stores(client[c]), NEW own \in Ids, own = client[c].id,
         UNCHANGED <<boot, running, index>>,
         specFile' \in [Ids -> Specs \cup {NoSpec, TornSpec}],
         specNvs' \in [Ids -> Specs \cup {NoSpec}],
         told' \in Told,
         NEW k, client' = [client EXCEPT ![c] = k],
         k \in Calls \cup {NoCall}, RightPlace(k), k.pc \notin {"saveAll", "saveAuto"},
         k.pc # "idle" => /\ k.op = client[c].op /\ k.id = own
                          /\ k.spec = client[c].spec /\ k.alone = client[c].alone,
         DoneSoFar(k)',
         \A id \in Ids \ {own} :
           told'[id] = told[id] /\ specFile'[id] = specFile[id] /\ specNvs'[id] = specNvs[id],
         told'[own] = told[own] \/ SettledInv(own)'
  PROVE  BehaviorInv'
<1>1. \A id \in Ids \ {own} : Untouched(id)
  BY DEF Untouched
<1>2. ASSUME NEW id \in Ids \ {own}, SettledInv(id), Settled(id)
      PROVE  FitsAll(id, index'.all) /\ FitsAuto(id, index'.auto) /\ Bystander(k, id)
  <2>1. IndexFits(id)
    BY <1>2 DEF SettledInv
  <2>2. Bystander(k, id)
    BY DEF Bystander, Stores
  <2> QED BY <2>1, <2>2 DEF IndexFits
<1>3. index' \in [all : SUBSET Ids, auto : SUBSET Ids]
  BY DEF BehaviorInv, BehaviorTypes
<1> QED BY <1>1, <1>2, <1>3, ProgressKeeps
-----------------------------------------------------------------------------
(* The steps of a call that stores                                         *)

\* Where such a call stands, and with what.
LEMMA StoringCall ==
  ASSUME BehaviorInv, NEW c \in Clients, Stores(client[c])
  PROVE  /\ client[c] \in Calls /\ client[c].id \in Ids /\ RightPlace(client[c]) /\ DoneSoFar(client[c])
         /\ \/ client[c].op = "register" /\ client[c].spec \in Specs
            \/ client[c].op = "remove" /\ client[c].spec = NoSpec
<1>1. RightPlace(client[c]) /\ DoneSoFar(client[c]) /\ client[c].pc # "idle"
  BY DEF BehaviorInv, BehaviorTypes, Stores, DoneInv
<1>2. client[c] \in Calls /\ client[c].op \in {"register", "remove"}
  <2>1. client[c] \in Calls
    BY <1>1 DEF RightPlace
  <2> QED BY <2>1 DEF Stores
<1>3. \/ client[c].op = "register" /\ client[c].spec \in Specs
      \/ client[c].op = "remove" /\ client[c].spec = NoSpec
  BY <1>1, <1>2 DEF RightPlace
<1> QED BY <1>1, <1>2, <1>3 DEF Calls

LEMMA StoredTypes ==
  ASSUME BehaviorInv
  PROVE  /\ specFile \in [Ids -> Specs \cup {NoSpec, TornSpec}]
         /\ specNvs \in [Ids -> Specs \cup {NoSpec}]
         /\ told \in Told
BY DEF BehaviorInv, BehaviorTypes

LEMMA RegisterWriteKeeps ==
  ASSUME BehaviorInv, NEW c \in Clients, RegisterWrite(c)
  PROVE  BehaviorInv'
<1> PICK k : k = [client[c] EXCEPT !.pc = "store"]
  OBVIOUS
<1>1. client[c].pc = "write" /\ client' = [client EXCEPT ![c] = k] /\ UNCHANGED <<specNvs, index, running, boot, told>>
  BY DEF RegisterWrite, To
<1>2. Stores(client[c]) /\ client[c].op = "register"
  BY <1>1 DEF BehaviorInv, BehaviorTypes, RightPlace, Stores
<1>3. PICK own \in Ids : own = client[c].id
  BY <1>2, StoringCall
<1>4. /\ k \in Calls /\ RightPlace(k) /\ k.op = "register" /\ k.id = own /\ k.pc = "store"
      /\ k.spec = client[c].spec /\ k.alone = client[c].alone
  BY <1>2, <1>3, StoringCall DEF Calls, Pcs, RightPlace
<1>5. specFile' = specFile \/ specFile' = [specFile EXCEPT ![own] = client[c].spec]
  BY <1>3 DEF RegisterWrite
<1>6. specFile' \in [Ids -> Specs \cup {NoSpec, TornSpec}]
  BY <1>2, <1>5, StoringCall DEF BehaviorInv, BehaviorTypes
<1>7. \A id \in Ids \ {own} : told'[id] = told[id] /\ specFile'[id] = specFile[id] /\ specNvs'[id] = specNvs[id]
  BY <1>1, <1>5 DEF BehaviorInv, BehaviorTypes
<1>8. DoneSoFar(k)'
  <2>1. DoneSoFar(client[c]) /\ client[c].lapses = k.lapses
    BY <1>2, StoringCall DEF Calls
  <2>2. specFile'[own] \in {specFile[own], client[c].spec}
    BY <1>5, <1>6 DEF BehaviorInv, BehaviorTypes
  <2> QED BY <1>2, <1>3, <1>4, <2>1, <2>2 DEF DoneSoFar, Registered, Stores
<1>9. /\ specNvs' \in [Ids -> Specs \cup {NoSpec}] /\ told' \in Told /\ told'[own] = told[own]
      /\ UNCHANGED <<boot, running, index>> /\ k.op = client[c].op
  BY <1>1, <1>2, <1>4, StoredTypes
<1> QED
  BY <1>1, <1>2, <1>3, <1>4, <1>6, <1>7, <1>8, <1>9, PlainProgressKeeps

\* A call that stores returns an error.
LEMMA FailedKeeps ==
  ASSUME BehaviorInv, NEW c \in Clients, Stores(client[c]), Failed(c),
         UNCHANGED <<specFile, specNvs, index, running, boot>>
  PROVE  BehaviorInv'
<1> PICK k : k = [client[c] EXCEPT !.pc = "idle"]
  OBVIOUS
<1>1. client' = [client EXCEPT ![c] = k] /\ UNCHANGED told
  BY DEF Failed, To
<1>2. PICK own \in Ids : own = client[c].id
  BY StoringCall
<1>3. k \in Calls /\ RightPlace(k) /\ k.pc = "idle"
  BY StoringCall DEF Calls, Pcs, RightPlace
<1>4. \A id \in Ids \ {own} : told'[id] = told[id] /\ specFile'[id] = specFile[id] /\ specNvs'[id] = specNvs[id]
  BY <1>1
<1>5. DoneSoFar(k)'
  BY <1>3 DEF DoneSoFar, Stores
<1> QED BY <1>1, <1>2, <1>3, <1>4, <1>5, StoredTypes, PlainProgressKeeps

LEMMA RegisterStoreKeeps ==
  ASSUME BehaviorInv, NEW c \in Clients, RegisterStore(c)
  PROVE  BehaviorInv'
<1>1. client[c].pc = "store" /\ UNCHANGED <<specFile, index, running, boot>>
  BY DEF RegisterStore
<1>2. Stores(client[c]) /\ client[c].op = "register"
  BY <1>1 DEF BehaviorInv, BehaviorTypes, RightPlace, Stores
<1>3. CASE Failed(c) /\ UNCHANGED specNvs
  BY <1>1, <1>2, <1>3, FailedKeeps
<1>4. CASE /\ specNvs' = [specNvs EXCEPT ![client[c].id] = client[c].spec]
           /\ To(c, "loadAll") /\ UNCHANGED told
  <2> PICK k : k = [client[c] EXCEPT !.pc = "loadAll"]
    OBVIOUS
  <2>1. client' = [client EXCEPT ![c] = k]
    BY <1>4 DEF To
  <2>2. PICK own \in Ids : own = client[c].id
    BY <1>2, StoringCall
  <2>3. /\ k \in Calls /\ RightPlace(k) /\ k.op = "register" /\ k.id = own /\ k.pc = "loadAll"
        /\ k.spec = client[c].spec /\ k.alone = client[c].alone
    BY <1>2, <2>2, StoringCall DEF Calls, Pcs, RightPlace
  <2>4. specNvs' = [specNvs EXCEPT ![own] = k.spec] /\ k.spec \in Specs
    BY <1>2, <1>4, <2>2, <2>3, StoringCall
  <2>5. specNvs' \in [Ids -> Specs \cup {NoSpec}] /\ specNvs'[own] = k.spec
    BY <2>4 DEF BehaviorInv, BehaviorTypes
  <2>6. \A id \in Ids \ {own} : told'[id] = told[id] /\ specFile'[id] = specFile[id] /\ specNvs'[id] = specNvs[id]
    BY <1>1, <1>4, <2>4 DEF BehaviorInv, BehaviorTypes
  <2>7. DoneSoFar(k)'
    <3>1. DoneSoFar(client[c])
      BY <1>2, StoringCall
    <3> QED BY <1>1, <1>2, <2>2, <2>3, <2>5, <3>1 DEF DoneSoFar, Registered, Stores
  <2> QED
    BY <1>1, <1>2, <1>4, <2>1, <2>2, <2>3, <2>5, <2>6, <2>7, StoredTypes, PlainProgressKeeps
<1> QED BY <1>3, <1>4 DEF RegisterStore

\* What it reads of an index fits the other ids; if it cannot, they may be dropped.
LEMMA LoadIndexKeeps ==
  ASSUME BehaviorInv, NEW c \in Clients, LoadIndex(c)
  PROVE  BehaviorInv'
<1> PICK which \in {"all", "auto"} : which = IF client[c].pc = "loadAll" THEN "all" ELSE "auto"
  OBVIOUS
<1> PICK own : own = client[c].id
  OBVIOUS
<1>1. client[c].pc \in {"loadAll", "loadAuto"} /\ UNCHANGED <<specFile, specNvs, index, running, boot>>
  BY DEF LoadIndex
<1>2. PICK csv : /\ client' = [client EXCEPT ![c].pc = IF @ = "loadAll" THEN "saveAll" ELSE "saveAuto",
                                             ![c].csv = csv]
                 /\ \/ csv = index[which] /\ UNCHANGED told
                    \/ /\ csv = {}
                       /\ told' = [x \in Ids |-> IF x = own THEN told[x]
                                                ELSE [told[x] EXCEPT !.dropped = @ \cup {which}]]
  BY DEF LoadIndex
<1> PICK k : k = [client[c] EXCEPT !.pc = IF @ = "loadAll" THEN "saveAll" ELSE "saveAuto", !.csv = csv]
  OBVIOUS
<1>3. client' = [client EXCEPT ![c] = k]
  BY <1>2 DEF BehaviorInv, BehaviorTypes
<1>4. Stores(client[c])
  BY <1>1 DEF BehaviorInv, BehaviorTypes, RightPlace, Stores, Calls
<1>5. own \in Ids
  BY <1>4, StoringCall
<1>6. index.all \subseteq Ids /\ index.auto \subseteq Ids /\ csv \subseteq Ids
  BY <1>2 DEF BehaviorInv, BehaviorTypes
<1>7. /\ k.op = client[c].op /\ k.id = own /\ k.spec = client[c].spec /\ k.alone = client[c].alone
      /\ k.lapses = client[c].lapses /\ k.csv = csv /\ k \in Calls
      /\ \/ client[c].pc = "loadAll" /\ which = "all" /\ k.pc = "saveAll"
         \/ client[c].pc = "loadAuto" /\ which = "auto" /\ k.pc = "saveAuto"
  BY <1>1, <1>4, <1>6, StoringCall DEF Calls, Pcs
<1>8. RightPlace(k)
  BY <1>4, <1>7, StoringCall DEF RightPlace
<1>9. DoneSoFar(k)'
  BY <1>1, <1>4, <1>7, StoringCall DEF DoneSoFar, Registered, Removed, Stores
<1>10. ASSUME NEW id \in Ids \ {own}
       PROVE  /\ told'[id] \in [spec : Specs \cup {NoSpec, Unknown}, lapses : Nat, dropped : SUBSET {"all", "auto"}]
              /\ told'[id].spec = told[id].spec /\ told'[id].lapses = told[id].lapses
              /\ told[id].dropped \subseteq told'[id].dropped
              /\ csv # index[which] => which \in told'[id].dropped
  <2>1. told[id] \in [spec : Specs \cup {NoSpec, Unknown}, lapses : Nat, dropped : SUBSET {"all", "auto"}]
    BY DEF BehaviorInv, BehaviorTypes, Told
  <2>2. CASE told' = told /\ csv = index[which]
    BY <2>1, <2>2
  <2>3. CASE told' = [x \in Ids |-> IF x = own THEN told[x] ELSE [told[x] EXCEPT !.dropped = @ \cup {which}]]
    <3> PICK D : D = told[id].dropped \cup {which}
      OBVIOUS
    <3>1. told'[id] = [told[id] EXCEPT !.dropped = D] /\ D \subseteq {"all", "auto"}
      BY <2>1, <2>3
    <3> QED BY <2>1, <3>1
  <2> QED BY <1>2, <2>2, <2>3
<1>11. told' \in Told /\ told'[own] = told[own]
  <2>1. told'[own] = told[own]
    BY <1>2, <1>5
  <2>2. told[own] \in [spec : Specs \cup {NoSpec, Unknown}, lapses : Nat, dropped : SUBSET {"all", "auto"}]
    BY <1>5 DEF BehaviorInv, BehaviorTypes, Told
  <2>3. told' = [x \in Ids |-> told'[x]]
    BY <1>2 DEF BehaviorInv, BehaviorTypes, Told
  <2>4. \A x \in Ids : told'[x] \in [spec : Specs \cup {NoSpec, Unknown}, lapses : Nat, dropped : SUBSET {"all", "auto"}]
    BY <1>10, <2>1, <2>2
  <2> QED BY <2>1, <2>3, <2>4 DEF Told
<1>12. \A id \in Ids \ {own} : Untouched(id)
  BY <1>1, <1>10 DEF Untouched
<1>13. ASSUME NEW id \in Ids \ {own}, SettledInv(id), Settled(id)
       PROVE  FitsAll(id, index'.all) /\ FitsAuto(id, index'.auto) /\ Bystander(k, id)'
  <2>1. FitsAll(id, index.all) /\ FitsAuto(id, index.auto)
    BY <1>13 DEF SettledInv, IndexFits
  <2>2. CASE csv = index[which]
    BY <1>1, <1>7, <1>12, <2>1, <2>2, UntouchedFits DEF Bystander, FitsAll, FitsAuto
  <2>3. CASE csv = {} /\ which \in told'[id].dropped
    <3>1. Bystander(k, id)'
      BY <1>7, <2>3 DEF Bystander, FitsAll, FitsAuto, MustList, MustStart
    <3> QED BY <1>1, <2>1, <3>1
  <2> QED BY <1>1, <1>2, <1>10, <2>1, <2>2, <2>3
<1> QED
  BY <1>1, <1>3, <1>4, <1>5, <1>7, <1>8, <1>9, <1>11, <1>12, <1>13, ProgressKeeps DEF BehaviorInv, BehaviorTypes

\* A call that a step lets go on, with n failures it did not report.
Lapsed(l, p, n) == [l EXCEPT !.pc = p, !.lapses = n]
Unread(l) == [l EXCEPT !.csv = {}]

LEMMA LapseIsCall ==
  ASSUME NEW l \in Calls, NEW p \in Pcs, NEW n \in Nat, NEW k, k = Lapsed(l, p, n) \/ k = Unread(Lapsed(l, p, n))
  PROVE  /\ k \in Calls /\ k.pc = p /\ k.lapses = n
         /\ k.op = l.op /\ k.id = l.id /\ k.spec = l.spec /\ k.alone = l.alone
<1> PICK m : m = [l EXCEPT !.pc = p]
  OBVIOUS
<1>1. m \in Calls /\ m.pc = p /\ m.op = l.op /\ m.id = l.id /\ m.spec = l.spec /\ m.alone = l.alone
  BY DEF Calls
<1> PICK o : o = [m EXCEPT !.lapses = n]
  OBVIOUS
<1>2. /\ o \in Calls /\ o.pc = p /\ o.lapses = n
      /\ o.op = l.op /\ o.id = l.id /\ o.spec = l.spec /\ o.alone = l.alone
  BY <1>1 DEF Calls
<1>3. k = o \/ k = [o EXCEPT !.csv = {}]
  BY DEF Lapsed, Unread
<1> QED BY <1>2, <1>3 DEF Calls

\* The call goes on to what follows the index it was at.
LEMMA AfterIndexPlace ==
  ASSUME BehaviorInv, NEW c \in Clients, client[c].pc \in {"saveAll", "saveAuto"}
  PROVE  /\ Stores(client[c]) /\ AfterIndex(client[c]) \in Pcs /\ client[c].lapses \in Nat
         /\ \/ client[c].pc = "saveAll" /\ AfterIndex(client[c]) = "loadAuto"
            \/ client[c].pc = "saveAuto" /\ client[c].op = "remove" /\ AfterIndex(client[c]) = "erase"
            \/ client[c].pc = "saveAuto" /\ client[c].op = "register" /\ AfterIndex(client[c]) = "answer"
<1>1. client[c] \in Calls /\ RightPlace(client[c]) /\ Stores(client[c])
  BY DEF BehaviorInv, BehaviorTypes, RightPlace, Stores, Calls
<1>2. client[c].op \in {"register", "remove"} /\ client[c].lapses \in Nat
  BY <1>1 DEF Stores, Calls
<1>3. CASE client[c].pc = "saveAll"
  <2>1. AfterIndex(client[c]) = "loadAuto"
    BY <1>3 DEF AfterIndex
  <2> QED BY <1>1, <1>2, <1>3, <2>1 DEF Pcs
<1>4. CASE client[c].pc = "saveAuto" /\ client[c].op = "remove"
  <2>1. AfterIndex(client[c]) = "erase"
    BY <1>4 DEF AfterIndex
  <2> QED BY <1>1, <1>2, <1>4, <2>1 DEF Pcs
<1>5. CASE client[c].pc = "saveAuto" /\ client[c].op = "register"
  <2>1. AfterIndex(client[c]) = "answer"
    BY <1>5 DEF AfterIndex
  <2> QED BY <1>1, <1>2, <1>5, <2>1 DEF Pcs
<1> QED BY <1>2, <1>3, <1>4, <1>5

LEMMA SaveIndexKeeps ==
  ASSUME BehaviorInv, NEW c \in Clients, SaveIndex(c)
  PROVE  BehaviorInv'
<1> DEFINE which == IF client[c].pc = "saveAll" THEN "all" ELSE "auto"
           csv == client[c].csv
<1> PICK k : k = [client[c] EXCEPT !.pc = AfterIndex(client[c]), !.csv = {}]
  OBVIOUS
<1>1. client[c].pc \in {"saveAll", "saveAuto"} /\ UNCHANGED <<specFile, specNvs, running, boot, told>>
  BY DEF SaveIndex
<1>2. /\ Stores(client[c]) /\ k \in Calls /\ RightPlace(k)
      /\ k.op = client[c].op /\ k.id = client[c].id /\ k.spec = client[c].spec
      /\ k.alone = client[c].alone /\ k.lapses = client[c].lapses
      /\ \/ client[c].pc = "saveAll" /\ k.pc = "loadAuto"
         \/ client[c].pc = "saveAuto" /\ k.op = "remove" /\ k.pc = "erase"
         \/ client[c].pc = "saveAuto" /\ k.op = "register" /\ k.pc = "answer"
  <2>1. /\ k \in Calls /\ k.pc = AfterIndex(client[c]) /\ k.op = client[c].op /\ k.id = client[c].id
        /\ k.spec = client[c].spec /\ k.alone = client[c].alone /\ k.lapses = client[c].lapses
    BY <1>1, AfterIndexPlace, StoringCall DEF Calls
  <2> QED BY <1>1, <2>1, AfterIndexPlace, StoringCall DEF RightPlace
<1>3. client' = [client EXCEPT ![c] = k]
  BY DEF SaveIndex, BehaviorInv, BehaviorTypes
<1>4. PICK own \in Ids : own = client[c].id
  BY <1>2, StoringCall
<1>5. /\ \/ client[c].op = "register" /\ client[c].spec \in Specs
         \/ client[c].op = "remove"
      /\ csv \subseteq Ids /\ client[c].lapses \in Nat /\ DoneSoFar(client[c])
  BY <1>2, StoringCall DEF Calls
<1>6. PICK S : /\ index' = [index EXCEPT ![which] = S] /\ S \in {csv \cup {own}, csv \ {own}}
               /\ own \in S <=> Belongs(client[c])
  <2>1. index' = [index EXCEPT ![which] = IF Belongs(client[c]) THEN csv \cup {own} ELSE csv \ {own}]
    BY <1>4 DEF SaveIndex
  <2>2. CASE Belongs(client[c])
    <3> PICK S : S = csv \cup {own}
      OBVIOUS
    <3>1. index' = [index EXCEPT ![which] = S]
      BY <2>1, <2>2
    <3> QED BY <2>2, <3>1
  <2>3. CASE ~Belongs(client[c])
    <3> PICK S : S = csv \ {own}
      OBVIOUS
    <3>1. index' = [index EXCEPT ![which] = S] /\ own \notin S /\ S \in {csv \cup {own}, csv \ {own}}
      BY <2>1, <2>3
    <3> HIDE DEF csv, which
    <3> QED BY <2>3, <3>1
  <2> QED BY <2>2, <2>3
<1>7. /\ index' \in [all : SUBSET Ids, auto : SUBSET Ids]
      /\ client[c].pc = "saveAll" => index'.all = S /\ index'.auto = index.auto
      /\ client[c].pc # "saveAll" => index'.auto = S /\ index'.all = index.all
  BY <1>5, <1>6 DEF BehaviorInv, BehaviorTypes
<1>8. ASSUME NEW id \in Ids \ {own}
      PROVE  /\ Untouched(id)
             /\ SettledInv(id) /\ Settled(id) =>
                  FitsAll(id, index'.all) /\ FitsAuto(id, index'.auto) /\ Bystander(k, id)
  <2>1. SettledInv(id) /\ Settled(id) => Bystander(client[c], id) /\ FitsAll(id, index.all) /\ FitsAuto(id, index.auto)
    BY DEF SettledInv, IndexFits
  <2>2. id \in S <=> id \in csv
    BY <1>6
  <2>3. Untouched(id)
    BY <1>1 DEF Untouched
  <2>4. Bystander(k, id)
    BY <1>2, <1>4 DEF Bystander
  <2> QED BY <1>1, <1>2, <1>7, <2>1, <2>2, <2>3, <2>4 DEF Bystander, FitsAll, FitsAuto
<1> HIDE DEF csv, which
<1>9. DoneSoFar(k)'
  <2>1. CASE k.op = "register"
    <3>1. Belongs(client[c]) <=> client[c].pc = "saveAll" \/ k.spec \in AutoSpecs
      BY <1>2, <2>1 DEF Belongs
    <3> QED
      BY <1>1, <1>2, <1>4, <1>5, <1>6, <1>7, <2>1, <3>1 DEF DoneSoFar, Registered, Stores
  <2>2. CASE k.op = "remove"
    <3>1. ~Belongs(client[c])
      BY <1>2, <2>2 DEF Belongs
    <3> QED
      BY <1>1, <1>2, <1>4, <1>5, <1>6, <1>7, <2>2, <3>1 DEF DoneSoFar, Removed, Stores
  <2> QED BY <1>2, <1>5, <2>1, <2>2
<1> QED
  BY <1>1, <1>2, <1>3, <1>4, <1>7, <1>8, <1>9, ProgressKeeps DEF BehaviorInv, BehaviorTypes

LEMMA SaveIndexFailsKeeps ==
  ASSUME BehaviorInv, NEW c \in Clients, SaveIndexFails(c)
  PROVE  BehaviorInv'
<1>1. client[c].pc \in {"saveAll", "saveAuto"} /\ UNCHANGED <<specFile, specNvs, index, running, boot>>
  BY DEF SaveIndexFails
<1>2. Stores(client[c])
  BY <1>1 DEF BehaviorInv, BehaviorTypes, RightPlace, Stores, Calls
<1>3. CASE Failed(c)
  BY <1>1, <1>2, <1>3, FailedKeeps
<1>4. CASE /\ client' = [client EXCEPT ![c].pc = AfterIndex(client[c]), ![c].csv = {}, ![c].lapses = @ + 1]
           /\ UNCHANGED told
  <2> PICK k : k = [client[c] EXCEPT !.pc = AfterIndex(client[c]), !.csv = {}, !.lapses = @ + 1]
    OBVIOUS
  <2>1. /\ Stores(client[c]) /\ k \in Calls /\ RightPlace(k)
        /\ k.op = client[c].op /\ k.id = client[c].id /\ k.spec = client[c].spec
        /\ k.alone = client[c].alone /\ k.lapses = client[c].lapses + 1 /\ client[c].lapses \in Nat
        /\ \/ client[c].pc = "saveAll" /\ k.pc = "loadAuto"
           \/ client[c].pc = "saveAuto" /\ k.op = "remove" /\ k.pc = "erase"
           \/ client[c].pc = "saveAuto" /\ k.op = "register" /\ k.pc = "answer"
    <3>0. client[c] \in Calls /\ client[c].lapses \in Nat /\ AfterIndex(client[c]) \in Pcs
      BY <1>1, <1>2, AfterIndexPlace, StoringCall
    <3>1. /\ k.pc = AfterIndex(client[c]) /\ k.op = client[c].op /\ k.id = client[c].id
          /\ k.spec = client[c].spec /\ k.alone = client[c].alone /\ k.lapses = client[c].lapses + 1
          /\ k \in Calls
      <4> PICK p \in Pcs, n \in Nat : p = AfterIndex(client[c]) /\ n = client[c].lapses + 1
        BY <3>0
      <4>1. k = Unread(Lapsed(client[c], p, n))
        BY <3>0 DEF Lapsed, Unread, Calls
      <4> QED BY <3>0, <4>1, LapseIsCall
    <3> QED BY <1>1, <3>0, <3>1, AfterIndexPlace, StoringCall DEF RightPlace
  <2>2. client' = [client EXCEPT ![c] = k]
    BY <1>4 DEF BehaviorInv, BehaviorTypes
  <2>3. PICK own \in Ids : own = client[c].id
    BY <2>1, StoringCall
  <2>4. \A id \in Ids \ {own} : told'[id] = told[id] /\ specFile'[id] = specFile[id] /\ specNvs'[id] = specNvs[id]
    BY <1>1, <1>4
  <2>5. DoneSoFar(client[c])
    BY <1>2, StoringCall
  <2>6. k.lapses # 0
    BY <2>1
  <2>7. DoneSoFar(k)'
    BY <1>1, <2>1, <2>5, <2>6 DEF DoneSoFar, Registered, Removed, Stores
  <2>8. /\ specFile' \in [Ids -> Specs \cup {NoSpec, TornSpec}] /\ specNvs' \in [Ids -> Specs \cup {NoSpec}]
        /\ told' \in Told /\ told'[own] = told[own] /\ UNCHANGED <<boot, running, index>>
    BY <1>1, <1>4, StoredTypes
  <2>9. k.pc \notin {"saveAll", "saveAuto"} /\ k.id = own
    BY <2>1, <2>3
  <2> QED
    BY <2>1, <2>2, <2>3, <2>4, <2>7, <2>8, <2>9, PlainProgressKeeps
<1> QED BY <1>3, <1>4 DEF SaveIndexFails

LEMMA EraseSpecKeeps ==
  ASSUME BehaviorInv, NEW c \in Clients, EraseSpec(c)
  PROVE  BehaviorInv'
<1>1. client[c].pc = "erase" /\ UNCHANGED <<specFile, index, running, boot, told>>
  BY DEF EraseSpec
<1>2. Stores(client[c]) /\ client[c].op = "remove"
  BY <1>1 DEF BehaviorInv, BehaviorTypes, RightPlace, Stores
<1>3. PICK own \in Ids : own = client[c].id
  BY <1>2, StoringCall
<1>4. PICK k, n : /\ client' = [client EXCEPT ![c] = k]
                  /\ \/ /\ n = 0 /\ k = [client[c] EXCEPT !.pc = "unlink"]
                        /\ specNvs' = [specNvs EXCEPT ![own] = NoSpec]
                     \/ /\ n = 1 /\ k = [client[c] EXCEPT !.pc = "unlink", !.lapses = @ + 1]
                        /\ UNCHANGED specNvs
  <2>1. CASE specNvs' = [specNvs EXCEPT ![own] = NoSpec] /\ client' = [client EXCEPT ![c].pc = "unlink"]
    <3> PICK k : k = [client[c] EXCEPT !.pc = "unlink"]
      OBVIOUS
    <3>1. client' = [client EXCEPT ![c] = k]
      BY <2>1
    <3> QED BY <2>1, <3>1
  <2>2. CASE UNCHANGED specNvs /\ client' = [client EXCEPT ![c].pc = "unlink", ![c].lapses = @ + 1]
    <3> PICK k : k = [client[c] EXCEPT !.pc = "unlink", !.lapses = @ + 1]
      OBVIOUS
    <3>1. client' = [client EXCEPT ![c] = k]
      BY <2>2 DEF BehaviorInv, BehaviorTypes
    <3> QED BY <2>2, <3>1
  <2> QED BY <1>3, <2>1, <2>2 DEF EraseSpec, To
<1>5. /\ k.op = "remove" /\ k.id = own /\ k.spec = client[c].spec /\ k.alone = client[c].alone
      /\ k.pc = "unlink" /\ k.lapses = client[c].lapses + n /\ client[c].lapses \in Nat
      /\ k \in Calls /\ RightPlace(k) /\ n \in {0, 1}
  <2>1. client[c] \in Calls /\ client[c].lapses \in Nat /\ client[c].lapses + 1 \in Nat
    BY <1>2, StoringCall DEF Calls
  <2>2. /\ k \in Calls /\ n \in {0, 1} /\ k.pc = "unlink" /\ k.lapses = client[c].lapses + n
        /\ k.op = client[c].op /\ k.id = client[c].id /\ k.spec = client[c].spec /\ k.alone = client[c].alone
    <3>1. CASE n = 0 /\ k = [client[c] EXCEPT !.pc = "unlink"]
      BY <2>1, <3>1 DEF Calls, Pcs
    <3>2. CASE n = 1 /\ k = [client[c] EXCEPT !.pc = "unlink", !.lapses = @ + 1]
      <4> PICK p \in Pcs, m \in Nat : p = "unlink" /\ m = client[c].lapses + 1
        BY <2>1 DEF Pcs
      <4>1. k = Lapsed(client[c], p, m)
        BY <3>2 DEF Lapsed
      <4> QED BY <2>1, <3>2, <4>1, LapseIsCall
    <3> QED BY <1>4, <3>1, <3>2
  <2> QED BY <1>2, <1>3, <2>1, <2>2, StoringCall DEF RightPlace
<1>6. client' = [client EXCEPT ![c] = k]
  BY <1>4
<1>7. /\ specNvs' \in [Ids -> Specs \cup {NoSpec}]
      /\ n = 0 => specNvs'[own] = NoSpec
      /\ \A id \in Ids \ {own} : specNvs'[id] = specNvs[id]
  BY <1>4 DEF BehaviorInv, BehaviorTypes
<1>8. \A id \in Ids \ {own} : told'[id] = told[id] /\ specFile'[id] = specFile[id] /\ specNvs'[id] = specNvs[id]
  BY <1>1, <1>7
<1>9. DoneSoFar(k)'
  <2>1. DoneSoFar(client[c])
    BY <1>2, StoringCall
  <2>2. k.lapses = 0 => n = 0 /\ client[c].lapses = 0
    BY <1>5
  <2>3. k.lapses < 2 => n = 0 \/ client[c].lapses = 0
    BY <1>5
  <2> QED
    BY <1>1, <1>2, <1>3, <1>5, <1>7, <2>1, <2>2, <2>3 DEF DoneSoFar, Removed, Stores
<1>10. /\ specFile' \in [Ids -> Specs \cup {NoSpec, TornSpec}] /\ told' \in Told /\ told'[own] = told[own]
       /\ UNCHANGED <<boot, running, index>> /\ k.op = client[c].op
  BY <1>1, <1>2, <1>5, StoredTypes
<1> QED
  BY <1>2, <1>3, <1>5, <1>6, <1>7, <1>8, <1>9, <1>10, PlainProgressKeeps

\* A call that succeeds and was alone tells what is stored.
LEMMA RegisterAnswerKeeps ==
  ASSUME BehaviorInv, NEW c \in Clients, RegisterAnswer(c)
  PROVE  BehaviorInv'
<1>1. client[c].pc = "answer" /\ UNCHANGED <<specFile, specNvs, index, running, boot>>
  BY DEF RegisterAnswer
<1>2. Stores(client[c]) /\ client[c].op = "register" /\ client[c].spec \in Specs /\ client[c].lapses \in Nat
  BY <1>1, StoringCall DEF BehaviorInv, BehaviorTypes, RightPlace, Stores, Calls
<1>3. PICK own \in Ids : own = client[c].id
  BY <1>2, StoringCall
<1>4. client' = [client EXCEPT ![c] = NoCall] /\ NoCall.pc = "idle"
  BY DEF RegisterAnswer, Succeeded, NoCall
<1>5. CASE ~client[c].alone
  <2>1. told' = told
    BY <1>5 DEF RegisterAnswer, Succeeded
  <2> QED BY <1>1, <1>2, <1>3, <1>4, <2>1, StoredTypes, PlainProgressKeeps
        DEF RightPlace, DoneSoFar, Stores
<1>6. CASE client[c].alone
  <2>1. told' = [told EXCEPT ![own] = Relied(client[c].spec, client[c].lapses)]
    BY <1>3, <1>6 DEF RegisterAnswer, Succeeded
  <2>2. /\ told' \in Told
        /\ told'[own].spec = client[c].spec /\ told'[own].lapses = client[c].lapses /\ told'[own].dropped = {}
        /\ \A id \in Ids \ {own} : told'[id] = told[id]
    BY <1>2, <2>1 DEF Relied, BehaviorInv, BehaviorTypes, Told
  <2>3. StoredAsTold(own)' /\ IndexFits(own)'
    <3>1. DoneSoFar(client[c])
      BY <1>2, StoringCall
    <3>2. /\ specNvs[own] = client[c].spec /\ specFile[own] \in {client[c].spec, TornSpec}
          /\ client[c].lapses = 0 => own \in index.all /\ (own \in index.auto <=> client[c].spec \in AutoSpecs)
      BY <1>1, <1>2, <1>3, <1>6, <3>1 DEF DoneSoFar, Registered
    <3>3. client[c].spec # NoSpec
      BY <1>2, BehaviorAssumption
    <3>4. StoredAsTold(own)'
      BY <1>1, <1>2, <2>2, <3>2, <3>3 DEF StoredAsTold
    <3>5. IndexFits(own)'
      BY <1>1, <1>2, <2>2, <3>2, <3>3 DEF IndexFits, FitsAll, FitsAuto, MayList, MayStart, MustList, MustStart
    <3> QED BY <3>4, <3>5
  <2>4. DownAsTold(own)'
    BY <1>2, <2>2, BehaviorAssumption DEF DownAsTold, Relied
  <2>5. \A d \in Clients : ~Stores(client'[d])
    BY <1>2, <1>4, <1>6 DEF BehaviorInv, BehaviorTypes, AloneInv, Stores
  <2>6. SettledInv(own)'
    BY <2>3, <2>4, <2>5 DEF SettledInv, Bystander, Stores
  <2> QED BY <1>1, <1>2, <1>3, <1>4, <2>2, <2>6, StoredTypes, PlainProgressKeeps
        DEF RightPlace, DoneSoFar, Stores
<1> QED BY <1>5, <1>6

LEMMA UnlinkKeeps ==
  ASSUME BehaviorInv, NEW c \in Clients, Unlink(c)
  PROVE  BehaviorInv'
<1>1. client[c].pc = "unlink" /\ UNCHANGED <<specNvs, index, running, boot>>
  BY DEF Unlink
<1>2. Stores(client[c]) /\ client[c].op = "remove" /\ client[c].lapses \in Nat
  BY <1>1, StoringCall DEF BehaviorInv, BehaviorTypes, RightPlace, Stores, Calls
<1>3. PICK own \in Ids : own = client[c].id
  BY <1>2, StoringCall
<1>4. client' = [client EXCEPT ![c] = NoCall] /\ NoCall.pc = "idle"
  BY DEF Unlink, Succeeded, NoCall
<1>5. /\ specFile' \in [Ids -> Specs \cup {NoSpec, TornSpec}] /\ specFile'[own] = NoSpec
      /\ \A id \in Ids \ {own} : specFile'[id] = specFile[id]
  BY <1>3 DEF Unlink, BehaviorInv, BehaviorTypes
<1>6. CASE ~client[c].alone
  <2>1. told' = told
    BY <1>6 DEF Unlink, Succeeded
  <2> QED BY <1>1, <1>2, <1>3, <1>4, <1>5, <2>1, StoredTypes, PlainProgressKeeps
        DEF RightPlace, DoneSoFar, Stores
<1>7. CASE client[c].alone
  <2>1. told' = [told EXCEPT ![own] = Relied(NoSpec, client[c].lapses)]
    BY <1>3, <1>7 DEF Unlink, Succeeded
  <2>2. /\ told' \in Told
        /\ told'[own].spec = NoSpec /\ told'[own].lapses = client[c].lapses
        /\ \A id \in Ids \ {own} : told'[id] = told[id]
    BY <1>2, <2>1 DEF Relied, BehaviorInv, BehaviorTypes, Told
  <2>3. StoredAsTold(own)' /\ IndexFits(own)'
    <3>1. DoneSoFar(client[c])
      BY <1>2, StoringCall
    <3>2. /\ client[c].lapses = 0 => own \notin index.all /\ own \notin index.auto /\ specNvs[own] = NoSpec
          /\ client[c].lapses < 2 => own \notin index.auto \/ specNvs[own] = NoSpec
      BY <1>1, <1>2, <1>3, <1>7, <3>1 DEF DoneSoFar, Removed
    <3>3. NoSpec \notin Specs /\ NoSpec \notin AutoSpecs
      BY BehaviorAssumption
    <3>4. StoredAsTold(own)'
      BY <1>1, <1>5, <2>2, <3>2, <3>3 DEF StoredAsTold
    <3>5. IndexFits(own)'
      BY <1>1, <1>2, <2>2, <3>2, <3>3 DEF IndexFits, FitsAll, FitsAuto, MayList, MayStart, MustList, MustStart
    <3> QED BY <3>4, <3>5
  <2>4. /\ \A d \in Clients \ {c} : ~Stores(client[d]) /\ ~Starts(client[d], own)
        /\ boot.id # own /\ own \notin running
    BY <1>2, <1>3, <1>7 DEF BehaviorInv, AloneInv
  <2>5. \A d \in Clients : ~Stores(client'[d]) /\ ~Starts(client'[d], own)
    BY <1>4, <2>4 DEF BehaviorInv, BehaviorTypes, Stores, Starts
  <2>6. DownAsTold(own)'
    BY <1>1, <2>4, <2>5 DEF DownAsTold, Starts
  <2>7. SettledInv(own)'
    BY <2>3, <2>5, <2>6 DEF SettledInv, Bystander, Stores
  <2> QED BY <1>1, <1>2, <1>3, <1>4, <1>5, <2>2, <2>7, StoredTypes, PlainProgressKeeps
        DEF RightPlace, DoneSoFar, Stores
<1> QED BY <1>6, <1>7

LEMMA UnlinkFailsKeeps ==
  ASSUME BehaviorInv, NEW c \in Clients, UnlinkFails(c)
  PROVE  BehaviorInv'
<1>1. client[c].pc = "unlink" /\ Failed(c) /\ UNCHANGED <<specFile, specNvs, index, running, boot>>
  BY DEF UnlinkFails
<1>2. Stores(client[c])
  BY <1>1 DEF BehaviorInv, BehaviorTypes, RightPlace, Stores
<1> QED BY <1>1, <1>2, FailedKeeps
-----------------------------------------------------------------------------
(* A call that stores starts                                               *)

LEMMA BeginStoreKeeps ==
  ASSUME BehaviorInv, NEW c \in Clients, NEW id \in Ids, NEW op, NEW s, NEW pc, Begin(c, op, id, s, pc),
         \/ op = "register" /\ s \in Specs /\ pc = "write" /\ specFile'[id] = TornSpec
         \/ op = "remove" /\ s = NoSpec /\ pc = "loadAll" /\ id \notin running',
         UNCHANGED <<specNvs, index>>, running' \subseteq running,
         specFile' \in [Ids -> Specs \cup {NoSpec, TornSpec}],
         \A x \in Ids \ {id} : specFile'[x] = specFile[x]
  PROVE  BehaviorInv'
<1>1. PICK k : /\ k = [pc |-> pc, op |-> op, id |-> id, spec |-> s, csv |-> {}, alone |-> k.alone, lapses |-> 0]
               /\ k.alone <=> /\ \A d \in Clients \ {c} : ~Stores(client[d]) /\ ~Starts(client[d], id)
                             /\ boot.id # id
               /\ k.alone \in BOOLEAN
               /\ client' = [d \in Clients |->
                     IF d = c THEN k
                     ELSE IF Stores(client[d]) THEN [client[d] EXCEPT !.alone = FALSE] ELSE client[d]]
  <2> PICK a \in BOOLEAN : a <=> /\ \A d \in Clients \ {c} : ~Stores(client[d]) /\ ~Starts(client[d], id)
                                 /\ boot.id # id
    OBVIOUS
  <2> PICK k : k = [pc |-> pc, op |-> op, id |-> id, spec |-> s, csv |-> {}, alone |-> a, lapses |-> 0]
    OBVIOUS
  <2>1. a = (/\ op # "start"
             /\ \A d \in Clients \ {c} : ~Stores(client[d]) /\ ~Starts(client[d], id)
             /\ boot.id # id)
    OBVIOUS
  <2>2. client' = [d \in Clients |->
                     IF d = c THEN k
                     ELSE IF Stores(client[d]) THEN [client[d] EXCEPT !.alone = FALSE] ELSE client[d]]
    BY <2>1 DEF Begin, Disturbed
  <2> QED BY <2>2
<1>2. /\ client[c].pc = "idle" /\ told' = [told EXCEPT ![id] = Relied(Unknown, 0)]
      /\ boot' = [boot EXCEPT !.stirred = IF boot.pc \in {"asleep", "skipped"} THEN {} ELSE boot.stirred \cup {id}]
  BY DEF Begin
<1>3. /\ k.pc = pc /\ k.op = op /\ k.id = id /\ k.spec = s /\ k.lapses = 0 /\ k \in Calls /\ RightPlace(k)
      /\ Stores(k)
  BY <1>1, BehaviorAssumption DEF Calls, Pcs, RightPlace, Stores
<1>4. ASSUME NEW d \in Clients, d # c
      PROVE  /\ client'[d] \in Calls \cup {NoCall} /\ RightPlace(client'[d])
             /\ Stores(client'[d]) <=> Stores(client[d])
             /\ \A x : Starts(client'[d], x) <=> Starts(client[d], x)
             /\ Stores(client'[d]) => /\ ~client'[d].alone /\ client'[d].id = client[d].id
                                      /\ client'[d].pc = client[d].pc /\ client'[d].csv = client[d].csv
  <2>1. client[d] \in Calls \cup {NoCall} /\ RightPlace(client[d])
    BY DEF BehaviorInv, BehaviorTypes
  <2>2. CASE ~Stores(client[d])
    BY <1>1, <1>4, <2>1, <2>2
  <2>3. CASE Stores(client[d])
    <3> PICK l : l = [client[d] EXCEPT !.alone = FALSE]
      OBVIOUS
    <3>1. client'[d] = l
      BY <1>1, <1>4, <2>3
    <3>2. client[d] \in Calls /\ client[d].pc # "idle"
      BY <2>1, <2>3 DEF RightPlace, Stores
    <3>3. /\ l \in Calls /\ ~l.alone /\ l.id = client[d].id /\ l.pc = client[d].pc /\ l.csv = client[d].csv
          /\ l.op = client[d].op /\ l.spec = client[d].spec
      BY <3>2 DEF Calls
    <3> QED BY <2>1, <2>3, <3>1, <3>2, <3>3 DEF RightPlace, Stores, Starts
  <2> QED BY <2>2, <2>3
<1>5. client'[c] = k /\ client' \in [Clients -> Calls \cup {NoCall}]
  BY <1>1, <1>3, <1>4
<1>6. /\ told' \in Told
      /\ told'[id].spec = Unknown /\ \A x \in Ids \ {id} : told'[x] = told[x]
  BY <1>2 DEF Relied, BehaviorInv, BehaviorTypes, Told
<1>7. /\ boot' \in Boots /\ boot'.pc = boot.pc /\ boot'.todo = boot.todo /\ boot'.id = boot.id
      /\ boot'.ran = boot.ran /\ boot'.started = boot.started /\ boot'.unread = boot.unread
      /\ BootUp => id \in boot'.stirred /\ boot.stirred \subseteq boot'.stirred
  <2>1. boot \in Boots
    BY DEF BehaviorInv, BehaviorTypes
  <2>2. PICK S \in SUBSET Ids : /\ S = IF boot.pc \in {"asleep", "skipped"} THEN {} ELSE boot.stirred \cup {id}
                                /\ BootUp => id \in S /\ boot.stirred \subseteq S
    <3>1. CASE boot.pc \in {"asleep", "skipped"}
      <4> PICK S \in SUBSET Ids : S = {}
        OBVIOUS
      <4> QED BY <3>1 DEF BootUp
    <3>2. CASE boot.pc \notin {"asleep", "skipped"}
      <4> PICK S : S = boot.stirred \cup {id}
        OBVIOUS
      <4>1. S \in SUBSET Ids /\ id \in S /\ boot.stirred \subseteq S
        BY <2>1 DEF Boots
      <4> QED BY <3>2, <4>1
    <3> QED BY <3>1, <3>2
  <2>3. boot' = [boot EXCEPT !.stirred = S]
    BY <1>2, <2>2
  <2> QED BY <2>1, <2>2, <2>3 DEF Boots
<1>8. BehaviorTypes'
  BY <1>3, <1>4, <1>5, <1>6, <1>7 DEF BehaviorInv, BehaviorTypes
<1>9. AloneInv'
  <2> SUFFICES ASSUME NEW d \in Clients, Stores(client'[d]), client'[d].alone
               PROVE  /\ \A e \in Clients \ {d} : ~Stores(client'[e]) /\ ~Starts(client'[e], client'[d].id)
                      /\ boot'.id # client'[d].id
                      /\ client'[d].op = "remove" => client'[d].id \notin running'
    BY DEF AloneInv, Stores, Starts
  <2>1. d = c /\ client'[d] = k
    BY <1>4, <1>5
  <2> QED BY <1>1, <1>3, <1>4, <1>7, <2>1
<1>10. DoneInv'
  <2>1. DoneSoFar(client[c])'
    BY <1>3, <1>5 DEF DoneSoFar, Registered, Removed
  <2>2. ASSUME NEW d \in Clients, d # c PROVE DoneSoFar(client[d])'
    BY <1>4, <2>2 DEF DoneSoFar, Stores
  <2> QED BY <2>1, <2>2 DEF DoneInv
<1>11. BootInv'
  <2>1. BootUp <=> BootUp'
    BY <1>7 DEF BootUp
  <2>2. ASSUME NEW d \in Clients, Stores(client'[d]), BootUp PROVE client'[d].id \in boot'.stirred
    BY <1>3, <1>4, <1>5, <1>7, <2>2 DEF BehaviorInv, BootInv
  <2> QED BY <1>7, <2>1, <2>2 DEF BehaviorInv, BootInv, Stores
<1>12. SettledInv(id)' /\ BootFollows(id)'
  BY <1>6 DEF SettledInv, BootFollows, Settled
<1>13. ASSUME NEW x \in Ids, x # id PROVE SettledInv(x)' /\ BootFollows(x)'
  <2>1. SettledInv(x) /\ BootFollows(x) /\ Untouched(x)
    BY <1>6, <1>13 DEF BehaviorInv, Untouched
  <2>2. CASE ~Settled(x)
    BY <2>1, <2>2 DEF SettledInv, BootFollows, Settled, Untouched
  <2>3. CASE Settled(x)
    <3>1. \A d \in Clients : Bystander(client'[d], x)
      <4> SUFFICES ASSUME NEW d \in Clients PROVE Bystander(client'[d], x)
        OBVIOUS
      <4>1. CASE d = c
        BY <1>3, <1>5, <1>13, <4>1 DEF Bystander, Stores
      <4>2. CASE d # c
        <5>1. Bystander(client[d], x)
          BY <2>1, <2>3 DEF SettledInv
        <5> QED BY <1>4, <4>2, <5>1 DEF Bystander
      <4> QED BY <4>1, <4>2
    <3>2. DownAsTold(x) => DownAsTold(x)'
      <4>1. ~Starts(client'[c], x)
        BY <1>3, <1>5, <1>13 DEF Starts
      <4> QED BY <1>4, <1>7, <2>1, <4>1 DEF DownAsTold, Untouched, Starts
    <3>3. SettledInv(x)'
      BY <2>1, <2>3, <3>1, <3>2, SettledKept DEF SettledInv, IndexFits
    <3>4. BootFollows(x)'
      <4>1. (MayStart(x)' <=> MayStart(x)) /\ (MustStart(x)' => MustStart(x))
        BY <2>1, UntouchedFits
      <4> QED BY <1>7, <2>1, <4>1 DEF BootFollows, Untouched, Settled, BootUp
    <3> QED BY <3>3, <3>4
  <2> QED BY <2>2, <2>3
<1> QED BY <1>8, <1>9, <1>10, <1>11, <1>12, <1>13 DEF BehaviorInv

LEMMA RegisterOpenKeeps ==
  ASSUME BehaviorInv, NEW c \in Clients, RegisterOpen(c)
  PROVE  BehaviorInv'
<1> PICK id \in Ids, s \in Specs :
      /\ Begin(c, "register", id, s, "write")
      /\ specFile' = [specFile EXCEPT ![id] = TornSpec]
      /\ UNCHANGED <<specNvs, index, running>>
  BY DEF RegisterOpen
<1>1. /\ specFile' \in [Ids -> Specs \cup {NoSpec, TornSpec}]
      /\ specFile'[id] = TornSpec /\ \A x \in Ids \ {id} : specFile'[x] = specFile[x]
  BY DEF BehaviorInv, BehaviorTypes
<1> QED BY <1>1, BeginStoreKeeps

LEMMA RemoveStopKeeps ==
  ASSUME BehaviorInv, NEW c \in Clients, RemoveStop(c)
  PROVE  BehaviorInv'
<1> PICK id \in Ids : /\ Begin(c, "remove", id, NoSpec, "loadAll")
                      /\ running' = running \ {id}
                      /\ UNCHANGED storage
  BY DEF RemoveStop
<1>1. specFile' \in [Ids -> Specs \cup {NoSpec, TornSpec}] /\ UNCHANGED <<specFile, specNvs, index>>
  BY DEF BehaviorInv, BehaviorTypes, storage
<1> QED BY <1>1, BeginStoreKeeps
-----------------------------------------------------------------------------
(* The steps that store nothing                                            *)

\* A call that stores is where it was, or was overlapped by another.
OnlyDisturbed(k, l) ==
  Stores(l) => /\ Stores(k) /\ l.op = k.op /\ l.pc = k.pc /\ l.id = k.id /\ l.spec = k.spec
               /\ l.csv = k.csv /\ l.lapses = k.lapses /\ (l.alone => k.alone)

\* A client, the autostart task or a task that ends: nothing is stored, and what the
\* step starts is not what a call that was alone removes.
LEMMA NothingStoredKeeps ==
  ASSUME BehaviorInv, UNCHANGED <<specFile, specNvs, index, told>>,
         client' \in [Clients -> Calls \cup {NoCall}],
         \A c \in Clients : RightPlace(client'[c]) /\ OnlyDisturbed(client[c], client'[c]),
         \A c \in Clients : Stores(client'[c]) /\ client'[c].alone =>
           /\ \A d \in Clients : ~Starts(client'[d], client[c].id)
           /\ boot'.id # client[c].id
           /\ client[c].op = "remove" => client[c].id \notin running',
         running' \subseteq Ids, boot' \in Boots, BootInv',
         \A id \in Ids : SettledInv(id) /\ Settled(id) => BootFollows(id)',
         \A id \in Ids : SettledInv(id) /\ told[id].spec = NoSpec /\ told[id].lapses = 0 => DownAsTold(id)'
  PROVE  BehaviorInv'
<1>1. BehaviorTypes'
  BY DEF BehaviorInv, BehaviorTypes
<1>2. AloneInv'
  <2> SUFFICES ASSUME NEW c \in Clients, Stores(client'[c]), client'[c].alone
               PROVE  /\ \A d \in Clients \ {c} : ~Stores(client'[d]) /\ ~Starts(client'[d], client'[c].id)
                      /\ boot'.id # client'[c].id
                      /\ client'[c].op = "remove" => client'[c].id \notin running'
    BY DEF AloneInv, Stores, Starts
  <2>1. /\ Stores(client[c]) /\ client[c].alone /\ client'[c].id = client[c].id
        /\ client'[c].op = client[c].op
    BY DEF OnlyDisturbed
  <2>2. \A d \in Clients \ {c} : ~Stores(client'[d])
    BY <2>1 DEF OnlyDisturbed, BehaviorInv, AloneInv
  <2> QED BY <2>1, <2>2
<1>3. DoneInv'
  <2> SUFFICES ASSUME NEW c \in Clients, Stores(client'[c]), client'[c].alone
               PROVE  /\ client'[c].op = "register" => Registered(client[c])'
                      /\ client'[c].op = "remove" => Removed(client[c])'
    BY DEF DoneInv, DoneSoFar, Stores
  <2>1. OnlyDisturbed(client[c], client'[c]) /\ DoneSoFar(client[c])
    BY DEF BehaviorInv, DoneInv
  <2> QED BY <2>1 DEF OnlyDisturbed, DoneSoFar, Registered, Removed
<1>4. ASSUME NEW id \in Ids PROVE SettledInv(id)' /\ BootFollows(id)'
  <2>1. SettledInv(id) /\ Untouched(id)
    BY DEF BehaviorInv, Untouched
  <2>2. CASE ~Settled(id)
    BY <2>2 DEF SettledInv, BootFollows, Settled
  <2>3. CASE Settled(id)
    <3>1. \A c \in Clients : Bystander(client'[c], id)
      <4> SUFFICES ASSUME NEW c \in Clients PROVE Bystander(client'[c], id)
        OBVIOUS
      <4>1. OnlyDisturbed(client[c], client'[c]) /\ Bystander(client[c], id)
        BY <2>1, <2>3 DEF SettledInv
      <4> QED BY <4>1 DEF OnlyDisturbed, Bystander
    <3> QED BY <2>1, <2>3, <3>1, SettledKept DEF SettledInv, IndexFits
  <2> QED BY <2>2, <2>3
<1> QED BY <1>1, <1>2, <1>3, <1>4 DEF BehaviorInv

\* What was removed and lost nothing on the way cannot be loaded.
LEMMA RemovedIsGone ==
  ASSUME BehaviorInv, NEW id \in Ids, SettledInv(id), told[id].spec = NoSpec, told[id].lapses = 0
  PROVE  Loaded(id) = NoSpec /\ specFile[id] = NoSpec /\ Loaded(id) \notin Specs /\ Loaded(id) \notin AutoSpecs /\ DownAsTold(id)
<1>1. StoredAsTold(id) /\ DownAsTold(id)
  BY BehaviorAssumption DEF SettledInv, Settled
<1> QED BY <1>1, BehaviorAssumption DEF StoredAsTold, Loaded

\* What a settled id has stored is what was said, when nothing failed, and so is what
\* the autostart task reads of it, if it reads what is stored.
LEMMA SettledReads ==
  ASSUME BehaviorInv, NEW id \in Ids, SettledInv(id), Settled(id), NEW s, Read(id, s)
  PROVE  /\ MustStart(id) => s \in AutoSpecs \/ id \in Missed(id, s)
         /\ s \in Specs => ~(told[id].spec = NoSpec /\ told[id].lapses < 2 /\ MayStart(id))
<1>1. StoredAsTold(id)
  BY DEF SettledInv
<1>2. Read(id, s) => s = Loaded(id) \/ s = specFile[id] \/ s = NoSpec
  BY DEF Read
<1> QED BY <1>1, <1>2, BehaviorAssumption DEF StoredAsTold, Loaded, Missed, MustStart, MayStart

\* The autostart task is where it was, or has only moved its place.
LEMMA SameBoot ==
  ASSUME BehaviorInv, UNCHANGED <<specFile, specNvs, told>>,
         boot'.todo = boot.todo, boot'.id = boot.id, boot'.ran = boot.ran, boot'.unread = boot.unread,
         boot'.started = boot.started, boot'.stirred = boot.stirred, BootUp' => BootUp
  PROVE  \A id \in Ids : BootFollows(id)'
<1>1. ASSUME NEW id \in Ids PROVE BootFollows(id)'
  <2>1. BootFollows(id) /\ (MayStart(id)' <=> MayStart(id)) /\ (MustStart(id)' <=> MustStart(id))
    BY DEF BehaviorInv, MayStart, MustStart
  <2> QED BY <2>1 DEF BootFollows, Settled
<1> QED BY <1>1

LEMMA TaskEndsKeeps ==
  ASSUME BehaviorInv, TaskEnds
  PROVE  BehaviorInv'
<1>1. running' \subseteq running /\ UNCHANGED <<specFile, specNvs, index, client, boot, told>>
  BY DEF TaskEnds
<1>2. BehaviorTypes /\ AloneInv /\ BootInv
  BY DEF BehaviorInv
<1>3. \A c \in Clients : RightPlace(client'[c]) /\ OnlyDisturbed(client[c], client'[c])
  BY <1>1, <1>2 DEF BehaviorTypes, OnlyDisturbed
<1>4. BootInv'
  BY <1>1, <1>2 DEF BootInv, BootUp
<1>5. \A id \in Ids : BootFollows(id)'
  BY <1>1, SameBoot DEF BootUp
<1>6. \A id \in Ids : DownAsTold(id) => DownAsTold(id)'
  BY <1>1 DEF DownAsTold
<1>7. ASSUME NEW c \in Clients, Stores(client'[c]), client'[c].alone
      PROVE  /\ \A d \in Clients : ~Starts(client'[d], client[c].id)
             /\ boot'.id # client[c].id
             /\ client[c].op = "remove" => client[c].id \notin running'
  BY <1>1, <1>2, <1>7 DEF AloneInv, Stores, Starts
<1> QED BY <1>1, <1>2, <1>3, <1>4, <1>5, <1>6, <1>7, RemovedIsGone, NothingStoredKeeps DEF BehaviorTypes

LEMMA StartLoadKeeps ==
  ASSUME BehaviorInv, NEW c \in Clients, StartLoad(c)
  PROVE  BehaviorInv'
<1> PICK id \in Ids, s \in Specs : /\ s = Loaded(id) \/ s = specFile[id]
                                 /\ Begin(c, "start", id, s, "start")
                                 /\ UNCHANGED <<specFile, specNvs, index, running>>
  BY DEF StartLoad
<1> PICK k : k = [pc |-> "start", op |-> "start", id |-> id, spec |-> s, csv |-> {}, alone |-> FALSE, lapses |-> 0]
  OBVIOUS
<1>1. /\ UNCHANGED <<told, boot>>
      /\ client' = [d \in Clients |->
             IF d = c THEN k
             ELSE IF Stores(client[d]) /\ client[d].id = id THEN [client[d] EXCEPT !.alone = FALSE] ELSE client[d]]
  <2>1. FALSE = (/\ "start" # "start"
                 /\ \A d \in Clients \ {c} : ~Stores(client[d]) /\ ~Starts(client[d], id)
                 /\ boot.id # id)
    OBVIOUS
  <2> QED BY <2>1 DEF Begin, Disturbed
<1>2. k \in Calls /\ RightPlace(k) /\ ~Stores(k) /\ k.id = id
  BY DEF Calls, Pcs, RightPlace, Stores
<1>3. ASSUME NEW d \in Clients
      PROVE  /\ client'[d] \in Calls \cup {NoCall} /\ RightPlace(client'[d]) /\ OnlyDisturbed(client[d], client'[d])
             /\ Stores(client'[d]) /\ client'[d].alone => client[d].id # id
             /\ \A x : Starts(client'[d], x) => Starts(client[d], x) \/ x = id
  <2>1. client[d] \in Calls \cup {NoCall} /\ RightPlace(client[d])
    BY DEF BehaviorInv, BehaviorTypes
  <2>2. CASE d = c
    BY <1>1, <1>2, <2>2 DEF OnlyDisturbed, Starts
  <2>3. CASE d # c /\ ~(Stores(client[d]) /\ client[d].id = id)
    BY <1>1, <2>1, <2>3 DEF OnlyDisturbed
  <2>4. CASE d # c /\ Stores(client[d]) /\ client[d].id = id
    <3> PICK l : l = [client[d] EXCEPT !.alone = FALSE]
      OBVIOUS
    <3>1. client'[d] = l
      BY <1>1, <2>4
    <3>2. client[d] \in Calls /\ client[d].pc # "idle"
      BY <2>1, <2>4 DEF RightPlace, Stores
    <3>3. /\ l \in Calls /\ ~l.alone /\ l.id = client[d].id /\ l.pc = client[d].pc /\ l.csv = client[d].csv
          /\ l.op = client[d].op /\ l.spec = client[d].spec /\ l.lapses = client[d].lapses
      BY <3>2 DEF Calls
    <3>4. RightPlace(l)
      BY <2>1, <3>2, <3>3 DEF RightPlace
    <3>5. OnlyDisturbed(client[d], l) /\ ~(\E x : Starts(l, x))
      BY <2>4, <3>3 DEF OnlyDisturbed, Stores, Starts
    <3> QED BY <3>1, <3>3, <3>4, <3>5
  <2> QED BY <2>2, <2>3, <2>4
<1>4. client' \in [Clients -> Calls \cup {NoCall}]
  BY <1>1, <1>3
<1>5. BehaviorTypes /\ AloneInv /\ BootInv
  BY DEF BehaviorInv
<1>6. BootInv'
  BY <1>1, <1>3, <1>5 DEF BootInv, BootUp, OnlyDisturbed
<1>7. \A x \in Ids : BootFollows(x)'
  BY <1>1, SameBoot DEF BootUp
<1>8. ASSUME NEW x \in Ids, SettledInv(x), told[x].spec = NoSpec, told[x].lapses = 0 PROVE DownAsTold(x)'
  <2>1. DownAsTold(x) /\ x # id
    BY <1>8, RemovedIsGone, BehaviorAssumption
  <2> QED BY <1>1, <1>3, <1>8, <2>1 DEF DownAsTold, Starts
<1>9. ASSUME NEW d \in Clients, Stores(client'[d]), client'[d].alone
      PROVE  /\ \A e \in Clients : ~Starts(client'[e], client[d].id)
             /\ boot'.id # client[d].id
             /\ client[d].op = "remove" => client[d].id \notin running'
  <2>1. Stores(client[d]) /\ client[d].alone /\ client[d].id # id
    BY <1>3, <1>9 DEF OnlyDisturbed
  <2>2. \A e \in Clients : ~Starts(client[e], client[d].id)
    BY <1>5, <2>1 DEF AloneInv, Stores, Starts
  <2> QED BY <1>1, <1>3, <1>5, <2>1, <2>2 DEF AloneInv
<1> QED BY <1>1, <1>3, <1>4, <1>5, <1>6, <1>7, <1>8, <1>9, NothingStoredKeeps DEF BehaviorTypes

LEMMA StartTaskKeeps ==
  ASSUME BehaviorInv, NEW c \in Clients, StartTask(c)
  PROVE  BehaviorInv'
<1>1. /\ client[c].pc = "start" /\ UNCHANGED <<specFile, specNvs, index, boot, told>>
      /\ running' = running \cup {client[c].id} /\ client' = [client EXCEPT ![c] = NoCall]
  BY DEF StartTask
<1>2. BehaviorTypes /\ AloneInv /\ BootInv
  BY DEF BehaviorInv
<1>3. client[c] \in Calls /\ client[c].op = "start" /\ client[c].id \in Ids /\ Starts(client[c], client[c].id)
  BY <1>1, <1>2 DEF BehaviorTypes, RightPlace, Calls, Starts
<1>4. NoCall.pc = "idle" /\ client' \in [Clients -> Calls \cup {NoCall}] /\ client'[c] = NoCall
      /\ \A d \in Clients : d # c => client'[d] = client[d]
  BY <1>1, <1>2 DEF BehaviorTypes, NoCall
<1>5. \A d \in Clients : RightPlace(client'[d]) /\ OnlyDisturbed(client[d], client'[d])
  BY <1>2, <1>4 DEF BehaviorTypes, RightPlace, OnlyDisturbed, Stores
<1>6. BootInv'
  BY <1>1, <1>2, <1>5 DEF BootInv, BootUp, OnlyDisturbed
<1>7. \A x \in Ids : BootFollows(x)'
  BY <1>1, SameBoot DEF BootUp
<1>8. ASSUME NEW x \in Ids, DownAsTold(x), told[x].spec = NoSpec, told[x].lapses = 0 PROVE DownAsTold(x)'
  BY <1>1, <1>3, <1>4, <1>8 DEF DownAsTold, Starts
<1>9. ASSUME NEW d \in Clients, Stores(client'[d]), client'[d].alone
      PROVE  /\ \A e \in Clients : ~Starts(client'[e], client[d].id)
             /\ boot'.id # client[d].id
             /\ client[d].op = "remove" => client[d].id \notin running'
  <2>1. d # c /\ Stores(client[d]) /\ client[d].alone
    BY <1>4, <1>9 DEF Stores
  <2>2. /\ \A e \in Clients : ~Starts(client[e], client[d].id)
        /\ boot.id # client[d].id /\ (client[d].op = "remove" => client[d].id \notin running)
    BY <1>2, <2>1 DEF AloneInv, Stores, Starts
  <2> QED BY <1>1, <1>3, <1>4, <2>1, <2>2 DEF Starts
<1> QED BY <1>1, <1>2, <1>3, <1>4, <1>5, <1>6, <1>7, <1>8, <1>9, RemovedIsGone, NothingStoredKeeps DEF BehaviorTypes

LEMMA RestartKeeps ==
  ASSUME BehaviorInv, Restart
  PROVE  BehaviorInv'
<1>1. UNCHANGED <<specFile, specNvs, index, told>> /\ running' = {} /\ client' = [c \in Clients |-> NoCall]
  BY DEF Restart
<1>2. /\ NoCall.pc = "idle" /\ client' \in [Clients -> Calls \cup {NoCall}]
      /\ \A c \in Clients : client'[c] = NoCall
  BY <1>1 DEF NoCall
<1>3. /\ boot' \in Boots /\ boot'.pc \in {"asleep", "skipped"} /\ boot'.id = NoSpec /\ boot'.started = {}
      /\ boot'.todo = {}
  BY DEF Restart, Asleep, Boots
<1>4. BootInv' /\ (\A id \in Ids : BootFollows(id)')
  BY <1>3 DEF BootInv, BootFollows, BootUp
<1>5. \A c \in Clients : RightPlace(client'[c]) /\ OnlyDisturbed(client[c], client'[c]) /\ ~Stores(client'[c])
  BY <1>2 DEF RightPlace, OnlyDisturbed, Stores
<1>6. \A id \in Ids : DownAsTold(id)'
  BY <1>1, <1>2, <1>3, BehaviorAssumption DEF DownAsTold, Starts
<1> QED BY <1>1, <1>2, <1>3, <1>4, <1>5, <1>6, NothingStoredKeeps
-----------------------------------------------------------------------------
(* The autostart task                                                      *)

\* Where it stands between two of its steps.
LEMMA BootPlace ==
  ASSUME BehaviorInv
  PROVE  /\ boot \in Boots /\ boot.pc \in {"asleep", "skipped", "tasks", "next", "load", "start", "done"}
         /\ boot.todo \subseteq Ids /\ boot.active \subseteq Ids /\ boot.ran \subseteq Ids
         /\ boot.started \subseteq Ids /\ boot.stirred \subseteq Ids /\ boot.id \in Ids \cup {NoSpec}
         /\ index.all \subseteq Ids /\ index.auto \subseteq Ids /\ running \subseteq Ids
BY DEF BehaviorInv, BehaviorTypes, Boots

\* It starts at most the task it was about to.
LEMMA AutostartKeeps ==
  ASSUME BehaviorInv, UNCHANGED <<specFile, specNvs, index, client, told>>, boot' \in Boots, BootInv',
         running' \subseteq running \cup ({boot.id} \cap Ids), boot'.id \in {boot.id, NoSpec},
         \A id \in Ids : SettledInv(id) /\ Settled(id) => BootFollows(id)'
  PROVE  BehaviorInv'
<1>1. BehaviorTypes /\ AloneInv /\ BootInv /\ running' \subseteq Ids
  BY BootPlace DEF BehaviorInv
<1>2. \A c \in Clients : RightPlace(client'[c]) /\ OnlyDisturbed(client[c], client'[c])
  BY <1>1 DEF BehaviorTypes, OnlyDisturbed
<1>3. \A id \in Ids : DownAsTold(id) /\ told[id].spec = NoSpec /\ told[id].lapses = 0 => DownAsTold(id)'
  BY BehaviorAssumption DEF DownAsTold
<1>4. ASSUME NEW c \in Clients, Stores(client'[c]), client'[c].alone
      PROVE  /\ \A d \in Clients : ~Starts(client'[d], client[c].id)
             /\ boot'.id # client[c].id
             /\ client[c].op = "remove" => client[c].id \notin running'
  <2>1. Stores(client[c]) /\ client[c].alone /\ client[c].id \in Ids /\ client'[c].id = client[c].id
    BY <1>4, StoringCall DEF Stores
  <2> QED BY <1>1, <2>1, BehaviorAssumption DEF AloneInv, Stores, Starts
<1> QED BY <1>1, <1>2, <1>3, <1>4, RemovedIsGone, NothingStoredKeeps DEF BehaviorTypes

LEMMA AutostartIndexKeeps ==
  ASSUME BehaviorInv, AutostartIndex
  PROVE  BehaviorInv'
<1>1. boot.pc = "asleep" /\ UNCHANGED <<specFile, specNvs, index, running, client, told>>
  BY DEF AutostartIndex
<1>2. InFlight \subseteq Ids /\ \A c \in Clients : Stores(client[c]) => client[c].id \in InFlight
  BY StoringCall DEF InFlight
<1> PICK S \in SUBSET Ids : S = InFlight
  BY <1>2
<1>3. PICK T, U : /\ boot' = [boot EXCEPT !.pc = "tasks", !.todo = T, !.unread = U, !.stirred = S]
                  /\ T \subseteq index.auto /\ U \subseteq Ids /\ index.auto \subseteq T \cup U
  <2>0. boot.todo = {} /\ boot \in Boots
    BY <1>1, BootPlace DEF BehaviorInv, BootInv, BootUp
  <2>1. CASE boot' = [boot EXCEPT !.pc = "tasks", !.todo = index.auto, !.stirred = S]
    <3> PICK T, U : T = index.auto /\ U = boot.unread
      OBVIOUS
    <3>1. boot' = [boot EXCEPT !.pc = "tasks", !.todo = T, !.unread = U, !.stirred = S]
      BY <2>0, <2>1 DEF Boots
    <3>2. U \subseteq Ids
      BY <2>0 DEF Boots
    <3> QED BY <3>1, <3>2
  <2>2. CASE boot' = [boot EXCEPT !.pc = "tasks", !.unread = index.auto, !.stirred = S]
    <3> PICK T, U : T = {} /\ U = index.auto
      OBVIOUS
    <3>1. boot' = [boot EXCEPT !.pc = "tasks", !.todo = T, !.unread = U, !.stirred = S]
      BY <2>0, <2>2 DEF Boots
    <3>2. U \subseteq Ids
      BY BootPlace
    <3>3. T \subseteq index.auto /\ index.auto \subseteq T \cup U
      OBVIOUS
    <3> QED BY <3>1, <3>2, <3>3, Zenon
  <2> QED BY <2>1, <2>2 DEF AutostartIndex
<1>4. /\ boot' \in Boots /\ boot'.pc = "tasks" /\ boot'.todo = T /\ boot'.stirred = S /\ boot'.unread = U
      /\ boot'.id = boot.id /\ boot'.started = boot.started /\ boot'.ran = boot.ran
  <2>1. T \subseteq Ids
    BY <1>3, BootPlace
  <2> QED BY <1>3, <2>1, BootPlace DEF Boots
<1>5. boot.id = NoSpec /\ boot.started = {}
  BY <1>1 DEF BehaviorInv, BootInv, BootUp
<1>6. BootInv'
  BY <1>1, <1>2, <1>4, <1>5 DEF BootInv, BootUp, Stores
<1>7. ASSUME NEW id \in Ids, SettledInv(id), Settled(id) PROVE BootFollows(id)'
  <2>1. NoSpec # id
    BY BehaviorAssumption
  <2>2. (id \in index.auto => MayStart(id)) /\ (MustStart(id) => id \in index.auto)
    BY <1>7 DEF SettledInv, IndexFits, FitsAuto
  <2>3. (MayStart(id)' <=> MayStart(id)) /\ (MustStart(id)' <=> MustStart(id))
    BY <1>1 DEF MayStart, MustStart
  <2> QED BY <1>3, <1>4, <1>5, <2>1, <2>2, <2>3 DEF BootFollows
<1> QED BY <1>1, <1>4, <1>6, <1>7, AutostartKeeps

LEMMA AutostartTasksKeeps ==
  ASSUME BehaviorInv, AutostartTasks
  PROVE  BehaviorInv'
<1>1. boot.pc = "tasks" /\ UNCHANGED <<specFile, specNvs, index, running, client, told>>
  BY DEF AutostartTasks
<1> PICK S : S = running \cap boot.todo
  OBVIOUS
<1>2. boot' = [boot EXCEPT !.pc = "next", !.active = S] /\ S \subseteq Ids
  BY BootPlace DEF AutostartTasks
<1>3. /\ boot' \in Boots /\ boot'.pc = "next" /\ boot'.todo = boot.todo /\ boot'.stirred = boot.stirred
      /\ boot'.id = boot.id /\ boot'.started = boot.started /\ boot'.ran = boot.ran
      /\ boot'.unread = boot.unread
  BY <1>2, BootPlace DEF Boots
<1>4. BootInv'
  BY <1>1, <1>3 DEF BehaviorInv, BootInv, BootUp, Stores
<1>5. \A id \in Ids : BootFollows(id)'
  BY <1>1, <1>3, SameBoot DEF BootUp
<1> QED BY <1>1, <1>3, <1>4, <1>5, AutostartKeeps

LEMMA AutostartDoneKeeps ==
  ASSUME BehaviorInv, AutostartDone
  PROVE  BehaviorInv'
<1>1. /\ boot.pc = "next" /\ boot.todo = {} /\ boot' = [boot EXCEPT !.pc = "done", !.active = {}]
      /\ UNCHANGED <<specFile, specNvs, index, running, client, told>>
  BY DEF AutostartDone
<1>2. /\ boot' \in Boots /\ boot'.pc = "done" /\ boot'.todo = boot.todo /\ boot'.stirred = boot.stirred
      /\ boot'.id = boot.id /\ boot'.started = boot.started /\ boot'.ran = boot.ran
      /\ boot'.unread = boot.unread
  BY <1>1, BootPlace DEF Boots
<1>3. BootInv'
  BY <1>1, <1>2 DEF BehaviorInv, BootInv, BootUp, Stores
<1>4. \A id \in Ids : BootFollows(id)'
  BY <1>1, <1>2, SameBoot DEF BootUp
<1> QED BY <1>1, <1>2, <1>3, <1>4, AutostartKeeps

LEMMA AutostartLoadKeeps ==
  ASSUME BehaviorInv, AutostartLoad
  PROVE  BehaviorInv'
<1>1. boot.pc = "load" /\ UNCHANGED <<specFile, specNvs, index, running, client, told>>
  BY DEF AutostartLoad
<1>2. PICK id \in Ids : id = boot.id
  BY <1>1 DEF BehaviorInv, BootInv
<1> PICK s : /\ Read(id, s)
             /\ boot' = IF s \in Specs THEN [boot EXCEPT !.pc = "start"]
                        ELSE [boot EXCEPT !.pc = "next", !.id = NoSpec, !.unread = boot.unread \cup Missed(id, s)]
  BY <1>2 DEF AutostartLoad
<1>3. CASE s \in Specs
  <2>1. boot' = [boot EXCEPT !.pc = "start"]
    BY <1>3
  <2>2. /\ boot' \in Boots /\ boot'.pc = "start" /\ boot'.todo = boot.todo /\ boot'.stirred = boot.stirred
        /\ boot'.id = boot.id /\ boot'.started = boot.started /\ boot'.ran = boot.ran
        /\ boot'.unread = boot.unread
    BY <2>1, BootPlace DEF Boots
  <2>3. BootInv'
    BY <1>1, <2>2 DEF BehaviorInv, BootInv, BootUp, Stores
  <2>4. \A x \in Ids : BootFollows(x)'
    BY <1>1, <2>2, SameBoot DEF BootUp
  <2> QED BY <1>1, <2>2, <2>3, <2>4, AutostartKeeps
<1>4. CASE s \notin Specs
  <2> PICK U : U = boot.unread \cup Missed(id, s)
    OBVIOUS
  <2>0. U \subseteq Ids /\ boot.unread \subseteq U /\ Missed(id, s) \subseteq U
    BY BootPlace DEF Missed, Boots
  <2>1. boot' = [boot EXCEPT !.pc = "next", !.id = NoSpec, !.unread = U]
    BY <1>4
  <2>2. /\ boot' \in Boots /\ boot'.pc = "next" /\ boot'.todo = boot.todo /\ boot'.stirred = boot.stirred
        /\ boot'.id = NoSpec /\ boot'.started = boot.started /\ boot'.ran = boot.ran /\ boot'.unread = U
    BY <2>0, <2>1, BootPlace DEF Boots
  <2>3. BootInv'
    BY <1>1, <2>2 DEF BehaviorInv, BootInv, BootUp, Stores
  <2>4. ASSUME NEW x \in Ids, SettledInv(x), Settled(x) PROVE BootFollows(x)'
    <3>1. BootFollows(x) /\ x # NoSpec
      BY BehaviorAssumption DEF BehaviorInv
    <3>2. MustStart(x) => x # id \/ x \in U
      BY <1>4, <2>0, <2>4, SettledReads, BehaviorAssumption
    <3>3. (MayStart(x)' <=> MayStart(x)) /\ (MustStart(x)' <=> MustStart(x))
      BY <1>1 DEF MayStart, MustStart
    <3> QED BY <1>1, <1>2, <2>0, <2>2, <3>1, <3>2, <3>3 DEF BootFollows, BootUp, Settled
  <2> QED BY <1>1, <2>2, <2>3, <2>4, AutostartKeeps
<1> QED BY <1>3, <1>4

LEMMA AutostartStartKeeps ==
  ASSUME BehaviorInv, AutostartStart
  PROVE  BehaviorInv'
<1>1. /\ boot.pc = "start" /\ running' = running \cup {boot.id}
      /\ UNCHANGED <<specFile, specNvs, index, client, told>>
  BY DEF AutostartStart
<1>2. PICK id \in Ids : id = boot.id
  BY <1>1 DEF BehaviorInv, BootInv
<1> PICK S : S = IF id \in running THEN boot.started ELSE boot.started \cup {id}
  OBVIOUS
<1> PICK R : R = boot.ran \cup {id}
  OBVIOUS
<1>3. boot' = [boot EXCEPT !.pc = "next", !.id = NoSpec, !.ran = R, !.started = S]
  BY <1>2 DEF AutostartStart
<1>4. R \subseteq Ids /\ S \subseteq Ids /\ S \subseteq boot.started \cup {id}
  BY <1>2, BootPlace
<1>5. /\ boot' \in Boots /\ boot'.pc = "next" /\ boot'.todo = boot.todo /\ boot'.stirred = boot.stirred
      /\ boot'.id = NoSpec /\ boot'.started = S /\ boot'.ran = R /\ boot'.unread = boot.unread
  BY <1>3, <1>4, BootPlace DEF Boots
<1>6. BootInv'
  BY <1>1, <1>5 DEF BehaviorInv, BootInv, BootUp, Stores
<1>7. ASSUME NEW x \in Ids PROVE BootFollows(x)'
  <2>1. BootFollows(x) /\ x # NoSpec
    BY BehaviorAssumption DEF BehaviorInv
  <2>2. (MayStart(x)' <=> MayStart(x)) /\ (MustStart(x)' <=> MustStart(x))
    BY <1>1 DEF MayStart, MustStart
  <2> QED BY <1>1, <1>2, <1>4, <1>5, <2>1, <2>2 DEF BootFollows, BootUp, Settled
<1> QED BY <1>1, <1>2, <1>5, <1>6, <1>7, AutostartKeeps

Passed(id, R, U) == boot' = [boot EXCEPT !.todo = boot.todo \ {id}, !.ran = R, !.unread = U]

\* A behavior whose task runs is left; one that cannot be loaded is passed over.
LEMMA AutostartPassesKeeps ==
  ASSUME BehaviorInv, boot.pc = "next", NEW id \in boot.todo,
         UNCHANGED <<specFile, specNvs, index, running, client, told>>,
         NEW R, R = boot.ran \/ R = boot.ran \cup {id},
         NEW U, boot.unread \subseteq U, U \subseteq Ids,
         Passed(id, R, U),
         SettledInv(id) /\ Settled(id) /\ MustStart(id) => id \in R \cup U
  PROVE  BehaviorInv'
<1>1. /\ boot' \in Boots /\ boot'.pc = "next" /\ boot'.todo = boot.todo \ {id} /\ boot'.stirred = boot.stirred
      /\ boot'.id = boot.id /\ boot'.started = boot.started /\ boot'.ran = R /\ boot'.unread = U
  <2> PICK T \in SUBSET Ids : T = boot.todo \ {id}
    BY BootPlace
  <2>1. boot' = [boot EXCEPT !.todo = T, !.ran = R, !.unread = U] /\ R \subseteq Ids
    BY BootPlace DEF Passed
  <2> QED BY <2>1, BootPlace DEF Boots
<1>2. BootInv'
  BY <1>1 DEF BehaviorInv, BootInv, BootUp, Stores
<1>3. ASSUME NEW x \in Ids, SettledInv(x), Settled(x) PROVE BootFollows(x)'
  <2>1. BootFollows(x)
    BY DEF BehaviorInv
  <2>2. MustStart(x) => x # id \/ x \in R \cup U
    BY <1>3
  <2>3. (MayStart(x)' <=> MayStart(x)) /\ (MustStart(x)' <=> MustStart(x))
    BY DEF MayStart, MustStart
  <2> QED BY <1>1, <2>1, <2>2, <2>3 DEF BootFollows, BootUp, Settled
<1> QED BY <1>1, <1>2, <1>3, AutostartKeeps

\* One that loads is about to be started; a call that stores it is disturbed.
LEMMA AutostartTouchesKeeps ==
  ASSUME BehaviorInv, boot.pc = "next", NEW id \in boot.todo, NEW s \in AutoSpecs, Read(id, s), Touch(id),
         UNCHANGED <<specFile, specNvs, index, running, told>>,
         boot' = [boot EXCEPT !.todo = boot.todo \ {id}, !.pc = "load", !.id = id]
  PROVE  BehaviorInv'
<1>1. /\ boot' \in Boots /\ boot'.pc = "load" /\ boot'.todo = boot.todo \ {id} /\ boot'.stirred = boot.stirred
      /\ boot'.id = id /\ boot'.started = boot.started /\ boot'.ran = boot.ran /\ id \in Ids
      /\ boot'.unread = boot.unread
  <2> PICK T \in SUBSET Ids : T = boot.todo \ {id}
    BY BootPlace
  <2> PICK b : b = [boot EXCEPT !.todo = T]
    OBVIOUS
  <2>1. /\ b \in Boots /\ b.todo = T /\ b.stirred = boot.stirred /\ b.started = boot.started
        /\ b.ran = boot.ran /\ b.unread = boot.unread
    BY BootPlace DEF Boots
  <2>2. boot' = [b EXCEPT !.pc = "load", !.id = id] /\ id \in Ids
    BY BootPlace
  <2> QED BY <2>1, <2>2 DEF Boots
<1>2. ASSUME NEW d \in Clients
      PROVE  /\ client'[d] \in Calls \cup {NoCall} /\ RightPlace(client'[d]) /\ OnlyDisturbed(client[d], client'[d])
             /\ Stores(client'[d]) /\ client'[d].alone => client[d].id # id
             /\ \A x : Starts(client'[d], x) => Starts(client[d], x)
  <2>1. client[d] \in Calls \cup {NoCall} /\ RightPlace(client[d])
    BY DEF BehaviorInv, BehaviorTypes
  <2>2. CASE ~(Stores(client[d]) /\ client[d].id = id)
    BY <2>1, <2>2 DEF OnlyDisturbed, Touch
  <2>3. CASE Stores(client[d]) /\ client[d].id = id
    <3> PICK l : l = [client[d] EXCEPT !.alone = FALSE]
      OBVIOUS
    <3>1. client'[d] = l
      BY <2>3 DEF Touch
    <3>2. client[d] \in Calls /\ client[d].pc # "idle"
      BY <2>1, <2>3 DEF RightPlace, Stores
    <3>3. /\ l \in Calls /\ ~l.alone /\ l.id = client[d].id /\ l.pc = client[d].pc /\ l.csv = client[d].csv
          /\ l.op = client[d].op /\ l.spec = client[d].spec /\ l.lapses = client[d].lapses
      BY <3>2 DEF Calls
    <3>4. RightPlace(l)
      BY <2>1, <3>2, <3>3 DEF RightPlace
    <3>5. OnlyDisturbed(client[d], l) /\ ~(\E x : Starts(l, x))
      BY <2>3, <3>3 DEF OnlyDisturbed, Stores, Starts
    <3> QED BY <3>1, <3>3, <3>4, <3>5
  <2> QED BY <2>2, <2>3
<1>3. client' \in [Clients -> Calls \cup {NoCall}]
  BY <1>2 DEF Touch
<1>4. BehaviorTypes /\ AloneInv /\ BootInv
  BY DEF BehaviorInv
<1>5. BootInv'
  <2>1. \A c \in Clients : Stores(client'[c]) => client'[c].id \in boot.stirred
    BY <1>2, <1>4 DEF BootInv, BootUp, OnlyDisturbed
  <2> QED BY <1>1, <2>1 DEF BootInv, BootUp, Stores
<1>6. ASSUME NEW x \in Ids, SettledInv(x), Settled(x) PROVE BootFollows(x)'
  <2>1. BootFollows(x) /\ boot.id # x
    BY <1>4, BehaviorAssumption DEF BehaviorInv, BootInv
  <2>2. x = id /\ MayStart(x) => ~(told[x].spec = NoSpec /\ told[x].lapses < 2)
    BY <1>1, <1>6, SettledReads, BehaviorAssumption
  <2>3. (MayStart(x)' <=> MayStart(x)) /\ (MustStart(x)' <=> MustStart(x))
    BY DEF MayStart, MustStart
  <2> QED BY <1>1, <2>1, <2>2, <2>3 DEF BootFollows, BootUp, Settled
<1>7. ASSUME NEW x \in Ids, SettledInv(x), told[x].spec = NoSpec, told[x].lapses = 0 PROVE DownAsTold(x)'
  <2>1. DownAsTold(x) /\ x # id
    BY <1>7, RemovedIsGone, BehaviorAssumption DEF Read
  <2> QED BY <1>1, <1>2, <1>7, <2>1 DEF DownAsTold, Starts
<1>8. ASSUME NEW d \in Clients, Stores(client'[d]), client'[d].alone
      PROVE  /\ \A e \in Clients : ~Starts(client'[e], client[d].id)
             /\ boot'.id # client[d].id
             /\ client[d].op = "remove" => client[d].id \notin running'
  <2>1. Stores(client[d]) /\ client[d].alone /\ client[d].id # id
    BY <1>2, <1>8 DEF OnlyDisturbed
  <2>2. \A e \in Clients : ~Starts(client[e], client[d].id)
    BY <1>4, <2>1 DEF AloneInv, Stores, Starts
  <2> QED BY <1>1, <1>2, <1>4, <2>1, <2>2 DEF AloneInv
<1> QED BY <1>1, <1>2, <1>3, <1>4, <1>5, <1>6, <1>7, <1>8, NothingStoredKeeps DEF BehaviorTypes

LEMMA AutostartNextKeeps ==
  ASSUME BehaviorInv, AutostartNext
  PROVE  BehaviorInv'
<1>1. boot.pc = "next" /\ UNCHANGED <<specFile, specNvs, index, running, told>>
  BY DEF AutostartNext
<1> PICK id \in boot.todo :
      \/ /\ boot' = [boot EXCEPT !.todo = boot.todo \ {id}, !.ran = boot.ran \cup {id}]
         /\ UNCHANGED client
      \/ \E s : /\ Read(id, s)
                /\ \/ /\ s \notin AutoSpecs
                      /\ boot' = [boot EXCEPT !.todo = boot.todo \ {id}, !.unread = boot.unread \cup Missed(id, s)]
                      /\ UNCHANGED client
                   \/ /\ s \in AutoSpecs
                      /\ boot' = [boot EXCEPT !.pc = "load", !.id = id, !.todo = boot.todo \ {id}]
                      /\ Touch(id)
  BY DEF AutostartNext
<1>2. boot \in Boots /\ boot.unread \subseteq Ids /\ id \in Ids
  BY BootPlace DEF Boots
<1>3. CASE boot' = [boot EXCEPT !.todo = boot.todo \ {id}, !.ran = boot.ran \cup {id}] /\ UNCHANGED client
  <2> PICK R, U : R = boot.ran \cup {id} /\ U = boot.unread
    OBVIOUS
  <2>1. Passed(id, R, U) /\ id \in R
    BY <1>2, <1>3 DEF Passed, Boots
  <2> QED BY <1>1, <1>2, <1>3, <2>1, AutostartPassesKeeps
<1>4. ASSUME NEW s, Read(id, s), s \notin AutoSpecs, UNCHANGED client,
             boot' = [boot EXCEPT !.todo = boot.todo \ {id}, !.unread = boot.unread \cup Missed(id, s)]
      PROVE  BehaviorInv'
  <2> PICK R, U : R = boot.ran /\ U = boot.unread \cup Missed(id, s)
    OBVIOUS
  <2>1. Passed(id, R, U)
    BY <1>2, <1>4 DEF Passed, Boots
  <2>2. U \subseteq Ids /\ boot.unread \subseteq U
    BY <1>2 DEF Missed
  <2>3. SettledInv(id) /\ Settled(id) /\ MustStart(id) => id \in U
    BY <1>2, <1>4, SettledReads
  <2> QED BY <1>1, <1>4, <2>1, <2>2, <2>3, AutostartPassesKeeps
<1>5. ASSUME NEW s \in AutoSpecs, Read(id, s), Touch(id),
             boot' = [boot EXCEPT !.pc = "load", !.id = id, !.todo = boot.todo \ {id}]
      PROVE  BehaviorInv'
  <2>1. boot' = [boot EXCEPT !.todo = boot.todo \ {id}, !.pc = "load", !.id = id]
    BY <1>2, <1>5 DEF Boots
  <2> QED BY <1>1, <1>5, <2>1, AutostartTouchesKeeps
<1> QED BY <1>3, <1>4, <1>5
-----------------------------------------------------------------------------
LEMMA StutterKeepsBehavior ==
  ASSUME BehaviorInv, UNCHANGED behaviorVars
  PROVE  BehaviorInv'
<1>1. UNCHANGED <<specFile, specNvs, index, running, client, boot, told>>
  BY DEF behaviorVars
<1>2. BehaviorTypes' /\ AloneInv' /\ DoneInv' /\ BootInv'
  BY <1>1 DEF BehaviorInv, BehaviorTypes, AloneInv, DoneInv, DoneSoFar, Registered, Removed, BootInv, BootUp, Stores, Starts
<1>3. ASSUME NEW id \in Ids PROVE SettledInv(id)' /\ BootFollows(id)'
  <2>1. BootFollows(id)'
    BY <1>1, SameBoot DEF BootUp
  <2>2. SettledInv(id)'
    BY <1>1 DEF BehaviorInv, SettledInv, Settled, Bystander, StoredAsTold, DownAsTold, Stores, Starts,
         IndexFits, FitsAll, FitsAuto, MayList, MayStart, MustList, MustStart
  <2> QED BY <2>1, <2>2
<1> QED BY <1>2, <1>3 DEF BehaviorInv

LEMMA BehaviorStep == BehaviorInv /\ [BehaviorNext]_behaviorVars => BehaviorInv'
<1> SUFFICES ASSUME BehaviorInv, [BehaviorNext]_behaviorVars PROVE BehaviorInv'
  OBVIOUS
<1>1. ASSUME NEW c \in Clients,
             RegisterOpen(c) \/ RegisterWrite(c) \/ RegisterStore(c) \/ RegisterAnswer(c)
      PROVE  BehaviorInv'
  BY <1>1, RegisterOpenKeeps, RegisterWriteKeeps, RegisterStoreKeeps, RegisterAnswerKeeps
<1>2. ASSUME NEW c \in Clients, LoadIndex(c) \/ SaveIndex(c) \/ SaveIndexFails(c)
      PROVE  BehaviorInv'
  BY <1>2, LoadIndexKeeps, SaveIndexKeeps, SaveIndexFailsKeeps
<1>3. ASSUME NEW c \in Clients, RemoveStop(c) \/ EraseSpec(c) \/ Unlink(c) \/ UnlinkFails(c)
      PROVE  BehaviorInv'
  BY <1>3, RemoveStopKeeps, EraseSpecKeeps, UnlinkKeeps, UnlinkFailsKeeps
<1>4. ASSUME NEW c \in Clients, StartLoad(c) \/ StartTask(c) PROVE BehaviorInv'
  BY <1>4, StartLoadKeeps, StartTaskKeeps
<1>5. CASE TaskEnds
  BY <1>5, TaskEndsKeeps
<1>6. CASE AutostartIndex \/ AutostartTasks \/ AutostartNext \/ AutostartLoad
  BY <1>6, AutostartIndexKeeps, AutostartTasksKeeps, AutostartNextKeeps, AutostartLoadKeeps
<1>7. CASE AutostartStart \/ AutostartDone
  BY <1>7, AutostartStartKeeps, AutostartDoneKeeps
<1>8. CASE Restart
  BY <1>8, RestartKeeps
<1>9. CASE UNCHANGED behaviorVars
  BY <1>9, StutterKeepsBehavior
<1> QED BY <1>1, <1>2, <1>3, <1>4, <1>5, <1>6, <1>7, <1>8, <1>9 DEF BehaviorNext
-----------------------------------------------------------------------------
LEMMA BehaviorAlways == BehaviorSpec => []BehaviorInv
BY InitBehavior, BehaviorStep, PTL DEF BehaviorSpec

\* What the last call on a behavior that was not overlapped said is stored, is stored
\* (espclaw_behavior_register, espclaw_behavior_remove), for any number of clients,
\* behaviors, failures and restarts; only a later call that could not read an index
\* can have dropped it from there (sync_behavior_index).
THEOREM AckedStays == BehaviorSpec => []AckedIsStored
<1>1. BehaviorInv => AckedIsStored
  <2> SUFFICES ASSUME BehaviorInv, NEW id \in Ids, Known(id)
               PROVE  /\ Loaded(id) = told[id].spec
                      /\ id \in index.all => told[id].spec \in Specs
                      /\ id \in index.auto => told[id].spec \in AutoSpecs
                      /\ "all" \notin told[id].dropped /\ told[id].spec \in Specs => id \in index.all
                      /\ "auto" \notin told[id].dropped /\ told[id].spec \in AutoSpecs => id \in index.auto
    BY DEF AckedIsStored
  <2>1. StoredAsTold(id) /\ IndexFits(id) /\ told[id].lapses = 0
    BY DEF BehaviorInv, SettledInv, Settled, Known
  <2> QED BY <2>1 DEF StoredAsTold, Loaded, IndexFits, FitsAll, FitsAuto, MayList, MayStart, MustList, MustStart
<1> QED BY <1>1, BehaviorAlways, PTL

\* A boot starts each behavior saved to be started and no other
\* (espclaw_behavior_start_autostart), whatever others it cannot load on the way,
\* unless its id was dropped from the index or what is stored of it cannot be read.
THEOREM BootStarts == BehaviorSpec => []BootStartsSaved
<1>1. BehaviorInv => BootStartsSaved
  <2> SUFFICES ASSUME BehaviorInv, boot.pc = "done", NEW id \in Ids \ boot.stirred, Known(id)
               PROVE  /\ told[id].spec \in AutoSpecs /\ "auto" \notin told[id].dropped /\ id \notin boot.unread =>
                           id \in boot.ran
                      /\ id \in boot.started => told[id].spec \in AutoSpecs
    BY DEF BootStartsSaved
  <2>1. BootInv /\ BootFollows(id) /\ Settled(id) /\ told[id].lapses = 0
    BY DEF BehaviorInv, Known, Settled
  <2>2. boot.id # id /\ boot.todo = {} /\ BootUp
    BY <2>1, BehaviorAssumption DEF BootInv, BootUp
  <2> QED BY <2>1, <2>2 DEF BootFollows, MayStart, MustStart
<1> QED BY <1>1, BehaviorAlways, PTL

\* A removed behavior is not started at boot although one step of its removal failed,
\* and does not run if none failed (espclaw_behavior_remove).
THEOREM RemovedStays == BehaviorSpec => []RemovedStaysDown
<1>1. BehaviorInv => RemovedStaysDown
  <2> SUFFICES ASSUME BehaviorInv, NEW id \in Ids, told[id].spec = NoSpec
               PROVE  /\ told[id].lapses < 2 /\ id \notin boot.stirred => id \notin boot.started
                      /\ Known(id) => id \notin running
    BY DEF RemovedStaysDown
  <2>1. SettledInv(id) /\ Settled(id) /\ BootFollows(id) /\ BootInv
    BY BehaviorAssumption DEF BehaviorInv, Settled
  <2>2. Known(id) => id \notin running
    BY <2>1 DEF Known, SettledInv, DownAsTold
  <2>3. told[id].lapses < 2 /\ id \notin boot.stirred => id \notin boot.started
    BY <2>1 DEF BootFollows, BootInv
  <2> QED BY <2>2, <2>3
<1> QED BY <1>1, BehaviorAlways, PTL
=============================================================================
