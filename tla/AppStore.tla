------------------------------ MODULE AppStore ------------------------------
(***************************************************************************)
(* The Lua apps of the workspace (app_runtime.c).  An app is a directory   *)
(* with a manifest, which grants permissions and names triggers, and a     *)
(* source.  The manifest is kept a second time in NVS, filled when it is   *)
(* first read, and that copy is the one in force.  The admin server, the   *)
(* agent's tools, Telegram and the tasks call in without a lock; a step is *)
(* one access to a file or to NVS, and power may fail between any two.     *)
(*                                                                         *)
(* Abstractions.  A manifest is known by the rights it grants and a source *)
(* by its version; the entry point is main.lua, which scaffolds name.      *)
(* Looking into NVS and, in vain, reading the file is one step.  An        *)
(* install from a blob or a URL is that of the file they leave (BlobStore, *)
(* ComponentStore).  Installing an app from its own source, which empties  *)
(* it, is left out, and so are requests that fail before they change       *)
(* anything.                                                               *)
(***************************************************************************)
EXTENDS Naturals, Sequences, FiniteSets

CONSTANTS
  Clients,      \* the threads that call the runtime
  Apps,
  Strays,       \* directories beside those of the apps, which hold none
  Rights,       \* what a manifest may grant
  OnBoot,       \* the rights that include the boot trigger
  Sources,      \* the versions of a source
  Stub,         \* the source a scaffold writes
  Gone,         \* no such file or key
  Ragged,       \* a file that was truncated and not written, or a copy of it
  BootMax,      \* the ids that a boot collects: 32
  MaxRequests,  \* bound: calls in a behaviour
  MaxSlips,     \* bound: accesses that fail
  MaxBlackouts  \* bound: power failures

ASSUME AppAssumption ==
  /\ OnBoot \subseteq Rights /\ Stub \notin Sources
  /\ {Gone, Ragged} \cap (Rights \cup Sources \cup {Stub}) = {} /\ Gone # Ragged
  /\ IsFiniteSet(Apps \cup Strays) /\ Apps \cap Strays = {}
  /\ {BootMax, MaxRequests, MaxSlips, MaxBlackouts} \subseteq Nat

VARIABLES
  dir,      \* the directories under apps/, named by their app
  apps,     \* app -> its manifest and its source
  copy,     \* app -> the manifest in NVS
  client,   \* client -> the call it is in
  vowed,    \* app -> what the last call that changed it said (history)
  ran,      \* app -> the source the last boot ran
  boot,     \* how far the last boot came with the apps, or "off"
  cost      \* calls, failures and power failures so far

appVars == <<dir, apps, copy, client, vowed, ran, boot, cost>>

NoCall == [todo |-> <<>>]
Unread == "unread"
Vow(what, r, s) == [is |-> what, rights |-> r, main |-> s]
NoVow == Vow("nothing", Gone, Gone)

\* Some apps were scaffolded before.
AppInit ==
  /\ boot = "complete"
  /\ \E granted \in [Apps -> Rights \cup {Gone}], strays \in SUBSET Strays :
       LET Given(a, x) == IF granted[a] = Gone THEN Gone ELSE x IN
       /\ dir = {a \in Apps : granted[a] # Gone} \cup strays
       /\ apps = [a \in Apps |-> [manifest |-> granted[a], main |-> Given(a, Stub)]]
       /\ copy = granted
       /\ vowed = [a \in Apps |-> IF a \in dir THEN Vow("app", granted[a], Stub) ELSE NoVow]
       /\ ran = [a \in Apps |-> IF granted[a] \in OnBoot THEN Stub ELSE Gone]
  /\ client = [c \in Clients |-> NoCall]
  /\ cost = [requests |-> 0, slips |-> 0, blackouts |-> 0]

Slip == cost.slips < MaxSlips /\ cost' = [cost EXCEPT !.slips = @ + 1]

(* A call is the list of the steps it has still to take. *)

Scaffold == <<"emptyManifest", "writeManifest", "emptyMain", "writeStub", "remember">>

Script(kind) ==
  CASE kind = "install"  -> <<"probe", "load", "emptyMain", "copyText">>
    [] kind = "save"     -> <<"probe", "load", "emptyMain", "saveText">>
    [] kind = "update"   -> <<"load", "emptyMain", "saveText">>
    [] kind = "scaffold" -> Scaffold
    [] kind = "remove"   -> <<"forget", "unlink">>
    [] kind = "use"      -> <<"load">>

Busy(c) == client[c].todo # <<>>
AtStep(c, step) == Busy(c) /\ Head(client[c].todo) = step
App(c) == client[c].app

\* Only a call that nobody met and whose writes all worked is relied on afterwards.
Request(c, kind, a, r, s) ==
  LET met == {d \in Clients : Busy(d) /\ App(d) = a} IN
  /\ boot # "off" /\ ~Busy(c)
  /\ cost.requests < MaxRequests /\ cost' = [cost EXCEPT !.requests = @ + 1]
  /\ client' = [d \in Clients |->
       IF d = c THEN [kind |-> kind, app |-> a, rights |-> r, text |-> s, todo |-> Script(kind),
                      read |-> Unread, missed |-> FALSE, made |-> FALSE, sound |-> met = {}]
       ELSE IF d \in met THEN [client[d] EXCEPT !.sound = FALSE] ELSE client[d]]
  /\ vowed' = IF kind = "use" THEN vowed ELSE [vowed EXCEPT ![a] = NoVow]
  /\ UNCHANGED <<dir, apps, copy, ran, boot>>

GiveUp(c) == client' = [client EXCEPT ![c] = NoCall] /\ UNCHANGED vowed

\* The call goes on with what is left to do; the last step is its success.
Proceed(c, call) ==
  IF call.todo # <<>>
    THEN client' = [client EXCEPT ![c] = call] /\ UNCHANGED vowed
    ELSE /\ client' = [client EXCEPT ![c] = NoCall]
         /\ vowed' = IF ~call.sound \/ call.kind = "use" THEN vowed
                     ELSE [vowed EXCEPT ![call.app] =
                       CASE call.kind = "remove"   -> Vow("removed", Gone, Gone)
                         [] call.kind = "scaffold" -> Vow("app", call.rights, Stub)
                         [] OTHER -> Vow("app", IF call.made THEN call.rights ELSE call.read, call.text)]

After(c) == [client[c] EXCEPT !.todo = Tail(@)]
Unsound(call) == [call EXCEPT !.sound = FALSE]

(* espclaw_app_load_manifest *)

Load(c) ==
  /\ AtStep(c, "probe") \/ AtStep(c, "load")
  /\ client[c].read = Unread
  /\ LET a == App(c)
         cached == copy[a] # Gone IN
     \/ /\ client' = [client EXCEPT ![c].read = IF cached THEN copy[a] ELSE apps[a].manifest,
                                    ![c].missed = ~cached /\ apps[a].manifest # Gone]
        /\ UNCHANGED cost
     \/ /\ ~cached /\ Slip
        /\ client' = [client EXCEPT ![c].read = Gone, ![c].missed = FALSE]
  /\ UNCHANGED <<dir, apps, copy, vowed, ran, boot>>

\* What was read from the file is put into NVS before anybody looks at it. A probe
\* asks whether the app exists: its manifest is legible and its source can be opened.
Judge(c) ==
  LET a == App(c)
      call == client[c]
      legible == call.read \in Rights
      exists == legible /\ apps[a].main # Gone
      next == [After(c) EXCEPT !.read = IF AtStep(c, "probe") THEN Unread ELSE @] IN
  /\ AtStep(c, "probe") \/ AtStep(c, "load")
  /\ call.read # Unread
  /\ IF call.missed
       THEN \/ copy' = [copy EXCEPT ![a] = call.read] /\ UNCHANGED cost
            \/ Slip /\ UNCHANGED copy
       ELSE UNCHANGED <<copy, cost>>
  /\ IF AtStep(c, "probe")
       THEN Proceed(c, IF exists THEN next
                         ELSE [next EXCEPT !.todo = Scaffold \o @, !.made = TRUE])
       ELSE IF legible THEN Proceed(c, next) ELSE GiveUp(c)
  /\ UNCHANGED <<dir, apps, ran, boot>>

(* Writing: fopen truncates, the write fills. *)

Truncate(c, step, leaf) ==
  /\ AtStep(c, step)
  /\ \/ /\ apps' = [apps EXCEPT ![App(c)][leaf] = Ragged]
        /\ dir' = dir \cup {App(c)}
        /\ Proceed(c, After(c)) /\ UNCHANGED cost
     \/ Slip /\ GiveUp(c) /\ UNCHANGED <<apps, dir>>
  /\ UNCHANGED <<copy, ran, boot>>

\* A stream that was opened writes to the file it had, unless that was removed.
Fill(c, leaf, value) ==
  apps' = IF apps[App(c)][leaf] = Gone THEN apps ELSE [apps EXCEPT ![App(c)][leaf] = value]

\* espclaw_workspace_write_file does not look at what fputs returns.
WriteFile(c, step, leaf, value) ==
  /\ AtStep(c, step)
  /\ \/ Fill(c, leaf, value) /\ Proceed(c, After(c)) /\ UNCHANGED cost
     \/ Slip /\ Proceed(c, Unsound(After(c))) /\ UNCHANGED apps
  /\ UNCHANGED <<dir, copy, ran, boot>>

CopyText(c) ==
  /\ AtStep(c, "copyText")
  /\ \/ Fill(c, "main", client[c].text) /\ Proceed(c, After(c)) /\ UNCHANGED cost
     \/ Slip /\ GiveUp(c) /\ UNCHANGED apps
  /\ UNCHANGED <<dir, copy, ran, boot>>

\* The scaffold replaces the manifest in force. Mutant: it leaves that to the next
\* time the manifest is read.
Remember_Later(c) ==
  /\ AtStep(c, "remember")
  /\ Proceed(c, After(c))
  /\ UNCHANGED <<copy, cost, dir, apps, ran, boot>>

Remember(c) ==
  /\ AtStep(c, "remember")
  /\ \/ /\ copy' = [copy EXCEPT ![App(c)] = client[c].rights]
        /\ Proceed(c, After(c)) /\ UNCHANGED cost
     \/ Slip /\ Proceed(c, Unsound(After(c))) /\ UNCHANGED copy
  /\ UNCHANGED <<dir, apps, ran, boot>>

(* espclaw_app_remove *)

Forget(c) ==
  /\ AtStep(c, "forget")
  /\ \/ /\ copy' = [copy EXCEPT ![App(c)] = Gone]
        /\ Proceed(c, After(c)) /\ UNCHANGED cost
     \/ Slip /\ Proceed(c, Unsound(After(c))) /\ UNCHANGED copy
  /\ UNCHANGED <<dir, apps, ran, boot>>

\* The directory can only go when it is empty; a file that somebody made after the
\* directory was read keeps it.
Unlink(c) ==
  LET a == App(c)
      left == {leaf \in DOMAIN apps[a] : apps[a][leaf] # Gone} IN
  /\ AtStep(c, "unlink")
  /\ \/ /\ \E leaf \in left : apps' = [apps EXCEPT ![a][leaf] = Gone]
        /\ UNCHANGED <<client, vowed, dir, cost>>
     \/ left = {} /\ dir' = dir \ {a} /\ Proceed(c, After(c)) /\ UNCHANGED <<apps, cost>>
     \/ left # {} /\ ~client[c].sound /\ GiveUp(c) /\ UNCHANGED <<apps, dir, cost>>
     \/ Slip /\ GiveUp(c) /\ UNCHANGED <<apps, dir>>
  /\ UNCHANGED <<copy, ran, boot>>

(* Power failure and boot *)

Blackout ==
  /\ boot # "off" /\ boot' = "off"
  /\ cost.blackouts < MaxBlackouts /\ cost' = [cost EXCEPT !.blackouts = @ + 1]
  /\ client' = [c \in Clients |-> NoCall]
  /\ ran' = [a \in Apps |-> Gone]
  /\ UNCHANGED <<dir, apps, copy, vowed>>

\* espclaw_app_run_boot_apps goes through the directories, the first BootMax that it
\* finds, legible or not; reading a manifest puts it into NVS, as ever.
ReadAtBoot(a) == IF copy[a] = Gone THEN apps[a].manifest ELSE copy[a]
Starts(a) == ReadAtBoot(a) \in OnBoot /\ apps[a].main # Gone

RunBootApps(reached) ==
  /\ copy' = [a \in Apps |-> IF a \in reached THEN ReadAtBoot(a) ELSE copy[a]]
  /\ ran' = [a \in Apps |-> IF a \in reached /\ Starts(a) THEN apps[a].main ELSE Gone]

\* What a boot that comes to its end has gone through.
Taken(reached) == reached = dir \/ Cardinality(reached) = BootMax

\* Mutant of AppBoot: it stops at the first app whose manifest is illegible.
AppBoot_Strict ==
  /\ boot = "off" /\ boot' = "complete"
  /\ \E reached \in SUBSET dir :
       /\ RunBootApps(reached)
       /\ Taken(reached) \/ \E a \in dir \ reached : a \in Strays \/ ReadAtBoot(a) \notin Rights
  /\ UNCHANGED <<dir, apps, client, vowed, cost>>

\* It stops at the app whose answer fills the log, is skipped after a crash, and
\* passes over an app that it cannot read.
AppBoot ==
  /\ boot = "off"
  /\ \E reached \in SUBSET dir :
       /\ Cardinality(reached) <= BootMax
       /\ RunBootApps(reached)
       /\ \/ Taken(reached) /\ boot' = "complete" /\ UNCHANGED cost
          \/ /\ ~Taken(reached) /\ boot' = "short"
             /\ \/ (reached = {} \/ \E a \in reached \cap Apps : Starts(a)) /\ UNCHANGED cost
                \/ Slip
  /\ UNCHANGED <<dir, apps, client, vowed>>

AppStep(c) ==
  \/ Load(c) \/ Judge(c)
  \/ Truncate(c, "emptyManifest", "manifest") \/ Truncate(c, "emptyMain", "main")
  \/ WriteFile(c, "writeManifest", "manifest", client[c].rights)
  \/ WriteFile(c, "writeStub", "main", Stub)
  \/ WriteFile(c, "saveText", "main", client[c].text)
  \/ CopyText(c) \/ Remember(c) \/ Forget(c) \/ Unlink(c)

Install(c) == \E a \in Apps, r \in Rights, s \in Sources, kind \in {"install", "save"} : Request(c, kind, a, r, s)
Update(c) == \E a \in Apps, s \in Sources : Request(c, "update", a, Gone, s)
NewApp(c) == \E a \in Apps, r \in Rights : Request(c, "scaffold", a, r, Gone)
RemoveApp(c) == \E a \in Apps : Request(c, "remove", a, Gone, Gone)
UseApp(c) == \E a \in Apps : Request(c, "use", a, Gone, Gone)

AppNext ==
  \/ Blackout \/ AppBoot
  \/ \E c \in Clients : Busy(c) /\ AppStep(c)
  \/ \E c \in Clients : Install(c) \/ Update(c) \/ NewApp(c) \/ RemoveApp(c) \/ UseApp(c)

AppSpec == AppInit /\ [][AppNext]_appVars
-----------------------------------------------------------------------------
(* Properties *)

InForce(a) == IF copy[a] # Gone THEN copy[a] ELSE apps[a].manifest

\* What a call that succeeded said of an app stays true until the next call that
\* changes it: the source is the one it gave, under the rights it gave or found.
\* Whatever power failures, failed accesses and clashes left behind before, such a
\* call mends it, the manifest in NVS included.
InstalledAppRuns ==
  \A a \in Apps : vowed[a].is = "app" => Vow("app", InForce(a), apps[a].main) = vowed[a]

\* A boot runs the installed apps that ask for it, and only those: one with
\* broken files does not keep the others from starting, and a removed one is gone. One
\* that comes to its end has run them all if there are at most BootMax directories; of
\* more it takes so many, in no order of its own, the broken ones included.
BootRunsInstalled ==
  [][boot = "off" /\ boot' # "off" =>
       /\ \A a \in Apps :
            /\ vowed[a].is = "removed" => ran'[a] = Gone
            /\ vowed[a].is = "app" /\ vowed[a].rights \notin OnBoot => ran'[a] = Gone
            /\ vowed[a].is = "app" => ran'[a] \in {vowed[a].main, Gone}
       /\ boot' = "complete" =>
            \E taken \in SUBSET dir :
              /\ Taken(taken)
              /\ \A a \in taken \cap Apps : vowed[a].is = "app" /\ vowed[a].rights \in OnBoot => ran'[a] = vowed[a].main]_appVars
=============================================================================
