--------------------------- MODULE ComponentStore ---------------------------
(***************************************************************************)
(* Shared Lua components (component_runtime.c).  A component consists of   *)
(* its manifest and its source, in a directory of its own, and a copy of   *)
(* the source under lib/ that apps load.  An install truncates and writes  *)
(* one after the other.  An install from a manifest URL first installs the *)
(* manifests it depends on, then downloads the source to a staging file,   *)
(* installs that, and writes the manifest again.  The admin server and the *)
(* agent's tools call in without a lock; a step is one call that changes a *)
(* file, and power may fail between any two.                               *)
(*                                                                         *)
(* Abstractions.  A text is known by its version.  A manifest is known by  *)
(* where it came from: an install call or the registry.  Each component    *)
(* has a module name and a manifest URL of its own.  Requests that fail    *)
(* before they change a file are left out.                                 *)
(***************************************************************************)
EXTENDS Naturals, Sequences, SequencesExt, FiniteSets

CONSTANTS
  Installers,    \* the threads that call the runtime
  Components,
  Texts,         \* the versions of a source
  EditedInPlace, \* the components that clients edit in place and install again
  Requires,      \* component -> the components its published manifest names
  DepthMax,      \* ESPCLAW_COMPONENT_DEPENDENCY_MAX
  Missing,       \* no such file
  Cut,           \* a file that was truncated and not written
  MaxInstalls,   \* bound: calls in a behaviour
  MaxOutages,    \* bound: downloads, reads and writes that fail
  MaxPowerCuts   \* bound: power failures

ASSUME ComponentAssumption ==
  /\ EditedInPlace \subseteq Components
  /\ Requires \in [Components -> SUBSET Components]
  /\ DepthMax \in Nat
  /\ MaxInstalls \in Nat /\ MaxOutages \in Nat /\ MaxPowerCuts \in Nat

VARIABLES
  disk,       \* component -> its three files
  staged,     \* the staging files of sources in blobs/.staging
  fetched,    \* depth -> blobs/.staging/component_manifest_<depth>.json
  installer,  \* installer -> the call it is in
  promised,   \* component -> what the last call that wrote it said (history)
  spent       \* the calls, failures and power failures so far

componentVars == <<disk, staged, fetched, installer, promised, spent>>

Depths == 0 .. DepthMax
Leaves == <<"manifest", "module", "lib">>
Nothing == [manifest |-> Missing, module |-> Missing, lib |-> Missing]

\* What is installed when all is well: an origin in the manifest, and a text.
Whole(origin, t) == [manifest |-> origin, module |-> t, lib |-> t]

\* What is left of the files of c when those of lost stayed cut.
Left(files, c, lost) ==
  LET Of(leaf) == IF <<c, leaf>> \in lost THEN Cut ELSE files[leaf] IN
  [manifest |-> Of("manifest"), module |-> Of("module"), lib |-> Of("lib")]

\* The staging file of a source: component_<id>.lua. Mutant: all share one.
StagingFile_Shared(c) == <<"component">>
StagingFile(c) == <<"component", c>>

Free == [pc |-> "free"]

ComponentInit ==
  /\ disk = [c \in Components |-> Nothing]
  /\ staged = [f \in {StagingFile(c) : c \in Components} |-> Missing]
  /\ fetched = [d \in Depths |-> Missing]
  /\ installer = [i \in Installers |-> Free]
  /\ promised = [c \in Components |-> Nothing]
  /\ spent = [installs |-> 0, outages |-> 0, powerCuts |-> 0]

\* A frame of the recursion: the component it works on and the dependencies it
\* still has to install. A call that names its component has one frame.
Frame(c, todo) == [comp |-> c, todo |-> todo]
Top(i) == installer[i].stack[Len(installer[i].stack)]
Depth(i) == Len(installer[i].stack) - 1
Comp(i) == Top(i).comp
At(i, pc) == installer[i].pc = pc
Move(i, pc) == installer' = [installer EXCEPT ![i].pc = pc]
Outage == spent.outages < MaxOutages /\ spent' = [spent EXCEPT !.outages = @ + 1]

\* Two calls may disturb each other if they name one component, or if one of them
\* is an install from a manifest, which may work on any.
Overlap(a, b) == a.kind = "manifest" \/ b.kind = "manifest" \/ a.goal = b.goal

Call(i, kind, c, t, pc) ==
  LET call == [pc |-> pc, kind |-> kind, goal |-> c, text |-> t, leaf |-> 1,
               stack |-> <<Frame(c, {})>>, done |-> {}, lost |-> {}, alone |-> TRUE]
      Meets(j) == j # i /\ ~At(j, "free") /\ Overlap(installer[j], call) IN
  /\ At(i, "free")
  /\ spent.installs < MaxInstalls
  /\ spent' = [spent EXCEPT !.installs = @ + 1]
  /\ installer' = [j \in Installers |->
       IF j = i THEN [call EXCEPT !.alone = kind # "own" /\ \A k \in Installers : ~Meets(k)]
       ELSE IF Meets(j) THEN [installer[j] EXCEPT !.alone = FALSE]
       ELSE installer[j]]

\* The call fails: the components it has written are in an unknown state.
Fail(i) == installer' = [installer EXCEPT ![i] = Free] /\ UNCHANGED promised

\* The call succeeds: it may be relied on unless it was disturbed, but for the files
\* that it lost without noticing.
Succeed(i, done, lost) ==
  /\ installer' = [installer EXCEPT ![i] = Free]
  /\ promised' = IF installer[i].alone
                   THEN [c \in Components |->
                           IF \E d \in done : d.comp = c
                             THEN Left((CHOOSE d \in done : d.comp = c).files, c, lost) ELSE promised[c]]
                   ELSE promised
\* What the call or frame installs; on a failure each frame removes the manifest it
\* has fetched.
Installed(i, origin) == [comp |-> Comp(i), files |-> Whole(origin, installer[i].text)]
Unfetched(i) ==
  IF installer[i].kind = "manifest"
    THEN [d \in Depths |-> IF d <= Depth(i) THEN Missing ELSE fetched[d]] ELSE fetched
-----------------------------------------------------------------------------
(* espclaw_component_install, _from_file and _from_blob, and _from_url      *)

\* A text, or a file of the workspace that nobody else writes.
InstallText(i) ==
  \E c \in Components, t \in Texts :
    Call(i, "text", c, t, "open") /\ UNCHANGED <<disk, staged, fetched, promised>>

\* The file is the module of the component itself, edited in place, which the copy
\* empties: what such a call says is not relied on.
InstallOwn(i) ==
  \E c \in EditedInPlace :
    /\ disk[c].module \in Texts
    /\ Call(i, "own", c, disk[c].module, "open")
    /\ UNCHANGED <<disk, staged, fetched, promised>>

InstallUrl(i) ==
  \E c \in Components :
    Call(i, "url", c, Missing, "download") /\ UNCHANGED <<disk, staged, fetched, promised>>

\* The source as the registry has it now goes to the staging file.
Download(i) ==
  /\ At(i, "download")
  /\ \/ /\ \E t \in Texts :
             /\ staged' = [staged EXCEPT ![StagingFile(Comp(i))] = t]
             /\ installer' = [installer EXCEPT ![i].pc = "open", ![i].text = t]
        /\ UNCHANGED <<fetched, promised, spent>>
     \/ /\ Outage
        /\ staged' = [staged EXCEPT ![StagingFile(Comp(i))] = Missing]
        /\ fetched' = Unfetched(i)
        /\ Fail(i)
  /\ UNCHANGED disk

\* The next of the three files is opened for writing, which truncates it.
Leaf(i) == Leaves[installer[i].leaf]
OpenLeaf(i) ==
  /\ At(i, "open")
  /\ disk' = [disk EXCEPT ![Comp(i)][Leaf(i)] = Cut]
  /\ promised' = [promised EXCEPT ![Comp(i)] = Missing]
  /\ installer' = [installer EXCEPT ![i].pc = "fill", ![i].lost = @ \ {<<Comp(i), Leaf(i)>>}]
  /\ UNCHANGED <<staged, fetched, spent>>

\* What is written to it: the text of the call, or of the staging file as it is
\* now, or of the module itself.
Source(i) ==
  IF Leaf(i) = "manifest" THEN "call"
  ELSE CASE installer[i].kind = "text" -> installer[i].text
         [] installer[i].kind = "own" -> disk[Comp(i)].module
         [] OTHER -> staged[StagingFile(Comp(i))]

\* The file is left: the next one is opened. After the last the staging file is
\* removed, and a frame of a manifest goes on to write the manifest again; any other
\* call is done.
Copied(i, lost) ==
  IF installer[i].kind = "manifest"
    THEN /\ installer' = [installer EXCEPT ![i].pc = "reopen", ![i].lost = lost]
         /\ UNCHANGED promised
    ELSE Succeed(i, {Installed(i, "call")}, lost)
Unstaged(i) ==
  IF installer[i].kind \in {"url", "manifest"} THEN [staged EXCEPT ![StagingFile(Comp(i))] = Missing] ELSE staged
GoOn(i, lost) ==
  IF installer[i].leaf < 3
    THEN /\ installer' = [installer EXCEPT ![i].pc = "open", ![i].leaf = @ + 1, ![i].lost = lost]
         /\ UNCHANGED <<promised, staged>>
    ELSE Copied(i, lost) /\ staged' = Unstaged(i)

FillLeaf(i) ==
  /\ At(i, "fill")
  /\ Source(i) # Missing
  /\ disk' = [disk EXCEPT ![Comp(i)][Leaf(i)] = Source(i)]
  /\ GoOn(i, installer[i].lost)
  /\ UNCHANGED <<fetched, spent>>

\* A write that fails. Nobody looks at what fputs and fclose say, so that the call
\* may go on, and succeed, with a file that stayed cut: every manifest, the source of
\* a text, a copy whose last part fclose has to write.
FillLeafIsLost(i) ==
  /\ At(i, "fill")
  /\ Source(i) # Missing
  /\ Outage
  /\ GoOn(i, installer[i].lost \cup {<<Comp(i), Leaf(i)>>})
  /\ UNCHANGED <<disk, fetched>>

\* A copy that is seen to fail ends the call, also when another call has removed the
\* staging file.
FillLeafFails(i) ==
  /\ At(i, "fill")
  /\ Leaf(i) # "manifest"
  /\ IF Source(i) = Missing THEN UNCHANGED spent ELSE Outage
  /\ Fail(i) /\ staged' = Unstaged(i) /\ fetched' = Unfetched(i)
  /\ UNCHANGED disk
-----------------------------------------------------------------------------
(* espclaw_component_install_from_manifest_depth                           *)

InstallManifest(i) ==
  \E c \in Components :
    Call(i, "manifest", c, Missing, "fetch") /\ UNCHANGED <<disk, staged, fetched, promised>>

\* The manifest goes to a staging file that every call shares at this depth.
FetchManifest(i) ==
  /\ At(i, "fetch")
  /\ \/ /\ fetched' = [fetched EXCEPT ![Depth(i)] = Comp(i)]
        /\ Move(i, "read")
        /\ UNCHANGED <<promised, spent>>
     \/ Outage /\ Fail(i) /\ fetched' = Unfetched(i)
  /\ UNCHANGED <<disk, staged>>

\* What is read may be what another call has fetched since, or removed.
ReadManifest(i) ==
  LET c == fetched[Depth(i)] IN
  /\ At(i, "read")
  /\ IF c = Missing THEN Fail(i) /\ fetched' = Unfetched(i)
     ELSE /\ installer' = [installer EXCEPT ![i].pc = "next",
                             ![i].stack[Len(installer[i].stack)] = Frame(c, Requires[c])]
          /\ UNCHANGED <<promised, fetched>>
  /\ UNCHANGED <<disk, staged, spent>>

InstallDependency(i) ==
  LET frames == installer[i].stack IN
  /\ At(i, "next")
  /\ \E c \in Top(i).todo :
       IF Depth(i) = DepthMax THEN Fail(i) /\ fetched' = Unfetched(i)
       ELSE /\ installer' = [installer EXCEPT ![i].pc = "fetch",
                 ![i].stack = Append([frames EXCEPT ![Len(frames)].todo = @ \ {c}], Frame(c, {}))]
            /\ UNCHANGED <<promised, fetched>>
  /\ UNCHANGED <<disk, staged, spent>>

\* Mutant of InstallItself: it does not wait for the dependencies.
InstallItself_First(i) ==
  /\ At(i, "next")
  /\ installer' = [installer EXCEPT ![i].pc = "download", ![i].leaf = 1]
  /\ UNCHANGED <<disk, staged, fetched, promised, spent>>

\* When all it depends on is installed, the source of the component itself.
InstallItself(i) ==
  /\ At(i, "next")
  /\ Top(i).todo = {}
  /\ installer' = [installer EXCEPT ![i].pc = "download", ![i].leaf = 1]
  /\ UNCHANGED <<disk, staged, fetched, promised, spent>>

\* The manifest is written again with its URLs and dependencies.
ReopenManifest(i) ==
  /\ At(i, "reopen")
  /\ disk' = [disk EXCEPT ![Comp(i)].manifest = Cut]
  /\ installer' = [installer EXCEPT ![i].pc = "refill", ![i].lost = @ \ {<<Comp(i), "manifest">>}]
  /\ UNCHANGED <<staged, fetched, promised, spent>>

\* Then the frame returns to the one that depends on it, or the call is done, also
\* when the write fails.
RefillManifest(i) ==
  LET done == {d \in installer[i].done : d.comp # Comp(i)} \cup {Installed(i, "registry")} IN
  /\ At(i, "refill")
  /\ \E lost \in {installer[i].lost, installer[i].lost \cup {<<Comp(i), "manifest">>}} :
       /\ IF lost = installer[i].lost
            THEN disk' = [disk EXCEPT ![Comp(i)].manifest = "registry"] /\ UNCHANGED spent
            ELSE UNCHANGED disk /\ Outage
       /\ IF Depth(i) > 0
            THEN /\ installer' = [installer EXCEPT ![i].pc = "next", ![i].done = done,
                                    ![i].stack = Front(@), ![i].lost = lost]
                 /\ UNCHANGED promised
            ELSE Succeed(i, done, lost)
  /\ fetched' = [fetched EXCEPT ![Depth(i)] = Missing]
  /\ UNCHANGED staged
-----------------------------------------------------------------------------
(* espclaw_component_remove                                                *)

\* It needs a manifest it can read.
RemoveBegin(i) ==
  \E c \in Components :
    /\ disk[c].manifest \in {"call", "registry"}
    /\ Call(i, "remove", c, Missing, "remove")
    /\ UNCHANGED <<disk, staged, fetched, promised>>

\* The files go one by one. Nobody looks at the results: a removal one step of which
\* has failed succeeds, but what it says is not relied on.
RemoveOrder == <<"lib", "manifest", "module">>
RemoveLeaf(i) ==
  /\ At(i, "remove")
  /\ \E fails \in BOOLEAN :
       /\ IF fails THEN UNCHANGED disk /\ Outage
          ELSE /\ disk' = [disk EXCEPT ![Comp(i)][RemoveOrder[installer[i].leaf]] = Missing]
               /\ UNCHANGED spent
       /\ IF installer[i].leaf < 3
            THEN /\ installer' = [installer EXCEPT ![i].leaf = @ + 1, ![i].alone = @ /\ ~fails]
                 /\ promised' = [promised EXCEPT ![Comp(i)] = Missing]
            ELSE IF fails THEN Fail(i)
            ELSE Succeed(i, {[comp |-> Comp(i), files |-> Nothing]}, {})
  /\ UNCHANGED <<staged, fetched>>

PowerCut ==
  /\ spent.powerCuts < MaxPowerCuts
  /\ spent' = [spent EXCEPT !.powerCuts = @ + 1]
  /\ installer' = [i \in Installers |-> Free]
  /\ UNCHANGED <<disk, staged, fetched, promised>>

ComponentNext ==
  \/ \E i \in Installers :
       \/ InstallText(i) \/ InstallOwn(i) \/ InstallUrl(i) \/ Download(i)
       \/ OpenLeaf(i) \/ FillLeaf(i) \/ FillLeafIsLost(i) \/ FillLeafFails(i)
       \/ InstallManifest(i) \/ FetchManifest(i) \/ ReadManifest(i)
       \/ InstallDependency(i) \/ InstallItself(i) \/ ReopenManifest(i) \/ RefillManifest(i)
       \/ RemoveBegin(i) \/ RemoveLeaf(i)
  \/ PowerCut

ComponentSpec == ComponentInit /\ [][ComponentNext]_componentVars
-----------------------------------------------------------------------------
\* What a call that was not disturbed said it installed is on the disk: the three
\* files belong together and hold the text of that call, until another call writes
\* the component; failed downloads, installs of other components and power failures
\* in between do no harm. Cut are those files, and only those, a write of which failed
\* in that call without its noticing.
InstalledIsWhole ==
  \A c \in Components : promised[c] # Missing => disk[c] = promised[c]

\* The components that c depends on, directly or not.
Needed(c) ==
  {d \in Components :
     \A S \in SUBSET Components :
       (Requires[c] \subseteq S /\ \A x \in S : Requires[x] \subseteq S) => d \in S}

\* An undisturbed install from a manifest that succeeds leaves everything the
\* component depends on, directly or not, installed from the registry, but for files
\* a write of which failed without its noticing (the last is the manifest of the
\* component itself), and succeeds for no component that depends on itself.
DependenciesInstalled ==
  [][\A i \in Installers :
       LET goal == installer[i].goal IN
       installer[i].pc = "refill" /\ promised' # promised /\ installer'[i] = Free
         => \A d \in Needed(goal) \cup {goal} :
              /\ \E t \in Texts, lost \in {installer[i].lost, installer[i].lost \cup {<<goal, "manifest">>}} :
                   /\ lost # installer[i].lost => spent' # spent
                   /\ disk'[d] = Left(Whole("registry", t), d, lost)
              /\ d \notin Needed(d)]_componentVars
=============================================================================
