------------------------------ MODULE MCStores ------------------------------
(***************************************************************************)
(* The parts that share nothing with each other: two ring buffers in       *)
(* memory, and the uploads, the components and the apps of the workspace.  *)
(* Each behaviour drives one of them.                                      *)
(***************************************************************************)
EXTENDS PendingRing, LogBuffer, BlobStore, ComponentStore, AppStore, TLC

CONSTANTS app, driver, knot

\* app needs driver; knot needs itself.
RequiresValue == [c \in Components |-> CASE c = app -> {driver} [] c = knot -> {knot} [] OTHER -> {}]

Symmetric ==
  UNION {Permutations(S) : S \in {Installers, Texts, Clients, Apps}}

VARIABLE driven

storesVars == <<vars, logVars, blobVars, componentVars, appVars, driven>>

StoresInit ==
  /\ Init /\ LogInit /\ BlobInit /\ ComponentInit /\ AppInit
  /\ driven \in {"pending", "log", "blobs", "components", "apps"}
  /\ driven # "apps" => dir = {}
  /\ dir \subseteq Apps \/ Apps \subseteq dir \* a stray one fills the boot's list beside all apps

StoresNext ==
  /\ UNCHANGED driven
  /\ \/ /\ driven = "pending" /\ Next
        /\ UNCHANGED <<logVars, blobVars, componentVars, appVars>>
     \/ /\ driven = "log" /\ LogNext
        /\ UNCHANGED <<vars, blobVars, componentVars, appVars>>
     \/ /\ driven = "blobs" /\ BlobNext
        /\ UNCHANGED <<vars, logVars, componentVars, appVars>>
     \/ /\ driven = "components" /\ ComponentNext
        /\ UNCHANGED <<vars, logVars, blobVars, appVars>>
     \/ /\ driven = "apps" /\ AppNext
        /\ UNCHANGED <<vars, logVars, blobVars, componentVars>>

StoresSpec == StoresInit /\ [][StoresNext]_storesVars
=============================================================================
