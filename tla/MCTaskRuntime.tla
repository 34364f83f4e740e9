---------------------------- MODULE MCTaskRuntime ---------------------------
(***************************************************************************)
(* Small instances of the task runtime for TLC.                            *)
(***************************************************************************)
EXTENDS TaskRuntime, TLC

\* Task ids, and threads of one kind, differ in nothing but their names.
Symmetric == Permutations(TaskIds) \cup Permutations(Starters)
=============================================================================
