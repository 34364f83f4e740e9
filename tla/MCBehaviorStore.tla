--------------------------- MODULE MCBehaviorStore ---------------------------
(***************************************************************************)
(* BehaviorStore with clients and ids that are alike; the specs are not.   *)
(***************************************************************************)
EXTENDS BehaviorStore, TLC

Symmetric == Permutations(Clients) \cup Permutations(Ids)
=============================================================================
