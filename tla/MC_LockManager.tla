--------------------------- MODULE MC_LockManager ---------------------------
(***************************************************************************)
(* LockManager on a small instance; transactions and resources are         *)
(* interchangeable for its safety properties.                              *)
(***************************************************************************)
EXTENDS LockManager, TLC

CONSTANTS t1, t2, t3, r1, r2

Symmetry == Permutations(Tx) \cup Permutations(Resource)

SafetySpec == LMInit /\ [][LMNext]_lmVars
(***************************************************************************)
(* For liveness the clients are narrowed to what hides a deadlock: t1 and  *)
(* t2 lock r1 and r2 crosswise, in any order and any number of times, and  *)
(* t3 shares either past a waiting exclusive request.                      *)
(***************************************************************************)
Wanted(t) ==
    CASE t = t1 -> [resource : {r1, r2}, mode : {"EXCLUSIVE"}]
      [] t = t2 -> {[resource |-> r1, mode |-> "SHARED"],
                    [resource |-> r2, mode |-> "EXCLUSIVE"]}
      [] t = t3 -> [resource : {r1, r2}, mode : {"SHARED"}]

AsWanted == \A t \in Tx : request'[t] \in Wanted(t) \cup {NoRequest}

LivenessSpec ==
    LMInit /\ [][LMNext /\ AsWanted]_lmVars /\ LMFairness
=============================================================================
