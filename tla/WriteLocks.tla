----------------------------- MODULE WriteLocks -----------------------------
(***************************************************************************)
(* LockManager as its one caller in src/ uses it: write_version takes the  *)
(* key's exclusive lock when its transaction holds none, and the scope     *)
(* guard unlocks the key before write_version returns.  (unlock_all, which *)
(* ends the transaction, then finds nothing to remove and only wakes the   *)
(* sleepers, which SpuriousWakeup does as well.)                           *)
(***************************************************************************)
EXTENDS LockManager

CONSTANT NoTx    \* nobody holds the key

ASSUME NoTxAssumption == NoTx \notin Tx

HoldsNone(t) == \A r \in Resource : ~ Holds(t, r)

EnterWrite(t, r) == HoldsNone(t) /\ Call(t, r, "EXCLUSIVE")

WriteNext ==
    \E t \in Tx :
        \/ Sleep(t) \/ Deny(t) \/ Grant(t) \/ SpuriousWakeup(t)
        \/ \E r \in Resource : EnterWrite(t, r) \/ Unlock(t, r)

WriteSpec == LMInit /\ [][WriteNext]_lmVars

(***************************************************************************)
(* write_version's "Deadlock detected" (mvcc_manager.cpp:30-32) never      *)
(* happens: the edges that notified threads have not yet rebuilt never add *)
(* up to a cycle, because whoever holds a key waits for nobody.            *)
(***************************************************************************)
NeverDenied == \A t \in Tx : pc[t] # "denied"

(***************************************************************************)
(* So used, LockManager is the mutex per key that MVCCManager takes it to  *)
(* be: a write is granted when nobody holds the key, and only its holder   *)
(* gives it up (mvcc_manager.cpp:30,39-41).                                *)
(***************************************************************************)
HolderIn(requests) ==
    IF requests = {} THEN NoTx ELSE (CHOOSE q \in requests : TRUE).tx

Mutex == INSTANCE KeyMutex
             WITH holder <- [r \in Resource |-> HolderIn(lock_table[r])]

MutexSpec == Mutex!Spec
=============================================================================
