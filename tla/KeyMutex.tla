------------------------------ MODULE KeyMutex ------------------------------
(***************************************************************************)
(* What MVCCManager needs of a lock manager: a key has one holder at a     *)
(* time, and a transaction holds one key at a time.                        *)
(***************************************************************************)
CONSTANTS Tx, Resource, NoTx

VARIABLE holder    \* the transaction that holds each resource, or NoTx

Init == holder = [r \in Resource |-> NoTx]

Acquire(t, r) ==
    /\ \A s \in Resource : holder[s] # t
    /\ holder[r] = NoTx
    /\ holder' = [holder EXCEPT ![r] = t]

Release(t, r) ==
    /\ holder[r] = t
    /\ holder' = [holder EXCEPT ![r] = NoTx]

Next == \E t \in Tx, r \in Resource : Acquire(t, r) \/ Release(t, r)

Spec == Init /\ [][Next]_holder
=============================================================================
