------------------------- MODULE TransactionOutcome -------------------------
(***************************************************************************)
(* What TransactionManager promises the rest of the system: seen through   *)
(* its two tables, a transaction is unknown, then running, then has one    *)
(* outcome for ever, and each change is one indivisible step.              *)
(***************************************************************************)
CONSTANT Tx

VARIABLE outcome

Init == outcome = [t \in Tx |-> "unknown"]

Begin(t) ==
    /\ outcome[t] = "unknown"
    /\ outcome' = [outcome EXCEPT ![t] = "running"]

Decide(t) ==
    /\ outcome[t] = "running"
    /\ \E o \in {"COMMITTED", "ABORTED"} :
           outcome' = [outcome EXCEPT ![t] = o]

Next == \E t \in Tx : Begin(t) \/ Decide(t)

Spec == Init /\ [][Next]_outcome
=============================================================================
