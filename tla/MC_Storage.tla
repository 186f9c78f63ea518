----------------------------- MODULE MC_Storage -----------------------------
(***************************************************************************)
(* The page file and the log for TLC, one of them at work in each          *)
(* behaviour: neither knows of the other.  The log's threads are           *)
(* interchangeable, and so are its transactions.                           *)
(***************************************************************************)
EXTENDS FilePageStore, WALManager, TLC

VARIABLE running    \* the one at work

Init == FPInit /\ WALInit /\ running \in {"pages", "log"}

Next ==
    /\ UNCHANGED running
    /\ \/ running = "pages" /\ FPNext /\ UNCHANGED walVars
       \/ running = "log" /\ WALNext /\ UNCHANGED fpVars

Spec == Init /\ [][Next]_<<running, fpVars, walVars>>

Symmetry == Permutations(Thread) \cup Permutations(Tx)
=============================================================================
