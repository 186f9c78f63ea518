------------------------------ MODULE PageMap ------------------------------
(***************************************************************************)
(* What storage/page_store.h promises the layers above: allocate_page      *)
(* hands out a page nobody holds and changes no page; write_page changes   *)
(* its own page only, to the data given; a write the system could not      *)
(* finish damages that page only; a restart takes every page back and      *)
(* changes none.                                                           *)
(***************************************************************************)
CONSTANTS Page, Data, Zero, Torn

VARIABLES owned, issued, stored

pmVars == <<owned, issued, stored>>

Init == owned = {} /\ issued = {} /\ stored = [p \in Page |-> Zero]

Take(p) ==
    /\ p \notin owned
    /\ owned' = owned \cup {p} /\ issued' = issued \cup {p}
    /\ UNCHANGED stored

Give(p) == p \in owned /\ owned' = owned \ {p} /\ UNCHANGED <<issued, stored>>

Put(p, d) ==
    /\ p \in issued
    /\ stored' = [stored EXCEPT ![p] = d]
    /\ UNCHANGED <<owned, issued>>

Restart == owned' = {} /\ issued' = {} /\ UNCHANGED stored

Next ==
    \/ \E p \in Page : Take(p) \/ Give(p)
    \/ \E p \in Page, d \in Data \cup {Torn} : Put(p, d)
    \/ Restart

Spec == Init /\ [][Next]_pmVars
=============================================================================
