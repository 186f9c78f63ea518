----------------------------- MODULE MC_Session -----------------------------
(***************************************************************************)
(* Session for TLC: edges along a path, against it and onto one node;      *)
(* DELETE clauses in good and bad orders, and one that names a node twice. *)
(***************************************************************************)
EXTENDS Session

MC_Pairs == {<<1, 2>>, <<2, 3>>, <<2, 1>>, <<2, 2>>}

MC_DeleteLists == {<<"a">>, <<"a", "a">>, <<"r">>, EdgesFirst}
=============================================================================
