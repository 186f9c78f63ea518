--------------------------- MODULE MC_GraphStore ---------------------------
(***************************************************************************)
(* GraphStore for TLC.  The threads are interchangeable.  The view leaves  *)
(* out what never decides a step: the buffer's bytes once the spans onto   *)
(* them are recorded in seen, and the books the page store keeps beside    *)
(* next_page_id.                                                           *)
(***************************************************************************)
EXTENDS GraphStore, TLC

Symmetry == Permutations(Thread)

View == <<next_page_id, file, nodeVars, edgeVars, adjVars, pc, threadVars,
          historyVars>>

\* The file of an earlier process: any page may hold a node of its own.
MC_Leftover == {Image("node", 2, 0, 0, 1)}
=============================================================================
