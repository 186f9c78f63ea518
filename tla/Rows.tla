-------------------------------- MODULE Rows --------------------------------
(***************************************************************************)
(* What MATCH with an arrow, (a)-[r]->(b) or (a)-[*min..max]->(b), is to   *)
(* find, stated without a search. edge[e] are the ends of each stored      *)
(* edge; of a row's nodes, a is one of starts and b one of ends. An edge   *)
(* is stored under both its nodes, and a row says at which of them the     *)
(* search found it: for an arrow, at the one it goes out of.               *)
(***************************************************************************)
EXTENDS Naturals, Sequences, SequencesExt

EdgeRow(a, e, b, way) == [a |-> a, r |-> e, b |-> b, way |-> way]

EdgeRows(edge, starts, ends) ==
    {row \in [a : starts, r : DOMAIN edge, b : ends, way : {"out"}] :
        row.a = edge[row.r].from /\ row.b = edge[row.r].to}

\* The paths of min to max edges, each along its direction, that repeat no
\* node.
Ways(edge, nodes, starts, ends, min, max) ==
    {p \in UNION {[1 .. k -> nodes] : k \in min + 1 .. max + 1} :
        /\ p[1] \in starts /\ p[Len(p)] \in ends /\ IsInjective(p)
        /\ \A i \in 1 .. Len(p) - 1 :
               \E e \in DOMAIN edge : edge[e].from = p[i] /\ edge[e].to = p[i + 1]}

PathRow(p) == [a |-> p[1], b |-> p[Len(p)]]
=============================================================================
