-------------------------------- MODULE Paths --------------------------------
(***************************************************************************)
(* What the two path searches of query/executor.cpp are asked, and what a  *)
(* path is.  adjacent[n] are the nodes that get_adjacent_nodes shows       *)
(* beside n, each once; none where it fails.  The searches only read, and  *)
(* no command runs beside them.                                            *)
(***************************************************************************)
EXTENDS Naturals, Sequences, SequencesExt, Reachability

CONSTANT Node

VARIABLES adjacent, from_node, to_node

query == <<adjacent, from_node, to_node>>

AnyQuery ==
    /\ adjacent \in [Node -> SUBSET Node]
    /\ from_node \in Node /\ to_node \in Node

Linked(p) == \A i \in 1 .. Len(p) - 1 : p[i + 1] \in adjacent[p[i]]

\* The ways from from_node to to_node over k nodes.
Walks(k) ==
    {p \in [1 .. k -> Node] : p[1] = from_node /\ p[k] = to_node /\ Linked(p)}

\* Those of at most so many edges, and at least one, that repeat no node.
SimplePaths(max_length) ==
    {p \in UNION {Walks(k) : k \in 2 .. max_length + 1} : IsInjective(p)}
=============================================================================
