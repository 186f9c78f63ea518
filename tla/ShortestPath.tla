---------------------------- MODULE ShortestPath ----------------------------
(***************************************************************************)
(* bfs_shortest_path of query/executor.cpp: one step for each node taken   *)
(* from the queue, each neighbour looked at, and each node of the path     *)
(* that is read back from parent.                                          *)
(***************************************************************************)
EXTENDS Paths

VARIABLES
    phase,      \* searching, reading the path back, or returned
    queue,
    queued,     \* visited: the nodes ever put in the queue
    parent,     \* of the queued nodes but from_node; the others' is unused
    current,    \* the node last taken from the queue
    neighbors,  \* those of its neighbours not looked at yet
    found,      \* the path, from its end; at last what is returned
    depth       \* history: edges from from_node to each queued node

search == <<queue, queued, parent, current, neighbors, depth>>
spVars == <<query, phase, search, found>>

SPInit ==
    /\ AnyQuery
    /\ queue = <<from_node>> /\ queued = {from_node}
    /\ parent = [n \in Node |-> from_node]
    /\ current = from_node /\ neighbors = {}
    /\ depth = [n \in Node |-> 0]
    /\ IF from_node = to_node THEN phase = "returned" /\ found = <<from_node>>
                              ELSE phase = "searching" /\ found = <<>>

Pop ==
    /\ neighbors = {} /\ queue # <<>>
    /\ current' = Head(queue) /\ queue' = Tail(queue)
    /\ neighbors' = adjacent[Head(queue)]
    /\ UNCHANGED <<phase, queued, parent, found, depth>>

\* Gives a parent to whatever is looked at.
PassBy_Adopt(n) ==
    /\ n \in queued
    /\ parent' = [parent EXCEPT ![n] = current]
    /\ neighbors' = neighbors \ {n}
    /\ UNCHANGED <<phase, queue, queued, current, found, depth>>

PassBy(n) ==
    /\ n \in queued
    /\ neighbors' = neighbors \ {n}
    /\ UNCHANGED <<phase, queue, queued, parent, current, found, depth>>

Discover(n) ==
    /\ n \notin queued
    /\ queued' = queued \cup {n}
    /\ parent' = [parent EXCEPT ![n] = current]
    /\ depth' = [depth EXCEPT ![n] = depth[current] + 1]
    /\ queue' = Append(queue, n)
    /\ neighbors' = neighbors \ {n}
    /\ IF n = to_node THEN phase' = "reading" /\ found' = <<n>>
                      ELSE UNCHANGED <<phase, found>>
    /\ UNCHANGED current

ReadBack ==
    /\ IF Head(found) = from_node
       THEN phase' = "returned" /\ UNCHANGED found
       ELSE found' = <<parent[Head(found)]>> \o found /\ UNCHANGED phase
    /\ UNCHANGED search

NoPath ==
    /\ neighbors = {} /\ queue = <<>>
    /\ phase' = "returned"
    /\ UNCHANGED <<search, found>>

SPNext ==
    /\ \/ phase = "searching" /\ \/ Pop \/ NoPath
                                 \/ \E n \in neighbors : PassBy(n) \/ Discover(n)
       \/ phase = "reading" /\ ReadBack
    /\ UNCHANGED query

SPSpec == SPInit /\ [][SPNext]_spVars

----------------------------------------------------------------------------
(***************************************************************************)
(* What is returned is a way from from_node to to_node over the fewest     *)
(* nodes there is, and empty only if there is none, though each node is    *)
(* given a parent once, by whoever finds it first (executor.cpp:402-446).  *)
(***************************************************************************)
ShortestPathExact ==
    phase = "returned" =>
        IF found = <<>> THEN to_node \notin ReachableFrom(from_node, adjacent)
        ELSE /\ found \in Walks(Len(found))
             /\ \A k \in 1 .. Len(found) - 1 : Walks(k) = {}
=============================================================================
