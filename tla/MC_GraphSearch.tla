--------------------------- MODULE MC_GraphSearch ---------------------------
(***************************************************************************)
(* The four searches of a graph for TLC, one in each behaviour: which is   *)
(* what Init chooses, and the variables of the others have no value then.  *)
(* lock() puts no transaction behind itself, and of two nodes each is      *)
(* adjacent to the other or neither. MATCH follows one edge in graphs of   *)
(* up to two, and misses at most one node, for one reason: its identifier  *)
(* is not tried, or it does not fit a, or it does not fit b. Nodes are     *)
(* interchangeable (so are edges, but more permutations to try cost more   *)
(* than they save); transactions and the nodes of a path search are the    *)
(* same values here, for no behaviour has both.                            *)
(***************************************************************************)
EXTENDS CycleSearch, ShortestPath, BoundedPaths, Matching, FiniteSets, TLC

CONSTANTS a, b, c, d, x, y, z, e, f, g

VARIABLE running    \* the search that runs

NoCycleSearch ==
    /\ answer = "pending"
    /\ waits_for = {} /\ start = {} /\ calls = {}
    /\ visited = {} /\ recursion_stack = {}

NoQuery == adjacent = {} /\ from_node = {} /\ to_node = {}

NoShortestPath ==
    /\ phase = "none" /\ found = {} /\ queue = {} /\ queued = {}
    /\ parent = {} /\ current = {} /\ neighbors = {} /\ depth = {}

NoBoundedPaths ==
    /\ ended = FALSE
    /\ max_length = {} /\ path = {} /\ on_path = {} /\ untried = {} /\ paths = {}

NoMatching ==
    /\ ends = {} /\ scanned = {} /\ matching_a = {} /\ matching_b = {}
    /\ directed = FALSE /\ hops = {} /\ untried_ids = {} /\ starts = {}
    /\ pending = {} /\ current_path = {} /\ edge_ids = {} /\ rows = {}
    /\ returned = FALSE

WaitsForGraphs == {w \in [Tx -> SUBSET Tx] : \A t \in Tx : t \notin w[t]}

Undirected ==
    {nbrs \in [Node -> SUBSET Node] :
        \A m, n \in Node : n \in nbrs[m] => m \in nbrs[n]}

OneReason ==
    \E missed \in {{}} \cup {{n} : n \in StoredNode} :
        \E m \in {1, 2, 3} :
            /\ scanned = IF m = 1 THEN StoredNode \ missed ELSE StoredNode
            /\ matching_a = IF m = 2 THEN StoredNode \ missed ELSE StoredNode
            /\ matching_b = IF m = 3 THEN StoredNode \ missed ELSE StoredNode

Init ==
    \/ /\ running = "detect_deadlock"
       /\ waits_for \in WaitsForGraphs /\ CSInit
       /\ NoQuery /\ NoShortestPath /\ NoBoundedPaths /\ NoMatching
    \/ /\ running = "bfs_shortest_path"
       /\ adjacent \in Undirected /\ SPInit
       /\ NoCycleSearch /\ NoBoundedPaths /\ NoMatching
    \/ /\ running = "bfs_paths_with_length"
       /\ adjacent \in Undirected /\ BPInit
       /\ NoCycleSearch /\ NoShortestPath /\ NoMatching
    \/ /\ running = "match"
       /\ OneReason /\ MatchInit
       /\ OneEdge => Cardinality(DOMAIN ends) < Cardinality(StoredEdge)
       /\ NoCycleSearch /\ NoQuery /\ NoShortestPath /\ NoBoundedPaths

Next ==
    /\ UNCHANGED running
    /\ \/ running = "detect_deadlock" /\ CSNext
          /\ UNCHANGED <<spVars, bpVars, matchVars>>
       \/ running = "bfs_shortest_path" /\ SPNext
          /\ UNCHANGED <<csVars, max_length, path, on_path, untried, paths, ended,
                         matchVars>>
       \/ running = "bfs_paths_with_length" /\ BPNext
          /\ UNCHANGED <<csVars, phase, search, found, matchVars>>
       \/ running = "match" /\ MatchNext
          /\ UNCHANGED <<csVars, spVars, bpVars>>

Spec == Init /\ [][Next]_<<running, csVars, spVars, bpVars, matchVars>>

MC_Hops == {<<1, 1>>, <<0, 1>>, <<1, 2>>, <<2, 2>>}

Symmetry == Permutations(Node) \cup Permutations(StoredNode)
=============================================================================
