------------------------------ MODULE Matching ------------------------------
(***************************************************************************)
(* MATCH (a)-[r]->(b) and MATCH (a)-[*min..max]->(b) as                    *)
(* query/cypher/executor.cpp evaluates them: the identifiers up to the     *)
(* number of nodes are tried for a, and from each node found one edge is   *)
(* followed, or paths from a queue, breadth first.  Without an arrow the   *)
(* edges into a node are followed as well, to where they lead.  One step   *)
(* for each identifier, each path taken from the queue and each edge       *)
(* looked at, in any order where the code takes them by identifier.        *)
(***************************************************************************)
EXTENDS Rows

CONSTANTS
    StoredNode, StoredEdge,
    Hops       \* the pairs of min_hops and max_hops asked for

ASSUME HopsAssumption == Hops \subseteq Nat \X Nat

VARIABLES
    ends,          \* of the stored edges that fit the edge pattern
    scanned,       \* the identifiers up to node_count
    matching_a, matching_b,  \* what matches_node_pattern accepts for each
    directed, hops,
    untried_ids, starts,     \* for a: not tried yet, and found
    pending,       \* the queue of paths
    current_path,
    edge_ids,      \* not looked at yet, of those beside current_path's end
    rows,
    returned

pattern == <<ends, scanned, matching_a, matching_b, directed, hops>>
matchVars == <<pattern, untried_ids, starts, pending, current_path, edge_ids,
               rows, returned>>

AnyPattern ==
    /\ \E S \in SUBSET StoredEdge : ends \in [S -> [from : StoredNode, to : StoredNode]]
    /\ scanned \in SUBSET StoredNode
    /\ matching_a \in SUBSET StoredNode /\ matching_b \in SUBSET StoredNode
    /\ directed \in BOOLEAN /\ hops \in Hops

OneEdge == hops = <<1, 1>>

FindEdgesByPattern(n) ==
    {<<e, "out">> : e \in {d \in DOMAIN ends : ends[d].from = n}} \cup
    {<<e, "in">> : e \in {d \in DOMAIN ends : ends[d].to = n /\ ~ directed}}

MatchInit ==
    /\ AnyPattern
    /\ untried_ids = scanned /\ starts = {}
    /\ pending = <<>> /\ current_path = <<>> /\ edge_ids = {}
    /\ rows = <<>> /\ returned = FALSE

TryNode(n) ==
    /\ n \in untried_ids
    /\ untried_ids' = untried_ids \ {n}
    /\ starts' = IF n \in matching_a THEN starts \cup {n} ELSE starts
    /\ UNCHANGED <<pending, current_path, edge_ids, rows, returned>>

StartAt(n) ==
    /\ untried_ids = {} /\ edge_ids = {} /\ pending = <<>>
    /\ n \in starts
    /\ starts' = starts \ {n}
    /\ current_path' = <<n>>
    /\ IF OneEdge
       THEN edge_ids' = FindEdgesByPattern(n) /\ UNCHANGED pending
       ELSE pending' = <<<<n>>>> /\ UNCHANGED edge_ids
    /\ UNCHANGED <<untried_ids, rows, returned>>

Expand(e, way) ==
    /\ OneEdge
    /\ edge_ids' = edge_ids \ {<<e, way>>}
    /\ rows' = IF ends[e].to \in matching_b
               THEN Append(rows, EdgeRow(current_path[1], e, ends[e].to, way))
               ELSE rows
    /\ UNCHANGED <<untried_ids, starts, pending, current_path, returned>>

\* Follows no edge from a path that is one short of max_hops.
TakePath_Early ==
    LET p == Head(pending)
    IN  /\ edge_ids = {} /\ pending # <<>>
        /\ pending' = Tail(pending) /\ current_path' = p
        /\ rows' = IF Len(p) > hops[1] /\ p[Len(p)] \in matching_b
                   THEN Append(rows, PathRow(p)) ELSE rows
        /\ edge_ids' = IF Len(p) < hops[2] THEN FindEdgesByPattern(p[Len(p)]) ELSE {}
        /\ UNCHANGED <<untried_ids, starts, returned>>

\* No path in the queue is longer than max_hops.
TakePath ==
    LET p == Head(pending)
    IN  /\ edge_ids = {} /\ pending # <<>>
        /\ pending' = Tail(pending) /\ current_path' = p
        /\ rows' = IF Len(p) > hops[1] /\ p[Len(p)] \in matching_b
                   THEN Append(rows, PathRow(p)) ELSE rows
        /\ edge_ids' = IF Len(p) <= hops[2] THEN FindEdgesByPattern(p[Len(p)]) ELSE {}
        /\ UNCHANGED <<untried_ids, starts, returned>>

Extend(e, way) ==
    /\ ~ OneEdge
    /\ edge_ids' = edge_ids \ {<<e, way>>}
    /\ pending' = IF ends[e].to \in ToSet(current_path) THEN pending
                  ELSE Append(pending, Append(current_path, ends[e].to))
    /\ UNCHANGED <<untried_ids, starts, current_path, rows, returned>>

Return ==
    /\ untried_ids = {} /\ starts = {} /\ edge_ids = {} /\ pending = <<>>
    /\ returned' = TRUE
    /\ UNCHANGED <<untried_ids, starts, pending, current_path, edge_ids, rows>>

MatchNext ==
    /\ ~ returned
    /\ \/ \E n \in StoredNode : TryNode(n) \/ StartAt(n)
       \/ \E x \in edge_ids : Expand(x[1], x[2]) \/ Extend(x[1], x[2])
       \/ TakePath
       \/ Return
    /\ UNCHANGED pattern

MatchSpec == MatchInit /\ [][MatchNext]_matchVars

----------------------------------------------------------------------------
(***************************************************************************)
(* MATCH with an arrow against its meaning: one row, once, for every edge  *)
(* from a node that is tried and fits a to one that fits b; and for a      *)
(* variable length, where parallel edges and shared nodes make rows and    *)
(* prefixes recur, a row for two nodes exactly if a path of min to max     *)
(* edges that repeats no node leads from one to the other                  *)
(* (cypher/executor.cpp:212-313, 386-452). It says nothing of a pattern    *)
(* without an arrow: the code follows an edge found at its end back to     *)
(* that same end (:423, :298), and not, as :523 and :548 have it, to the   *)
(* other one.                                                              *)
(***************************************************************************)
MatchExact ==
    returned /\ directed =>
        LET found == scanned \cap matching_a
        IN  IF OneEdge
            THEN /\ IsInjective(rows)
                 /\ ToSet(rows) = EdgeRows(ends, found, matching_b)
            ELSE ToSet(rows) = {PathRow(p) : p \in
                     Ways(ends, StoredNode, found, matching_b, hops[1], hops[2])}
=============================================================================
