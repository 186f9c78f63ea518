------------------------------ MODULE Session ------------------------------
(***************************************************************************)
(* The shell of cli/repl.cpp over one GraphStore without MVCC: its own     *)
(* commands, the Cypher queries that write of query/cypher/executor.cpp    *)
(* and the property index of storage/simple_index_manager.cpp.  One thread *)
(* reads a command, runs it and reads the next.  A query goes through the  *)
(* rows of its MATCH one after the other, a DELETE through the variables   *)
(* of each, a step each; GraphStore models the same store operations when  *)
(* threads share them, and Matching how the rows are found.                *)
(*                                                                         *)
(* A node's properties are one value, or Lacking when it has no property   *)
(* of the key that the queries name.  The adjacency lists follow from the  *)
(* stored edges (GraphStore's AdjacencyMatches).  The transaction that     *)
(* execute_query begins and ends around each query reads and writes        *)
(* nothing here: without MVCC the store ignores it.                        *)
(***************************************************************************)
EXTENDS Rows

CONSTANTS
    MaxNode, MaxEdge,     \* bounds: identifiers handed out
    Value, Lacking, Absent,
    Pairs,                \* the ends that clients give edges
    Created,              \* the values that new nodes get
    DeleteLists,          \* the variables that DELETE clauses name
    CountLimit            \* the counters wrap here (2^64 in the code)

ASSUME SessionAssumption ==
    /\ MaxNode \in Nat /\ MaxEdge \in Nat
    /\ Lacking \notin Value /\ Absent \notin Value \cup {Lacking}
    /\ Pairs \subseteq Nat \X Nat
    /\ Created \subseteq Value \cup {Lacking}
    /\ DeleteLists \subseteq Seq({"a", "r", "b"})
    /\ CountLimit \in Nat \ {0}

Node == 1 .. MaxNode
Edge == 1 .. MaxEdge
AnyValue == Value \cup {Lacking}

VARIABLES
    node,        \* each node's value; Absent if the store has none
    edge,        \* the ends of each stored edge
    next_node_id, next_edge_id,
    node_count, edge_count,
    node_property_index,   \* nodes listed under each value
    clause,      \* what the query that runs does with its rows
    rows,        \* not gone through yet
    row,         \* the row that DELETE is at, and
    variables,   \* those of the variables it names that are left there
    origin,      \* history: who gave a node its present value
    matched      \* history: the rows of MATCH (a)-[r]->(b) DELETE r, a, b

store == <<node, edge, next_node_id, next_edge_id, node_count, edge_count>>
query == <<clause, rows, row, variables, matched>>
vars == <<store, node_property_index, query, origin>>

NoClause == [do |-> "none"]
Set(source) == [do |-> "set", source |-> source]
Delete(named) == [do |-> "delete", variables |-> named]
NoRow == [a |-> 0]

EdgesFirst == <<"r", "a", "b">>

Live == {n \in Node : node[n] # Absent}
Beside(n) == {e \in DOMAIN edge : edge[e].from = n \/ edge[e].to = n}

Init ==
    /\ node = [n \in Node |-> Absent]
    /\ edge = <<>>
    /\ next_node_id = 1 /\ next_edge_id = 1
    /\ node_count = 0 /\ edge_count = 0
    /\ node_property_index = [v \in Value |-> {}]
    /\ origin = [n \in Node |-> "none"]
    /\ clause = NoClause /\ rows = {} /\ row = NoRow /\ variables = <<>>
    /\ matched = {}

----------------------------------------------------------------------------
StoreNode(v, by) ==
    /\ next_node_id \in Node
    /\ node' = [node EXCEPT ![next_node_id] = v]
    /\ next_node_id' = next_node_id + 1
    /\ node_count' = (node_count + 1) % CountLimit
    /\ origin' = [origin EXCEPT ![next_node_id] = by]
    /\ UNCHANGED <<edge, next_edge_id, edge_count, query>>

(***************************************************************************)
(* create-node stores the node, then indexes its properties.               *)
(***************************************************************************)
IndexNodeProperty_Next(n, v) ==
    node_property_index' =
        IF v = Lacking THEN node_property_index
        ELSE [node_property_index EXCEPT ![v] = @ \cup {n + 1}]

IndexNodeProperty(n, v) ==
    node_property_index' =
        IF v = Lacking THEN node_property_index
        ELSE [node_property_index EXCEPT ![v] = @ \cup {n}]

CmdCreateNode(v) ==
    StoreNode(v, "create-node") /\ IndexNodeProperty(next_node_id, v)

(***************************************************************************)
(* create-edge asks nothing of the two nodes; they need not exist yet.     *)
(***************************************************************************)
CmdCreateEdge(from, to) ==
    /\ next_edge_id \in Edge
    /\ edge' = [e \in DOMAIN edge \cup {next_edge_id} |->
                   IF e = next_edge_id THEN [from |-> from, to |-> to] ELSE edge[e]]
    /\ next_edge_id' = next_edge_id + 1
    /\ edge_count' = (edge_count + 1) % CountLimit
    /\ UNCHANGED <<node, next_node_id, node_count, node_property_index, query, origin>>

(***************************************************************************)
(* Cypher CREATE stores the nodes of its pattern and counts, but does not  *)
(* store, its edges; it knows nothing of the index.                        *)
(***************************************************************************)
ExecuteCreate(v) == StoreNode(v, "cypher") /\ UNCHANGED node_property_index

\* What the index lists and the store still has, whatever its value now.
GetNodesByProperty(v) == node_property_index[v] \cap Live

(***************************************************************************)
(* The rows of MATCH (a) and of MATCH (a)-[r]->(b) or (a)-[r]-(b), where a *)
(* has one of the values in filter.  Identifiers are tried from 1 to the   *)
(* number of nodes.  Deletes of absent nodes may have taken that number    *)
(* below zero, to 2^64 - 1; the loop then does not end in a lifetime, and  *)
(* the session with it.  The model lets it return what it would collect,   *)
(* the nodes there are, which only adds behaviours.                        *)
(* With no arrow the edges into a node are listed too, and lead, as each   *)
(* edge does, to their to_node: back to the node itself.                   *)
(***************************************************************************)
FindNodesByPattern(filter) ==
    {n \in Live : n <= node_count /\ node[n] \in filter}

NodeRows(filter) == {[a |-> n] : n \in FindNodesByPattern(filter)}

MatchRows(filter, directed) ==
    LET found == FindNodesByPattern(filter)
        into  == {e \in DOMAIN edge : edge[e].to \in found}
    IN  EdgeRows(edge, found, Live) \cup
            IF directed THEN {}
                        ELSE {EdgeRow(edge[e].to, e, edge[e].to, "in") : e \in into}

Begin(c, found) ==
    /\ clause' = c /\ rows' = found
    /\ UNCHANGED <<store, node_property_index, row, variables, origin>>

Filters == {AnyValue} \cup {{v} : v \in Value}

ExecuteMatchNode(filter) ==
    /\ \/ \E v \in Value : Begin(Set(v), NodeRows(filter))
       \/ \E named \in DeleteLists : Begin(Delete(named), NodeRows(filter))
    /\ UNCHANGED matched

ExecuteMatchEdge(filter, directed) ==
    LET found == MatchRows(filter, directed)
    IN  \/ /\ \E source \in Value \cup {"b"} : Begin(Set(source), found)
           /\ UNCHANGED matched
        \/ \E named \in DeleteLists :
               /\ Begin(Delete(named), found)
               /\ matched' = IF directed /\ named = EdgesFirst THEN found ELSE {}

(***************************************************************************)
(* SET a.p = literal, or a.p = b.p, on the store as the rows before have   *)
(* left it.  A row whose expression has no value ends the query with an    *)
(* error; what was written stays.                                          *)
(***************************************************************************)
Evaluate(r) == IF clause.source = "b" THEN node[r.b] ELSE clause.source

SetRow(r) ==
    /\ clause.do = "set" /\ Evaluate(r) \in Value
    /\ rows' = rows \ {r}
    /\ IF r.a \in Live /\ node[r.a] # Evaluate(r)
       THEN /\ node' = [node EXCEPT ![r.a] = Evaluate(r)]
            /\ origin' = [origin EXCEPT ![r.a] = "cypher"]
       ELSE UNCHANGED <<node, origin>>
    /\ UNCHANGED <<edge, next_node_id, next_edge_id, node_count, edge_count,
                   node_property_index, clause, row, variables, matched>>

SetFails(r) ==
    /\ clause.do = "set" /\ Evaluate(r) \notin Value
    /\ clause' = NoClause /\ rows' = {}
    /\ UNCHANGED <<store, node_property_index, row, variables, matched, origin>>

(***************************************************************************)
(* DELETE: row after row and variable after variable; what fails (a node   *)
(* that has edges, an edge that is gone) is passed over, like a variable   *)
(* that the row does not bind.  A node that is gone is deleted, and        *)
(* counted, again.                                                         *)
(***************************************************************************)
DeleteNode(n) ==
    /\ IF Beside(n) = {}
       THEN /\ node' = [node EXCEPT ![n] = Absent]
            /\ node_count' = (node_count + CountLimit - 1) % CountLimit
       ELSE UNCHANGED <<node, node_count>>
    /\ UNCHANGED <<edge, edge_count>>

DeleteEdge(e) ==
    /\ IF e \in DOMAIN edge
       THEN /\ edge' = [d \in DOMAIN edge \ {e} |-> edge[d]]
            /\ edge_count' = (edge_count + CountLimit - 1) % CountLimit
       ELSE UNCHANGED <<edge, edge_count>>
    /\ UNCHANGED <<node, node_count>>

\* The first row only.
DeleteRow_First(r) ==
    /\ clause.do = "delete" /\ variables = <<>>
    /\ row' = r /\ variables' = clause.variables /\ rows' = {}
    /\ UNCHANGED <<store, node_property_index, clause, matched, origin>>

DeleteRow(r) ==
    /\ clause.do = "delete" /\ variables = <<>>
    /\ row' = r /\ variables' = clause.variables /\ rows' = rows \ {r}
    /\ UNCHANGED <<store, node_property_index, clause, matched, origin>>

DeleteBound ==
    /\ variables # <<>>
    /\ variables' = Tail(variables)
    /\ LET v == Head(variables)
       IN  IF v \notin DOMAIN row
           THEN UNCHANGED <<node, edge, node_count, edge_count>>
           ELSE IF v = "r" THEN DeleteEdge(row.r) ELSE DeleteNode(row[v])
    /\ UNCHANGED <<next_node_id, next_edge_id, node_property_index, clause, rows,
                   row, matched, origin>>

Return ==
    /\ rows = {} /\ variables = <<>>
    /\ clause' = NoClause /\ row' = NoRow /\ matched' = {}
    /\ UNCHANGED <<store, node_property_index, rows, variables, origin>>

Next ==
    \/ /\ clause = NoClause
       /\ \/ \E v \in Created : CmdCreateNode(v) \/ ExecuteCreate(v)
          \/ \E p \in Pairs : CmdCreateEdge(p[1], p[2])
          \/ \E f \in Filters :
                 \/ ExecuteMatchNode(f)
                 \/ \E directed \in BOOLEAN : ExecuteMatchEdge(f, directed)
    \/ /\ clause # NoClause
       /\ \/ \E r \in rows : SetRow(r) \/ SetFails(r) \/ DeleteRow(r)
          \/ DeleteBound
          \/ Return

Spec == Init /\ [][Next]_vars

----------------------------------------------------------------------------
(***************************************************************************)
(* find-nodes is right about every node whose value create-node gave it,   *)
(* whatever was created, deleted or set in between: it is found under that *)
(* value and no other.  Only what Cypher wrote may be missed or listed     *)
(* under an old value, for no Cypher clause touches the index              *)
(* (repl.cpp:198-205, cypher/executor.cpp:677-775).                        *)
(***************************************************************************)
FindNodesRight ==
    \A n \in Live, v \in Value :
        origin[n] = "create-node" =>
            (n \in GetNodesByProperty(v) <=> node[n] = v)

(***************************************************************************)
(* MATCH (a)-[r]->(b) DELETE r, a, b, edges first, leaves none of the      *)
(* matched nodes and edges behind but a node that an edge outside the      *)
(* match still holds, however the rows share nodes: what fails in one row  *)
(* succeeds in the last one that has it (cypher/executor.cpp:777-808).     *)
(***************************************************************************)
DeleteSweeps ==
    rows = {} /\ variables = <<>> =>
        \A m \in matched :
            /\ m.r \notin DOMAIN edge
            /\ \A n \in {m.a, m.b} \cap Live : Beside(n) # {}

(***************************************************************************)
(* "Get all nodes by checking based on node count"                         *)
(* (cypher/executor.cpp:365): MATCH (n) finds every stored node.           *)
(***************************************************************************)
MatchFindsAll ==
    clause = NoClause => NodeRows(AnyValue) = {[a |-> n] : n \in Live}
=============================================================================
