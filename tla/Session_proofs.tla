--------------------------- MODULE Session_proofs ---------------------------
(***************************************************************************)
(* The property index is right about what create-node wrote, and a DELETE  *)
(* that names the edges first sweeps what its MATCH found, in sessions of  *)
(* any number of nodes, edges and values.                                  *)
(***************************************************************************)
EXTENDS Session, SequenceTheorems, TLAPS

(***************************************************************************)
(* Identifiers are new when they are handed out: the index lists none that *)
(* has not been, and no such node is stored.                               *)
(***************************************************************************)
IndexInv ==
    /\ node \in [Node -> Value \cup {Lacking, Absent}]
    /\ origin \in [Node -> {"none", "create-node", "cypher"}]
    /\ node_property_index \in [Value -> SUBSET Nat]
    /\ next_node_id \in Nat
    /\ \A v \in Value, n \in Nat : n \in node_property_index[v] => n < next_node_id
    /\ \A n \in Node : n >= next_node_id => node[n] = Absent
    /\ \A n \in Node, v \in Value :
           node[n] # Absent /\ origin[n] = "create-node" =>
               (n \in node_property_index[v] <=> node[n] = v)

LEMMA IndexInit == Init => IndexInv
<1> SUFFICES ASSUME Init PROVE IndexInv
  OBVIOUS
<1>1. /\ node = [n \in Node |-> Absent] /\ next_node_id = 1
      /\ node_property_index = [v \in Value |-> {}]
      /\ origin = [n \in Node |-> "none"]
  BY DEF Init
<1> QED
  BY <1>1 DEF IndexInv

LEMMA IndexSame ==
    ASSUME IndexInv, node' = node, node_property_index' = node_property_index,
           origin' = origin, next_node_id' = next_node_id
    PROVE  IndexInv'
  BY DEF IndexInv

LEMMA StoreNodeIndex ==
    ASSUME IndexInv, NEW v \in Created,
           CmdCreateNode(v) \/ ExecuteCreate(v)
    PROVE  IndexInv'
<1>1. PICK by \in {"create-node", "cypher"} :
          /\ StoreNode(v, by)
          /\ IF by = "create-node" THEN IndexNodeProperty(next_node_id, v)
             ELSE node_property_index' = node_property_index
  BY DEF CmdCreateNode, ExecuteCreate
<1>2. /\ next_node_id \in Node /\ node' = [node EXCEPT ![next_node_id] = v]
      /\ next_node_id' = next_node_id + 1
      /\ origin' = [origin EXCEPT ![next_node_id] = by]
  BY <1>1 DEF StoreNode
<1>3. v \in Value \cup {Lacking} /\ v # Absent /\ Lacking \notin Value
  BY SessionAssumption
<1>4. next_node_id \in Nat /\ Node \subseteq Nat
  BY DEF IndexInv, Node
<1>5. /\ node_property_index' \in [Value -> SUBSET Nat]
      /\ \A w \in Value, n \in Nat :
             n \in node_property_index'[w] <=>
                 \/ n \in node_property_index[w]
                 \/ by = "create-node" /\ w = v /\ n = next_node_id
  <2>1. CASE by = "create-node" /\ v # Lacking
    <3>1. /\ v \in Value
          /\ node_property_index' =
                 [node_property_index EXCEPT ![v] = @ \cup {next_node_id}]
      BY <1>1, <1>3, <2>1 DEF IndexNodeProperty
    <3> QED
      BY <1>4, <2>1, <3>1 DEF IndexInv
  <2>2. CASE ~ (by = "create-node" /\ v # Lacking)
    <3>1. node_property_index' = node_property_index
      BY <1>1, <2>2 DEF IndexNodeProperty
    <3>2. by = "create-node" => v \notin Value
      BY <1>3, <2>2
    <3> QED
      BY <3>1, <3>2 DEF IndexInv
  <2> QED
    BY <2>1, <2>2
<1>6. /\ node' \in [Node -> Value \cup {Lacking, Absent}]
      /\ origin' \in [Node -> {"none", "create-node", "cypher"}]
      /\ next_node_id' \in Nat
  BY <1>2, <1>3, <1>4 DEF IndexInv
<1>7. ASSUME NEW w \in Value, NEW n \in Nat, n \in node_property_index'[w]
      PROVE  n < next_node_id'
  BY <1>2, <1>4, <1>5, <1>7 DEF IndexInv
<1>8. ASSUME NEW n \in Node
      PROVE  /\ n >= next_node_id' => node'[n] = Absent
             /\ n # next_node_id => node'[n] = node[n] /\ origin'[n] = origin[n]
             /\ n = next_node_id => node'[n] = v /\ origin'[n] = by
  BY <1>2, <1>4 DEF IndexInv
<1>9. ASSUME NEW n \in Node, NEW w \in Value,
             node'[n] # Absent, origin'[n] = "create-node"
      PROVE  n \in node_property_index'[w] <=> node'[n] = w
  <2>1. CASE n = next_node_id
    <3>1. n \notin node_property_index[w]
      BY <1>4, <2>1 DEF IndexInv
    <3>2. n \in Nat
      BY <1>4
    <3> QED
      BY <1>5, <1>8, <1>9, <2>1, <3>1, <3>2
  <2>2. CASE n # next_node_id
    <3>1. n \in Nat
      BY <1>4
    <3> QED
      BY <1>5, <1>8, <1>9, <2>2, <3>1 DEF IndexInv
  <2> QED
    BY <2>1, <2>2
<1> QED
  BY <1>5, <1>6, <1>7, <1>8, <1>9 DEF IndexInv

LEMMA SetRowIndex ==
    ASSUME IndexInv, NEW r, SetRow(r)
    PROVE  IndexInv'
<1>1. PICK x \in Value : x = Evaluate(r)
  BY DEF SetRow
<1>2. /\ node_property_index' = node_property_index /\ next_node_id' = next_node_id
      /\ \/ /\ r.a \in Live /\ node' = [node EXCEPT ![r.a] = x]
            /\ origin' = [origin EXCEPT ![r.a] = "cypher"]
         \/ node' = node /\ origin' = origin
  BY <1>1 DEF SetRow
<1>3. CASE node' = node /\ origin' = origin
  BY <1>2, <1>3, IndexSame
<1>4. CASE /\ r.a \in Live /\ node' = [node EXCEPT ![r.a] = x]
           /\ origin' = [origin EXCEPT ![r.a] = "cypher"]
  <2>1. PICK n \in Node : n = r.a /\ node[n] # Absent
    BY <1>4 DEF Live
  <2>2. node' = [node EXCEPT ![n] = x] /\ origin' = [origin EXCEPT ![n] = "cypher"]
    BY <1>4, <2>1
  <2> QED
    BY <1>2, <2>1, <2>2 DEF IndexInv
<1> QED
  BY <1>2, <1>3, <1>4

LEMMA DeleteBoundIndex ==
    ASSUME IndexInv, DeleteBound
    PROVE  IndexInv'
<1>1. /\ node_property_index' = node_property_index /\ next_node_id' = next_node_id
      /\ origin' = origin
      /\ \/ node' = node
         \/ \E n : node' = [node EXCEPT ![n] = Absent]
  BY DEF DeleteBound, DeleteNode, DeleteEdge
<1>2. ASSUME NEW n, node' = [node EXCEPT ![n] = Absent] PROVE IndexInv'
  <2>1. /\ node' \in [Node -> Value \cup {Lacking, Absent}]
        /\ \A m \in Node : node'[m] = node[m] \/ node'[m] = Absent
    BY <1>2 DEF IndexInv
  <2> QED
    BY <1>1, <2>1 DEF IndexInv
<1> QED
  BY <1>1, <1>2, IndexSame

LEMMA IndexStep == IndexInv /\ [Next]_vars => IndexInv'
<1> SUFFICES ASSUME IndexInv, [Next]_vars PROVE IndexInv'
  OBVIOUS
<1>1. CASE \E v \in Created : CmdCreateNode(v) \/ ExecuteCreate(v)
  BY <1>1, StoreNodeIndex
<1>2. CASE \E r \in rows : SetRow(r)
  BY <1>2, SetRowIndex
<1>3. CASE DeleteBound
  BY <1>3, DeleteBoundIndex
<1>4. CASE \E p \in Pairs : CmdCreateEdge(p[1], p[2])
  BY <1>4, IndexSame DEF CmdCreateEdge
<1>5. CASE \E f \in Filters : \/ ExecuteMatchNode(f)
                              \/ \E directed \in BOOLEAN : ExecuteMatchEdge(f, directed)
  BY <1>5, IndexSame DEF ExecuteMatchNode, ExecuteMatchEdge, Begin, store
<1>6. CASE \E r \in rows : SetFails(r) \/ DeleteRow(r)
  BY <1>6, IndexSame DEF SetFails, DeleteRow, store
<1>7. CASE Return
  BY <1>7, IndexSame DEF Return, store
<1>8. CASE UNCHANGED vars
  BY <1>8, IndexSame DEF vars, store
<1> QED
  BY <1>1, <1>2, <1>3, <1>4, <1>5, <1>6, <1>7, <1>8 DEF Next

(***************************************************************************)
(* What create-node wrote is found under its value and no other, after any *)
(* commands and queries (repl.cpp:198-205, cypher/executor.cpp:677-775).   *)
(***************************************************************************)
THEOREM FindNodesCorrect == Spec => []FindNodesRight
<1>1. Spec => []IndexInv
  BY IndexInit, IndexStep, PTL DEF Spec
<1>2. IndexInv => FindNodesRight
  BY DEF IndexInv, FindNodesRight, GetNodesByProperty, Live
<1> QED
  BY <1>1, <1>2, PTL

----------------------------------------------------------------------------
(***************************************************************************)
(* A matched edge is gone or its row is still to come; and a node of a     *)
(* matched row is gone, or has an edge, or is still to be tried: the row   *)
(* that takes its last edge away tries it afterwards.                      *)
(***************************************************************************)
Left == {<<>>, <<"b">>, <<"a", "b">>, EdgesFirst}

ToTry(n) ==
    \/ \E m \in rows : n = m.a \/ n = m.b
    \/ n = row.a /\ variables \in {<<"a", "b">>, EdgesFirst}
    \/ n = row.b /\ variables \in {<<"b">>, <<"a", "b">>, EdgesFirst}

SweepInv ==
    /\ clause.do # "delete" => variables = <<>>
    /\ matched # {} =>
           /\ clause = Delete(EdgesFirst)
           /\ rows \subseteq matched /\ variables \in Left
           /\ variables # <<>> => row \in matched
    /\ \A m \in matched :
           /\ m \in [a : Node, r : Edge, b : Node, way : {"out", "in"}]
           /\ \/ m.r \notin DOMAIN edge
              \/ m \in rows
              \/ m = row /\ variables = EdgesFirst
           /\ m.r \in DOMAIN edge => edge[m.r].from = m.a /\ edge[m.r].to = m.b
           /\ \A n \in {m.a, m.b} : n \notin Live \/ Beside(n) # {} \/ ToTry(n)

EdgeIds == DOMAIN edge \subseteq Edge

LEMMA LeftSteps ==
    /\ Head(EdgesFirst) = "r" /\ Tail(EdgesFirst) = <<"a", "b">>
    /\ Head(<<"a", "b">>) = "a" /\ Tail(<<"a", "b">>) = <<"b">>
    /\ Head(<<"b">>) = "b" /\ Tail(<<"b">>) = <<>>
    /\ EdgesFirst # <<>> /\ <<"a", "b">> # <<>> /\ <<"b">> # <<>>
    /\ EdgesFirst # <<"a", "b">> /\ EdgesFirst # <<"b">> /\ <<"a", "b">> # <<"b">>
  BY DEF EdgesFirst

LEMMA SweepInit == Init => SweepInv /\ EdgeIds
  BY DEF Init, SweepInv, EdgeIds, NoClause

LEMMA NothingMatched ==
    ASSUME matched' = {}, clause'.do # "delete" => variables' = <<>>
    PROVE  SweepInv'
  BY DEF SweepInv

LEMMA CommandSweep ==
    ASSUME SweepInv, clause = NoClause, clause' = clause,
           variables' = variables, matched' = matched
    PROVE  SweepInv'
<1>1. NoClause.do = "none" /\ NoClause # Delete(EdgesFirst)
  BY DEF NoClause, Delete
<1>2. matched = {} /\ variables = <<>>
  BY <1>1 DEF SweepInv
<1> QED
  BY <1>2, NothingMatched

LEMMA BeginSweep ==
    ASSUME SweepInv, EdgeIds, clause = NoClause, NEW f \in Filters,
           \/ ExecuteMatchNode(f)
           \/ \E directed \in BOOLEAN : ExecuteMatchEdge(f, directed)
    PROVE  SweepInv'
<1>1. /\ NoClause.do = "none" /\ NoClause # Delete(EdgesFirst)
      /\ \A named : Delete(named).do = "delete"
  BY DEF NoClause, Delete
<1>2. matched = {} /\ variables = <<>>
  BY <1>1 DEF SweepInv
<1>3. variables' = variables /\ edge' = edge
  BY DEF ExecuteMatchNode, ExecuteMatchEdge, Begin, store
<1>4. CASE matched' = {}
  BY <1>2, <1>3, <1>4, NothingMatched
<1>5. CASE matched' # {}
  <2>1. /\ clause' = Delete(EdgesFirst) /\ rows' = MatchRows(f, TRUE)
        /\ matched' = MatchRows(f, TRUE)
    BY <1>2, <1>5 DEF ExecuteMatchNode, ExecuteMatchEdge, Begin
  <2>2. ASSUME NEW m \in matched'
        PROVE  /\ m \in [a : Node, r : Edge, b : Node, way : {"out", "in"}]
               /\ m.r \in DOMAIN edge
               /\ edge[m.r].from = m.a /\ edge[m.r].to = m.b
    <3>1. m \in EdgeRows(edge, FindNodesByPattern(f), Live)
      BY <2>1, <2>2 DEF MatchRows
    <3>2. FindNodesByPattern(f) \subseteq Node /\ Live \subseteq Node
      BY DEF FindNodesByPattern, Live
    <3> HIDE DEF Node, Edge, FindNodesByPattern, Live
    <3> QED
      BY <3>1, <3>2 DEF EdgeRows, EdgeIds
  <2>3. ASSUME NEW m \in matched', NEW n \in {m.a, m.b} PROVE ToTry(n)'
    BY <2>1, <2>3 DEF ToTry
  <2> QED
    BY <1>1, <1>2, <1>3, <2>1, <2>2, <2>3 DEF SweepInv, Left
<1> QED
  BY <1>4, <1>5

LEMMA SetSweep ==
    ASSUME SweepInv, NEW r, SetRow(r) \/ SetFails(r)
    PROVE  SweepInv'
<1>1. /\ clause.do = "set" /\ variables' = variables /\ matched' = matched
  BY DEF SetRow, SetFails
<1>2. matched = {} /\ variables = <<>>
  <2>1. Delete(EdgesFirst).do = "delete"
    BY DEF Delete
  <2> QED
    BY <1>1, <2>1 DEF SweepInv
<1> QED
  BY <1>1, <1>2, NothingMatched

LEMMA DeleteRowSweep ==
    ASSUME SweepInv, NEW r \in rows, DeleteRow(r)
    PROVE  SweepInv'
<1>1. /\ clause.do = "delete" /\ variables = <<>> /\ row' = r
      /\ variables' = clause.variables /\ rows' = rows \ {r}
      /\ clause' = clause /\ matched' = matched /\ edge' = edge /\ node' = node
  BY DEF DeleteRow, store
<1>2. CASE matched = {}
  BY <1>1, <1>2, NothingMatched
<1>3. CASE matched # {}
  <2>1. clause = Delete(EdgesFirst) /\ rows \subseteq matched
    BY <1>3 DEF SweepInv
  <2>2. variables' = EdgesFirst
    BY <1>1, <2>1 DEF Delete
  <2>3. \A n : ToTry(n) => ToTry(n)'
    BY <1>1, <2>2, LeftSteps DEF ToTry
  <2>4. Live' = Live /\ \A n : Beside(n)' = Beside(n)
    BY <1>1 DEF Live, Beside
  <2> QED
    BY <1>1, <2>1, <2>2, <2>3, <2>4, LeftSteps DEF SweepInv, Left
<1> QED
  BY <1>2, <1>3

LEMMA DeleteBoundSweep ==
    ASSUME SweepInv, IndexInv, DeleteBound
    PROVE  SweepInv'
<1>1. /\ variables # <<>> /\ variables' = Tail(variables)
      /\ clause' = clause /\ rows' = rows /\ row' = row /\ matched' = matched
      /\ \A v : v = Head(variables) =>
             IF v \notin DOMAIN row
             THEN node' = node /\ edge' = edge
             ELSE IF v = "r" THEN DeleteEdge(row.r) ELSE DeleteNode(row[v])
  BY DEF DeleteBound
<1>2. CASE matched = {}
  <2>1. clause.do = "delete"
    BY <1>1 DEF SweepInv
  <2> QED
    BY <1>1, <1>2, <2>1, NothingMatched
<1>3. CASE matched # {}
  <2>1. /\ clause = Delete(EdgesFirst) /\ rows \subseteq matched
        /\ variables \in Left /\ row \in matched
    BY <1>1, <1>3 DEF SweepInv
  <2>2. /\ row \in [a : Node, r : Edge, b : Node, way : {"out", "in"}]
        /\ DOMAIN row = {"a", "r", "b", "way"}
    BY <2>1 DEF SweepInv
  <2>3. Live' \subseteq Live
    <3>1. node' = node \/ \E n : node' = [node EXCEPT ![n] = Absent]
      BY DEF DeleteBound, DeleteNode, DeleteEdge
    <3> QED
      BY <3>1 DEF Live, IndexInv
  <2>4. CASE variables = EdgesFirst
    <3>1. variables' = <<"a", "b">> /\ DeleteEdge(row.r)
      BY <1>1, <2>2, <2>4, LeftSteps
    <3>2. /\ DOMAIN edge' = DOMAIN edge \ {row.r}
          /\ \A e \in DOMAIN edge' : edge'[e] = edge[e]
      BY <3>1 DEF DeleteEdge
    <3>3. \A n : n # row.a /\ n # row.b => Beside(n)' = Beside(n)
      <4>1. row.r \in DOMAIN edge =>
                edge[row.r].from = row.a /\ edge[row.r].to = row.b
        BY <2>1 DEF SweepInv
      <4> QED
        BY <3>2, <4>1 DEF Beside
    <3>4. \A n : ToTry(n) => ToTry(n)'
      BY <1>1, <2>4, <3>1, LeftSteps DEF ToTry
    <3>5. \A n : n = row.a \/ n = row.b => ToTry(n)'
      BY <1>1, <3>1 DEF ToTry
    <3>6. ASSUME NEW m \in matched
          PROVE  /\ m.r \notin DOMAIN edge' \/ m \in rows'
                 /\ m.r \in DOMAIN edge' =>
                        edge'[m.r].from = m.a /\ edge'[m.r].to = m.b
      BY <1>1, <3>2 DEF SweepInv
    <3>7. ASSUME NEW m \in matched, NEW n \in {m.a, m.b}
          PROVE  n \notin Live' \/ Beside(n)' # {} \/ ToTry(n)'
      <4>1. n \notin Live \/ Beside(n) # {} \/ ToTry(n)
        BY DEF SweepInv
      <4>2. CASE n = row.a \/ n = row.b
        BY <3>5, <4>2
      <4>3. CASE n # row.a /\ n # row.b
        <5>1. Beside(n)' = Beside(n) /\ (ToTry(n) => ToTry(n)')
          BY <3>3, <3>4, <4>3
        <5> QED
          BY <2>3, <4>1, <5>1
      <4> QED
        BY <4>2, <4>3
    <3> QED
      BY <1>1, <2>1, <3>1, <3>6, <3>7, LeftSteps DEF SweepInv, Left
  <2>5. ASSUME NEW v \in {"a", "b"}, Head(variables) = v, variables # EdgesFirst,
               Tail(variables) \in {<<"b">>, <<>>},
               \A n : ToTry(n) => ToTry(n)' \/ n = row[v]
        PROVE  SweepInv'
    <3>1. DeleteNode(row[v])
      BY <1>1, <2>2, <2>5
    <3>2. edge' = edge
      BY <3>1 DEF DeleteNode
    <3>3. \A n : Beside(n)' = Beside(n)
      BY <3>2 DEF Beside
    <3>4. row[v] \notin Live' \/ Beside(row[v])' # {}
      <4>1. PICK k : k = row[v]
        OBVIOUS
      <4>2. DeleteNode(k) /\ Beside(k)' = Beside(k)
        BY <3>1, <3>3, <4>1
      <4>3. k \notin Live' \/ Beside(k) # {}
        BY <4>2 DEF DeleteNode, Live, IndexInv
      <4> QED
        BY <1>1, <3>2, <4>1, <4>2, <4>3 DEF Beside
    <3>5. ASSUME NEW m \in matched, NEW n \in {m.a, m.b}
          PROVE  n \notin Live' \/ Beside(n)' # {} \/ ToTry(n)'
      <4>1. n \notin Live \/ Beside(n) # {} \/ ToTry(n)
        BY DEF SweepInv
      <4>2. n = row[v] => n \notin Live' \/ Beside(n)' # {}
        BY <1>1, <3>2, <3>4 DEF Beside
      <4> QED
        BY <2>3, <2>5, <3>3, <4>1, <4>2
    <3>6. ASSUME NEW m \in matched
          PROVE  m.r \notin DOMAIN edge \/ m \in rows
      BY <2>5 DEF SweepInv
    <3> QED
      BY <1>1, <2>1, <2>5, <3>2, <3>5, <3>6 DEF SweepInv, Left
  <2>6. CASE variables = <<"a", "b">>
    <3>1. \A n : ToTry(n) => ToTry(n)' \/ n = row.a
      BY <1>1, <2>6, LeftSteps DEF ToTry
    <3> QED
      BY <2>5, <2>6, <3>1, LeftSteps
  <2>7. CASE variables = <<"b">>
    <3>1. \A n : ToTry(n) => ToTry(n)' \/ n = row.b
      BY <1>1, <2>7, LeftSteps DEF ToTry
    <3> QED
      BY <2>5, <2>7, <3>1, LeftSteps
  <2> QED
    BY <1>1, <2>1, <2>4, <2>6, <2>7 DEF Left
<1> QED
  BY <1>2, <1>3

LEMMA SweepStep ==
    SweepInv /\ EdgeIds /\ IndexInv /\ [Next]_vars => (SweepInv /\ EdgeIds)'
<1> SUFFICES ASSUME SweepInv, EdgeIds, IndexInv, [Next]_vars PROVE (SweepInv /\ EdgeIds)'
  OBVIOUS
<1>1. EdgeIds'
  <2>1. DOMAIN edge' \subseteq DOMAIN edge \cup Edge
    BY DEF Next, CmdCreateNode, ExecuteCreate, StoreNode, CmdCreateEdge,
           ExecuteMatchNode, ExecuteMatchEdge, Begin, SetRow, SetFails, DeleteRow,
           DeleteBound, DeleteNode, DeleteEdge, Return, vars, store
  <2> QED
    BY <2>1 DEF EdgeIds
<1>2. CASE clause = NoClause /\ (\/ \E v \in Created : CmdCreateNode(v) \/ ExecuteCreate(v)
                                 \/ \E p \in Pairs : CmdCreateEdge(p[1], p[2]))
  <2>1. clause' = clause /\ variables' = variables /\ matched' = matched
    BY <1>2 DEF CmdCreateNode, ExecuteCreate, StoreNode, CmdCreateEdge, query
  <2> QED
    BY <1>1, <1>2, <2>1, CommandSweep
<1>3. CASE /\ clause = NoClause
           /\ \E f \in Filters : \/ ExecuteMatchNode(f)
                                 \/ \E directed \in BOOLEAN : ExecuteMatchEdge(f, directed)
  BY <1>1, <1>3, BeginSweep
<1>4. CASE \E r \in rows : SetRow(r) \/ SetFails(r)
  BY <1>1, <1>4, SetSweep
<1>5. CASE \E r \in rows : DeleteRow(r)
  BY <1>1, <1>5, DeleteRowSweep
<1>6. CASE DeleteBound
  BY <1>1, <1>6, DeleteBoundSweep
<1>7. CASE Return
  <2>1. matched' = {} /\ variables' = <<>>
    BY <1>7 DEF Return
  <2> QED
    BY <1>1, <2>1, NothingMatched
<1>8. CASE UNCHANGED vars
  BY <1>1, <1>8 DEF vars, store, query, SweepInv, ToTry, Live, Beside
<1> QED
  BY <1>2, <1>3, <1>4, <1>5, <1>6, <1>7, <1>8 DEF Next

(***************************************************************************)
(* DELETE r, a, b over the rows of MATCH (a)-[r]->(b), taken in any order, *)
(* leaves no matched edge, and no matched node without an edge that keeps  *)
(* it (cypher/executor.cpp:777-808).                                       *)
(***************************************************************************)
THEOREM DeleteSweepsCorrect == Spec => []DeleteSweeps
<1>1. Spec => [](SweepInv /\ EdgeIds)
  BY SweepInit, SweepStep, IndexInit, IndexStep, PTL DEF Spec
<1>2. SweepInv => DeleteSweeps
  <2>1. rows = {} /\ variables = <<>> => \A n : ~ ToTry(n)
    BY LeftSteps DEF ToTry
  <2> QED
    BY <2>1, LeftSteps DEF SweepInv, DeleteSweeps
<1> QED
  BY <1>1, <1>2, PTL
=============================================================================
