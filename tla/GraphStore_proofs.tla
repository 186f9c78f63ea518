-------------------------- MODULE GraphStore_proofs --------------------------
(***************************************************************************)
(* What GraphStore guarantees for any number of threads, nodes, edges and  *)
(* pages, whatever calls overlap.                                          *)
(***************************************************************************)
EXTENDS GraphStore, FiniteSetTheorems, TLAPS

USE GraphAssumption

----------------------------------------------------------------------------
(***************************************************************************)
(* The page store below: open, with no failed file operation and, as       *)
(* GraphStore frees no page, nothing to reuse.                             *)
(***************************************************************************)
StoreOK ==
    /\ is_closed = FALSE /\ free_pages = {} /\ faults = 0
    /\ next_page_id \in 1 .. MaxPage + 1
    /\ page_buffer \in PageImage \cup {Blank}
    /\ file \in [Store!Page -> PageImage \cup {Blank}]

LEMMA AllocateIsNew ==
  ASSUME StoreOK, NEW p \in Store!Page, Store!AllocatePage(p)
  PROVE  /\ StoreOK' /\ UNCHANGED <<file, page_buffer>>
         /\ p = next_page_id /\ next_page_id' = next_page_id + 1
<1>1. Store!NewPage(p)
  BY DEF StoreOK, Store!AllocatePage, Store!ReusePage
<1>2. /\ is_closed' = is_closed /\ free_pages' = free_pages /\ page_buffer' = page_buffer
      /\ file' = file /\ p = next_page_id /\ next_page_id' = next_page_id + 1
  BY <1>1 DEF Store!NewPage
<1>3. faults' = faults
  BY <1>1 DEF Store!NewPage, Store!ExtendFile, StoreOK
<1> QED
  BY <1>2, <1>3 DEF StoreOK, Store!Page

LEMMA WriteIsDone ==
  ASSUME StoreOK, NEW p \in Store!Page, NEW d \in PageImage, Store!WritePage(p, d)
  PROVE  /\ StoreOK' /\ UNCHANGED <<page_buffer, next_page_id>>
         /\ file' = [file EXCEPT ![p] = d]
<1>1. file' = [file EXCEPT ![p] = d] /\ faults' = faults
  BY DEF Store!WritePage, StoreOK
<1>2. UNCHANGED <<is_closed, free_pages, page_buffer, next_page_id>>
  BY DEF Store!WritePage, Store!storeVars
<1> QED
  BY <1>1, <1>2 DEF StoreOK

LEMMA ReadFills ==
  ASSUME StoreOK, NEW p \in Store!Page, Store!ReadPage(p)
  PROVE  /\ StoreOK' /\ UNCHANGED <<file, next_page_id>> /\ page_buffer' = file[p]
<1>1. /\ UNCHANGED <<is_closed, free_pages, next_page_id, file, faults>>
      /\ page_buffer' = file[p]
  BY DEF Store!ReadPage, Store!storeVars, Store!fileVars
<1> QED
  BY <1>1 DEF StoreOK

----------------------------------------------------------------------------
(***************************************************************************)
(* The invariant, in layers.  First the calls: which critical sections an  *)
(* operation goes through, and what its locals hold at each.               *)
(***************************************************************************)
Ops == {"none", "create_node", "get_node", "update_node", "delete_node",
        "create_edge", "get_edge", "update_edge", "delete_edge"}

CallRec == [op : Ops, key : Id, from : Node \cup {0}, to : Node \cup {0},
            value : Value \cup {0}]

StepsOf(o) ==
    CASE o = "none" -> {"idle"}
      [] o = "create_node" -> {"fetch", "allocate", "write", "index", "count"}
      [] o = "create_edge" -> {"fetch", "allocate", "write", "index", "adjacency",
                               "count"}
      [] o \in {"get_node", "get_edge"} -> {"lookup", "read", "parse"}
      [] o \in {"update_node", "update_edge"} ->
             {"lookup", "read", "parse", "allocate", "write", "index"}
      [] o = "delete_node" -> {"outgoing", "incoming", "erase", "erase_lists", "count"}
      [] o = "delete_edge" -> {"lookup", "read", "parse", "adjacency", "erase", "count"}

Steps == {"idle", "fetch", "lookup", "read", "parse", "allocate", "write", "index",
          "adjacency", "outgoing", "incoming", "erase", "erase_lists", "count"}

KindOf(o) == IF o \in EdgeOps THEN "edge" ELSE "node"

\* The call's key has been handed out, once the call has one.
KeyOK(th) ==
    IF pc[th] \in {"idle", "fetch"} THEN Key(th) = 0
    ELSE Key(th) \in 1 .. (IF OnEdge(th) THEN next_edge_id ELSE next_node_id) - 1

\* The record of a call that is storing one or unlinking an edge.
RecOK(th) ==
    /\ pc[th] \in {"allocate", "write", "index", "adjacency"} \/ (At(th, "erase") /\ OnEdge(th))
           => rec[th] \in PageImage /\ rec[th].kind = KindOf(Op(th))
    /\ Op(th) = "create_node" /\ ~ At(th, "fetch") =>
           rec[th] = Image("node", Key(th), 0, 0, 0)
    /\ Op(th) = "create_edge" /\ ~ At(th, "fetch") =>
           rec[th] = Image("edge", Key(th), call[th].from, call[th].to, 0)

CallOK(th) ==
    /\ pc[th] \in StepsOf(Op(th))
    /\ KeyOK(th) /\ RecOK(th)
    /\ Op(th) = "create_edge" => call[th].from \in Node /\ call[th].to \in Node
    /\ pc[th] \in {"write", "index", "read", "parse"} => page[th] # 0

CallsOK ==
    /\ call \in [Thread -> CallRec] /\ pc \in [Thread -> Steps]
    /\ \A th \in Thread : CallOK(th)

G1 == GSTypeOK /\ StoreOK /\ CallsOK

\* Which operations can be at a step.
LEMMA OpAt ==
  ASSUME NEW o \in Ops, NEW s, s \in StepsOf(o)
  PROVE  /\ s \in Steps
         /\ s = "idle" <=> o = "none"
         /\ s = "fetch" => o \in {"create_node", "create_edge"}
         /\ s \in {"lookup", "read", "parse"} => o \in Reads
         /\ s \in {"allocate", "write", "index"} =>
                o \in {"create_node", "create_edge", "update_node", "update_edge"}
         /\ s = "adjacency" => o \in {"create_edge", "delete_edge"}
         /\ s \in {"outgoing", "incoming", "erase_lists"} => o = "delete_node"
         /\ s = "erase" => o \in {"delete_node", "delete_edge"}
         /\ s = "count" => o \in {"create_node", "create_edge", "delete_node", "delete_edge"}
  BY DEF Ops, StepsOf, Steps, Reads, Rewrites

(***************************************************************************)
(* The types, apart by what a step changes.                                *)
(***************************************************************************)
IdTypes == next_node_id \in 1 .. MaxNode + 1 /\ next_edge_id \in 1 .. MaxEdge + 1
CountTypes == node_count \in 0 .. CountLimit - 1 /\ edge_count \in 0 .. CountLimit - 1
IndexTypes ==
    /\ node_page_index \in [Node -> Store!Page \cup {0}]
    /\ edge_page_index \in [Edge -> Store!Page \cup {0}]
AdjTypes ==
    /\ outgoing_edges \in [Node -> SUBSET Edge]
    /\ incoming_edges \in [Node -> SUBSET Edge]
LocalTypes ==
    /\ page \in [Thread -> Store!Page \cup {0}]
    /\ rec \in [Thread -> PageImage \cup {Blank}]
    /\ seen \in [Thread -> SUBSET (PageImage \cup {Blank})]
HistTypes == raced \in BOOLEAN /\ absent \in 0 .. CountLimit

LEMMA G1Parts ==
  G1 <=> StoreOK /\ CallsOK /\ IdTypes /\ CountTypes /\ IndexTypes /\ AdjTypes
         /\ LocalTypes /\ HistTypes
BY DEF G1, GSTypeOK, StoreOK, IdTypes, CountTypes, IndexTypes, AdjTypes, LocalTypes,
       HistTypes

LEMMA G1PartsNext ==
  G1' <=> StoreOK' /\ CallsOK' /\ IdTypes' /\ CountTypes' /\ IndexTypes' /\ AdjTypes'
          /\ LocalTypes' /\ HistTypes'
BY DEF G1, GSTypeOK, StoreOK, IdTypes, CountTypes, IndexTypes, AdjTypes, LocalTypes,
       HistTypes

\* A step of a thread is nobody else's: their calls go on as they were.
Others(th) ==
    \A u \in Thread \ {th} : /\ call'[u] = call[u] /\ pc'[u] = pc[u]
                             /\ page'[u] = page[u] /\ rec'[u] = rec[u]

\* Identifiers are handed out in order.
Grow == next_node_id <= next_node_id' /\ next_edge_id <= next_edge_id'

LEMMA CallsFrame ==
  ASSUME G1, NEW th \in Thread, Others(th), IdTypes', Grow,
         call' \in [Thread -> CallRec], pc' \in [Thread -> Steps], CallOK(th)'
  PROVE  CallsOK'
<1> SUFFICES ASSUME NEW u \in Thread, u # th
             PROVE  CallOK(u)'
  BY DEF CallsOK
<1>1. CallOK(u)
  BY DEF G1, CallsOK
<1>2. call'[u] = call[u] /\ pc'[u] = pc[u] /\ page'[u] = page[u] /\ rec'[u] = rec[u]
  BY DEF Others
<1>3. pc'[u] \in StepsOf(Op(u))'
  BY <1>1, <1>2 DEF CallOK, Op
<1>4. KeyOK(u)'
  BY <1>1, <1>2 DEF CallOK, KeyOK, Key, OnEdge, Op, G1, GSTypeOK, IdTypes, Grow
<1>5. RecOK(u)'
  BY <1>1, <1>2 DEF CallOK, RecOK, At, Key, OnEdge, Op
<1> QED
  BY <1>1, <1>2, <1>3, <1>4, <1>5 DEF CallOK, Op

\* Nothing but a thread's own place moves.
LEMMA KeyTyped ==
  ASSUME G1, NEW th \in Thread
  PROVE  /\ call[th] \in CallRec /\ Op(th) \in Ops
         /\ pc[th] \notin {"idle", "fetch"} =>
                Key(th) \in IF OnEdge(th) THEN Edge ELSE Node
<1>1. call[th] \in CallRec /\ KeyOK(th)
  BY DEF G1, CallsOK, CallOK
<1>2. next_node_id \in 1 .. MaxNode + 1 /\ next_edge_id \in 1 .. MaxEdge + 1
  BY DEF G1, GSTypeOK
<1> QED
  BY <1>1, <1>2 DEF KeyOK, Key, OnEdge, Node, Edge, CallRec, Op

LEMMA EdgeImageIsOne ==
  ASSUME NEW i \in Id, NEW f \in Node \cup {0}, NEW t \in Node \cup {0},
         NEW v \in Value \cup {0}
  PROVE  Image("edge", i, f, t, v) \in PageImage
BY DEF PageImage

LEMMA NodeImageIsOne ==
  ASSUME NEW i \in Id, NEW v \in Value \cup {0}
  PROVE  Image("node", i, 0, 0, v) \in PageImage
BY DEF PageImage

\* A record with other properties is a record.
LEMMA Revalued ==
  ASSUME NEW r \in PageImage, NEW v \in Value \cup {0}
  PROVE  /\ [r EXCEPT !.value = v] \in PageImage
         /\ [r EXCEPT !.value = v].kind = r.kind
         /\ [r EXCEPT !.value = v].id = r.id
         /\ [r EXCEPT !.value = v].from = r.from
         /\ [r EXCEPT !.value = v].to = r.to
<1>1. CASE \E i \in Id, w \in Value \cup {0} : r = Image("node", i, 0, 0, w)
  <2>1. PICK i \in Id, w \in Value \cup {0} : r = Image("node", i, 0, 0, w)
    BY <1>1
  <2>2. [r EXCEPT !.value = v] = Image("node", i, 0, 0, v)
    BY <2>1 DEF Image
  <2> QED
    BY <2>1, <2>2, NodeImageIsOne DEF Image
<1>2. CASE \E i \in Id, f, t \in Node \cup {0}, w \in Value \cup {0} :
               r = Image("edge", i, f, t, w)
  <2>1. PICK i \in Id, f \in Node \cup {0}, t \in Node \cup {0}, w \in Value \cup {0} :
            r = Image("edge", i, f, t, w)
    BY <1>2
  <2>2. [r EXCEPT !.value = v] = Image("edge", i, f, t, v)
    BY <2>1 DEF Image
  <2>3. Image("edge", i, f, t, v) \in PageImage
    BY <2>1, EdgeImageIsOne
  <2> QED
    BY <2>1, <2>2, <2>3 DEF Image
<1>3. \/ r \in {Image("node", i, 0, 0, w) : i \in Id, w \in Value \cup {0}}
      \/ r \in {Image("edge", i, f, t, w) : i \in Id, f, t \in Node \cup {0},
                                           w \in Value \cup {0}}
  BY DEF PageImage
<1>4. CASE r \in {Image("node", i, 0, 0, w) : i \in Id, w \in Value \cup {0}}
  BY <1>1, <1>4
<1>5. CASE r \in {Image("edge", i, f, t, w) : i \in Id, f, t \in Node \cup {0},
                                            w \in Value \cup {0}}
  <2>1. \E i \in Id, f, t \in Node \cup {0}, w \in Value \cup {0} :
            r = Image("edge", i, f, t, w)
    BY <1>5
  <2> QED
    BY <1>2, <2>1
<1> QED
  BY <1>3, <1>4, <1>5

LEMMA ParsedTyped ==
  ASSUME NEW S \in SUBSET (PageImage \cup {Blank}), NEW kind \in {"node", "edge"},
         NEW r \in Parsed(S, kind)
  PROVE  r \in PageImage /\ r.kind = kind
<1>1. \A a \in S : a.id \in Id /\ a.from \in Node \cup {0} /\ a.to \in Node \cup {0}
                  /\ a.value \in Value \cup {0}
  BY DEF PageImage, Blank, Image, Id
<1>2. CASE kind = "node"
  <2>1. PICK a \in S, b \in S : r = Image("node", a.id, 0, 0, b.value)
    BY <1>2 DEF Parsed
  <2> QED BY <1>1, <1>2, <2>1 DEF PageImage, Image
<1>3. CASE kind = "edge"
  <2>1. PICK a \in S, b \in S, c \in S : r = Image("edge", a.id, b.from, b.to, c.value)
    BY <1>3 DEF Parsed
  <2>2. a.id \in Id /\ b.from \in Node \cup {0} /\ b.to \in Node \cup {0}
        /\ c.value \in Value \cup {0}
    BY <1>1
  <2>3. r \in PageImage
    BY <2>1, <2>2, EdgeImageIsOne
  <2> QED BY <1>3, <2>1, <2>3 DEF Image
<1> QED BY <1>2, <1>3

LEMMA G1Init == GSInit => G1
<1> SUFFICES ASSUME GSInit PROVE G1
  OBVIOUS
<1> USE DEF GSInit
<1>1. StoreOK
  BY LeftoverAssumption DEF Store!FPInitOn, StoreOK, Store!Page
<1>2. IdTypes /\ CountTypes
  BY DEF IdTypes, CountTypes
<1>7. raced \in BOOLEAN
  OBVIOUS
<1>8. absent \in 0 .. CountLimit
  OBVIOUS
<1>3. IndexTypes /\ AdjTypes
  BY DEF IndexTypes, AdjTypes
<1>4. LocalTypes
  BY DEF LocalTypes
<1>5. call \in [Thread -> CallRec] /\ pc \in [Thread -> Steps]
  BY DEF NoCall, CallRec, Steps, Ops, Id
<1>6. ASSUME NEW th \in Thread PROVE CallOK(th)
  BY DEF CallOK, KeyOK, RecOK, At, Op, Key, OnEdge, NoCall, StepsOf, EdgeOps
<1> QED
  BY <1>1, <1>2, <1>3, <1>4, <1>5, <1>6, <1>7, <1>8, G1Parts
     DEF CallsOK, HistTypes

----------------------------------------------------------------------------
(***************************************************************************)
(* One lemma per critical section: it keeps the types and the calls in     *)
(* order, and is nobody else's.                                            *)
(***************************************************************************)
TypesButLocal == IdTypes /\ CountTypes /\ IndexTypes /\ AdjTypes /\ HistTypes

\* What is left to show of a step.
LEMMA StepFrame ==
  ASSUME G1, NEW th \in Thread, Others(th), StoreOK', TypesButLocal', LocalTypes', Grow,
         call' \in [Thread -> CallRec], pc' \in [Thread -> Steps], CallOK(th)'
  PROVE  G1'
BY CallsFrame, G1PartsNext DEF TypesButLocal

\* What the invariant says of a thread.
LEMMA G1Facts ==
  ASSUME G1, NEW th \in Thread
  PROVE  /\ StoreOK /\ TypesButLocal /\ LocalTypes
         /\ call \in [Thread -> CallRec] /\ pc \in [Thread -> Steps]
         /\ CallOK(th)
BY G1Parts DEF CallsOK, TypesButLocal

\* A parameterless part of the state that a step leaves alone keeps its type.
LEMMA Unmoved ==
  /\ StoreOK /\ UNCHANGED storeVars => StoreOK'
  /\ IdTypes /\ UNCHANGED <<next_node_id, next_edge_id>> => IdTypes' /\ Grow
  /\ CountTypes /\ UNCHANGED <<node_count, edge_count>> => CountTypes'
  /\ IndexTypes /\ UNCHANGED <<node_page_index, edge_page_index>> => IndexTypes'
  /\ AdjTypes /\ UNCHANGED adjVars => AdjTypes'
  /\ HistTypes /\ UNCHANGED historyVars => HistTypes'
  /\ LocalTypes /\ UNCHANGED <<page, rec, seen>> => LocalTypes'
<1>1. StoreOK /\ UNCHANGED storeVars => StoreOK'
  BY DEF StoreOK, storeVars
<1>2. IdTypes /\ UNCHANGED <<next_node_id, next_edge_id>> => IdTypes' /\ Grow
  BY DEF IdTypes, Grow
<1>3. CountTypes /\ UNCHANGED <<node_count, edge_count>> => CountTypes'
  BY DEF CountTypes
<1>4. IndexTypes /\ UNCHANGED <<node_page_index, edge_page_index>> => IndexTypes'
  BY DEF IndexTypes
<1>5. AdjTypes /\ UNCHANGED adjVars => AdjTypes'
  BY DEF AdjTypes, adjVars
<1>6. HistTypes /\ UNCHANGED historyVars => HistTypes'
  BY DEF HistTypes, historyVars
<1>7. LocalTypes /\ UNCHANGED <<page, rec, seen>> => LocalTypes'
  BY DEF LocalTypes
<1> QED
  BY <1>1, <1>2, <1>3, <1>4, <1>5, <1>6, <1>7

LEMMA BeginG1 ==
  ASSUME G1, NEW th \in Thread, NEW c \in Calls, Begin(th, c)
  PROVE  G1' /\ Others(th)
<1>1. /\ StoreOK /\ TypesButLocal /\ LocalTypes /\ CallOK(th)
      /\ call \in [Thread -> CallRec] /\ pc \in [Thread -> Steps]
  BY G1Facts
<1>2. Others(th)
  BY <1>1 DEF Others, Begin
<1>3. c \in CallRec /\ c.op # "none"
      /\ (c.op = "create_edge" => c.from \in Node /\ c.to \in Node)
      /\ c.key \in Nat
      /\ (c.key = 0 <=> c.op \in {"create_node", "create_edge"})
  BY DEF Calls, CallRec, Ops, Id, Node, Edge
<1>4. FirstStep(c) \in Steps \ {"idle"} /\ FirstStep(c) \in StepsOf(c.op)
      /\ (FirstStep(c) = "fetch" <=> c.op \in {"create_node", "create_edge"})
      /\ FirstStep(c) \in {"fetch", "lookup", "outgoing"}
  <2>1. CASE c.op \in {"create_node", "create_edge"}
    BY <2>1 DEF FirstStep, StepsOf, Steps, Reads, Rewrites
  <2>2. CASE c.op \in Reads
    BY <2>2 DEF FirstStep, StepsOf, Steps, Reads, Rewrites
  <2>3. CASE c.op = "delete_node"
    BY <2>3 DEF FirstStep, StepsOf, Steps, Reads, Rewrites
  <2> QED
    BY <1>3, <2>1, <2>2, <2>3 DEF CallRec, Ops, Reads, Rewrites
<1>9. /\ call' = [call EXCEPT ![th] = c] /\ pc' = [pc EXCEPT ![th] = FirstStep(c)]
      /\ page' = page /\ rec' = rec
      /\ UNCHANGED <<next_node_id, next_edge_id>>
      /\ c.key < IF c.op \in EdgeOps THEN next_edge_id ELSE next_node_id
  BY DEF Begin, nodeVars, edgeVars
<1>5. call' \in [Thread -> CallRec] /\ pc' \in [Thread -> Steps]
      /\ call'[th] = c /\ pc'[th] = FirstStep(c) /\ page'[th] = page[th]
      /\ rec'[th] = rec[th]
  BY <1>1, <1>3, <1>4, <1>9
<1>6. StoreOK' /\ IdTypes' /\ CountTypes' /\ IndexTypes' /\ AdjTypes' /\ LocalTypes' /\ Grow
  BY <1>1, Unmoved DEF Begin, nodeVars, edgeVars, TypesButLocal
<1>7. HistTypes'
  BY <1>1 DEF Begin, HistTypes, TypesButLocal
<1>8. CallOK(th)'
  <2>1. KeyOK(th)'
    BY <1>1, <1>3, <1>4, <1>5, <1>9 DEF KeyOK, Key, OnEdge, Op, TypesButLocal, IdTypes
  <2>2. RecOK(th)'
    BY <1>3, <1>4, <1>5 DEF RecOK, At, Op
  <2> QED
    BY <2>1, <2>2, <1>3, <1>4, <1>5 DEF CallOK, Op
<1> QED
  BY <1>2, <1>5, <1>6, <1>7, <1>8, StepFrame DEF TypesButLocal

LEMMA FetchNodeIdG1 ==
  ASSUME G1, NEW th \in Thread, FetchNodeId(th)
  PROVE  G1' /\ Others(th)
<1>1. /\ StoreOK /\ TypesButLocal /\ LocalTypes /\ CallOK(th)
      /\ call \in [Thread -> CallRec] /\ pc \in [Thread -> Steps]
  BY G1Facts
<1>2. Others(th)
  BY <1>1 DEF Others, FetchNodeId, Goto
<1>3. /\ Op(th) = "create_node" /\ next_node_id \in Node /\ next_node_id' = next_node_id + 1
  BY <1>1, OpAt, KeyTyped DEF FetchNodeId, At, CallOK, OnEdge, EdgeOps
<1>4. call' \in [Thread -> CallRec] /\ pc' \in [Thread -> Steps]
      /\ call'[th] = [call[th] EXCEPT !.key = next_node_id] /\ pc'[th] = "allocate"
      /\ rec'[th] = Image("node", next_node_id, 0, 0, 0)
  BY <1>1, <1>3 DEF FetchNodeId, Goto, CallRec, Steps, Id, LocalTypes
<1>5. rec'[th] \in PageImage
  BY <1>3, <1>4, NodeImageIsOne DEF Id
<1>6. LocalTypes'
  BY <1>1, <1>4, <1>5 DEF LocalTypes, FetchNodeId
<1>7. IdTypes' /\ Grow
  BY <1>1, <1>3 DEF IdTypes, Grow, FetchNodeId, edgeVars, TypesButLocal, Node
<1>8. StoreOK' /\ CountTypes' /\ IndexTypes' /\ AdjTypes' /\ HistTypes'
  BY <1>1, Unmoved DEF FetchNodeId, edgeVars, TypesButLocal
<1>9. CallOK(th)'
  <2>1. call'[th].op = "create_node" /\ call'[th].key = next_node_id
    BY <1>1, <1>3, <1>4 DEF CallRec, Op
  <2>2. KeyOK(th)'
    BY <2>1, <1>3, <1>4 DEF KeyOK, Key, OnEdge, Op, Node, EdgeOps
  <2>3. RecOK(th)'
    BY <2>1, <1>4, <1>5 DEF RecOK, At, Op, Key, Image, KindOf, EdgeOps
  <2> QED
    BY <2>1, <2>2, <2>3, <1>4 DEF CallOK, Op, StepsOf
<1> QED
  BY <1>2, <1>4, <1>6, <1>7, <1>8, <1>9, StepFrame DEF TypesButLocal

LEMMA FetchEdgeIdG1 ==
  ASSUME G1, NEW th \in Thread, FetchEdgeId(th)
  PROVE  G1' /\ Others(th)
<1>1. /\ StoreOK /\ TypesButLocal /\ LocalTypes /\ CallOK(th)
      /\ call \in [Thread -> CallRec] /\ pc \in [Thread -> Steps]
  BY G1Facts
<1>2. Others(th)
  BY <1>1 DEF Others, FetchEdgeId, Goto
<1>3. /\ Op(th) = "create_edge" /\ next_edge_id \in Edge /\ next_edge_id' = next_edge_id + 1
      /\ call[th].from \in Node /\ call[th].to \in Node
  BY <1>1, OpAt, KeyTyped DEF FetchEdgeId, At, CallOK, OnEdge, EdgeOps
<1>4. call' \in [Thread -> CallRec] /\ pc' \in [Thread -> Steps]
      /\ call'[th] = [call[th] EXCEPT !.key = next_edge_id] /\ pc'[th] = "allocate"
      /\ rec'[th] = Image("edge", next_edge_id, call[th].from, call[th].to, 0)
  BY <1>1, <1>3 DEF FetchEdgeId, Goto, CallRec, Steps, Id, LocalTypes
<1>5. rec'[th] \in PageImage
  BY <1>3, <1>4, EdgeImageIsOne DEF Id
<1>6. LocalTypes'
  BY <1>1, <1>4, <1>5 DEF LocalTypes, FetchEdgeId
<1>7. IdTypes' /\ Grow
  BY <1>1, <1>3 DEF IdTypes, Grow, FetchEdgeId, nodeVars, TypesButLocal, Edge
<1>8. StoreOK' /\ CountTypes' /\ IndexTypes' /\ AdjTypes' /\ HistTypes'
  BY <1>1, Unmoved DEF FetchEdgeId, nodeVars, TypesButLocal
<1>9. CallOK(th)'
  <2>1. /\ call'[th].op = "create_edge" /\ call'[th].key = next_edge_id
        /\ call'[th].from = call[th].from /\ call'[th].to = call[th].to
    BY <1>1, <1>3, <1>4 DEF CallRec, Op
  <2>2. KeyOK(th)'
    BY <2>1, <1>3, <1>4 DEF KeyOK, Key, OnEdge, Op, Edge, EdgeOps
  <2>3. RecOK(th)'
    BY <2>1, <1>4, <1>5 DEF RecOK, At, Op, Key, Image, KindOf, EdgeOps
  <2> QED
    BY <2>1, <2>2, <2>3, <1>3, <1>4 DEF CallOK, Op, StepsOf
<1> QED
  BY <1>2, <1>4, <1>6, <1>7, <1>8, <1>9, StepFrame DEF TypesButLocal

\* A call that returns leaves nothing behind.
LEMMA Returns ==
  ASSUME G1, NEW th \in Thread, Return(th)
  PROVE  /\ Others(th) /\ LocalTypes' /\ CallOK(th)'
         /\ call' \in [Thread -> CallRec] /\ pc' \in [Thread -> Steps]
         /\ pc'[th] = "idle" /\ call'[th] = NoCall /\ page'[th] = 0
         /\ rec'[th] = Blank /\ seen'[th] = {}
<1>1. /\ LocalTypes /\ call \in [Thread -> CallRec] /\ pc \in [Thread -> Steps]
  BY G1Facts
<1>2. NoCall \in CallRec /\ NoCall.op = "none" /\ NoCall.key = 0
  BY DEF NoCall, CallRec, Ops, Id
<1>3. /\ call' \in [Thread -> CallRec] /\ pc' \in [Thread -> Steps]
      /\ pc'[th] = "idle" /\ call'[th] = NoCall /\ page'[th] = 0
      /\ rec'[th] = Blank /\ seen'[th] = {}
  BY <1>1, <1>2 DEF Return, LocalTypes, Steps
<1>4. LocalTypes'
  BY <1>1 DEF LocalTypes, Return
<1>5. Others(th)
  BY <1>1 DEF Others, Return, LocalTypes
<1>6. CallOK(th)'
  BY <1>2, <1>3 DEF CallOK, KeyOK, RecOK, At, Op, Key, OnEdge, StepsOf, EdgeOps
<1> QED
  BY <1>3, <1>4, <1>5, <1>6

\* A call that goes on with its locals as they are.
LEMMA GoesOn ==
  ASSUME G1, NEW th \in Thread, NEW s \in StepsOf(Op(th)), Goto(th, s), UNCHANGED threadVars
  PROVE  /\ Others(th) /\ LocalTypes'
         /\ call' \in [Thread -> CallRec] /\ pc' \in [Thread -> Steps]
         /\ pc'[th] = s /\ call' = call /\ page' = page /\ rec' = rec /\ seen' = seen
<1>1. /\ LocalTypes /\ call \in [Thread -> CallRec] /\ pc \in [Thread -> Steps]
  BY G1Facts
<1>2. s \in Steps
  BY KeyTyped, OpAt
<1>3. UNCHANGED <<call, page, rec, seen>>
  BY DEF threadVars
<1>4. /\ pc' \in [Thread -> Steps] /\ pc'[th] = s /\ \A u \in Thread \ {th} : pc'[u] = pc[u]
  BY <1>1, <1>2 DEF Goto
<1> QED
  BY <1>1, <1>3, <1>4, Unmoved DEF Others

LEMMA AllocateG1 ==
  ASSUME G1, NEW th \in Thread, Allocate(th)
  PROVE  G1' /\ Others(th)
<1>1. /\ StoreOK /\ TypesButLocal /\ LocalTypes /\ CallOK(th)
      /\ call \in [Thread -> CallRec] /\ pc \in [Thread -> Steps]
  BY G1Facts
<1>2. Others(th)
  BY <1>1 DEF Others, Allocate, Goto, LocalTypes
<1>3. PICK p \in Store!Page : Store!AllocatePage(p) /\ page' = [page EXCEPT ![th] = p]
  BY DEF Allocate
<1>4. StoreOK'
  BY <1>1, <1>3, AllocateIsNew
<1>5. /\ call' = call /\ rec' = rec /\ seen' = seen /\ pc' = [pc EXCEPT ![th] = "write"]
      /\ pc[th] = "allocate" /\ p # 0
  BY DEF Allocate, Goto, At, Store!Page
<1>6. LocalTypes'
  BY <1>1, <1>3, <1>5 DEF LocalTypes
<1>7. /\ call' \in [Thread -> CallRec] /\ pc' \in [Thread -> Steps]
      /\ pc'[th] = "write" /\ page'[th] # 0
  BY <1>1, <1>3, <1>5 DEF Steps, LocalTypes
<1>8. TypesButLocal' /\ Grow
  BY <1>1, Unmoved DEF Allocate, nodeVars, edgeVars, TypesButLocal
<1>9. CallOK(th)'
  <2>1. Op(th) \in {"create_node", "create_edge", "update_node", "update_edge"}
    BY <1>1, <1>5, KeyTyped, OpAt DEF CallOK
  <2>2. KeyOK(th)'
    BY <1>1, <1>5, <1>7 DEF CallOK, KeyOK, Key, OnEdge, Op, Allocate, nodeVars, edgeVars
  <2>3. RecOK(th)'
    BY <1>1, <1>5, <1>7 DEF CallOK, RecOK, At, Op, Key, OnEdge
  <2> QED
    BY <2>1, <2>2, <2>3, <1>1, <1>5, <1>7 DEF CallOK, Op, StepsOf
<1> QED
  BY <1>2, <1>4, <1>6, <1>7, <1>8, <1>9, StepFrame

LEMMA WriteG1 ==
  ASSUME G1, NEW th \in Thread, Write(th)
  PROVE  G1' /\ Others(th)
<1>1. /\ StoreOK /\ TypesButLocal /\ LocalTypes /\ CallOK(th)
      /\ call \in [Thread -> CallRec] /\ pc \in [Thread -> Steps]
  BY G1Facts
<1>2. /\ pc[th] = "write" /\ Goto(th, "index") /\ UNCHANGED threadVars
  BY DEF Write, At
<1>3. Op(th) \in {"create_node", "create_edge", "update_node", "update_edge"}
  BY <1>1, <1>2, KeyTyped, OpAt DEF CallOK
<1>4. "index" \in StepsOf(Op(th))
  BY <1>3 DEF StepsOf
<1>5. /\ Others(th) /\ LocalTypes'
      /\ call' \in [Thread -> CallRec] /\ pc' \in [Thread -> Steps]
      /\ pc'[th] = "index" /\ call' = call /\ page' = page /\ rec' = rec
  BY <1>2, <1>4, GoesOn
<1>6. [rec[th] EXCEPT !.value = call[th].value] \in PageImage /\ page[th] \in Store!Page
  <2>1. rec[th] \in PageImage /\ page[th] # 0
    BY <1>1, <1>2 DEF CallOK, RecOK
  <2>2. call[th].value \in Value \cup {0}
    BY <1>1 DEF CallRec
  <2>3. page[th] \in Store!Page
    BY <1>1, <2>1 DEF LocalTypes
  <2> QED
    BY <2>1, <2>2, <2>3, Revalued
<1>7. StoreOK'
  BY <1>1, <1>6, WriteIsDone DEF Write
<1>8. TypesButLocal' /\ Grow
  BY <1>1, Unmoved DEF Write, nodeVars, edgeVars, TypesButLocal
<1>9. CallOK(th)'
  <2>1. KeyOK(th)'
    BY <1>1, <1>2, <1>5 DEF CallOK, KeyOK, Key, OnEdge, Op, Write, nodeVars, edgeVars
  <2>2. RecOK(th)'
    BY <1>1, <1>2, <1>5 DEF CallOK, RecOK, At, Op, Key, OnEdge
  <2> QED
    BY <2>1, <2>2, <1>1, <1>2, <1>4, <1>5 DEF CallOK, Op
<1> QED
  BY <1>5, <1>7, <1>8, <1>9, StepFrame

LEMMA IndexNodeG1 ==
  ASSUME G1, NEW th \in Thread, IndexNode(th)
  PROVE  /\ G1' /\ Others(th)
         /\ Op(th) \in {"create_node", "update_node"} /\ Key(th) \in Node /\ page[th] \in Store!Page
         /\ Op(th) = "create_node" => pc'[th] = "count" /\ UNCHANGED threadVars
         /\ Op(th) # "create_node" =>
                /\ pc'[th] = "idle" /\ call'[th] = NoCall /\ page'[th] = 0
                /\ rec'[th] = Blank /\ seen'[th] = {}
<1>1. /\ StoreOK /\ TypesButLocal /\ LocalTypes /\ CallOK(th)
      /\ call \in [Thread -> CallRec] /\ pc \in [Thread -> Steps]
  BY G1Facts
<1>2. Op(th) \in {"create_node", "update_node"}
  BY <1>1, KeyTyped, OpAt DEF CallOK, IndexNode, At, OnEdge, EdgeOps
<1>3. Key(th) \in Node /\ page[th] \in Store!Page
  BY <1>1, <1>2, KeyTyped DEF CallOK, IndexNode, At, OnEdge, EdgeOps, LocalTypes
<1>4. IndexTypes'
  BY <1>1, <1>3 DEF IndexNode, IndexTypes, TypesButLocal, edgeVars, nodeVars
<1>5. StoreOK' /\ IdTypes' /\ CountTypes' /\ AdjTypes' /\ HistTypes' /\ Grow
  BY <1>1, Unmoved DEF IndexNode, TypesButLocal, edgeVars, nodeVars
<1>6. CASE Op(th) = "create_node"
  <2>1. Goto(th, "count") /\ UNCHANGED threadVars /\ pc[th] = "index"
    BY <1>6 DEF IndexNode, At
  <2>2. "count" \in StepsOf(Op(th))
    BY <1>6 DEF StepsOf
  <2>3. /\ Others(th) /\ LocalTypes'
        /\ call' \in [Thread -> CallRec] /\ pc' \in [Thread -> Steps]
        /\ pc'[th] = "count" /\ call' = call /\ page' = page /\ rec' = rec
    BY <2>1, <2>2, GoesOn
  <2>4. KeyOK(th)'
    BY <1>1, <2>1, <2>3 DEF CallOK, KeyOK, Key, OnEdge, Op, IndexNode, nodeVars, edgeVars
  <2>5. RecOK(th)'
    BY <1>1, <2>1, <2>3 DEF CallOK, RecOK, At, Op, Key, OnEdge
  <2>6. CallOK(th)'
    BY <2>2, <2>3, <2>4, <2>5, <1>1 DEF CallOK, Op
  <2> QED
    BY <2>1, <2>3, <2>6, <1>2, <1>3, <1>4, <1>5, <1>6, StepFrame DEF TypesButLocal
<1>7. CASE Op(th) # "create_node"
  <2>1. Return(th)
    BY <1>7 DEF IndexNode
  <2> QED
    BY <2>1, <1>2, <1>3, <1>4, <1>5, <1>7, Returns, StepFrame DEF TypesButLocal
<1> QED
  BY <1>6, <1>7

LEMMA IndexEdgeG1 ==
  ASSUME G1, NEW th \in Thread, IndexEdge(th)
  PROVE  /\ G1' /\ Others(th)
         /\ Op(th) \in {"create_edge", "update_edge"} /\ Key(th) \in Edge /\ page[th] \in Store!Page
         /\ Op(th) = "create_edge" => pc'[th] = "adjacency" /\ UNCHANGED threadVars
         /\ Op(th) # "create_edge" =>
                /\ pc'[th] = "idle" /\ call'[th] = NoCall /\ page'[th] = 0
                /\ rec'[th] = Blank /\ seen'[th] = {}
<1>1. /\ StoreOK /\ TypesButLocal /\ LocalTypes /\ CallOK(th)
      /\ call \in [Thread -> CallRec] /\ pc \in [Thread -> Steps]
  BY G1Facts
<1>2. Op(th) \in {"create_edge", "update_edge"}
  BY <1>1, KeyTyped, OpAt DEF CallOK, IndexEdge, At, OnEdge, EdgeOps
<1>3. Key(th) \in Edge /\ page[th] \in Store!Page
  BY <1>1, <1>2, KeyTyped DEF CallOK, IndexEdge, At, OnEdge, EdgeOps, LocalTypes
<1>4. IndexTypes'
  BY <1>1, <1>3 DEF IndexEdge, IndexTypes, TypesButLocal, edgeVars, nodeVars
<1>5. StoreOK' /\ IdTypes' /\ CountTypes' /\ AdjTypes' /\ HistTypes' /\ Grow
  BY <1>1, Unmoved DEF IndexEdge, TypesButLocal, edgeVars, nodeVars
<1>6. CASE Op(th) = "create_edge"
  <2>1. Goto(th, "adjacency") /\ UNCHANGED threadVars /\ pc[th] = "index"
    BY <1>6 DEF IndexEdge, At
  <2>2. "adjacency" \in StepsOf(Op(th))
    BY <1>6 DEF StepsOf
  <2>3. /\ Others(th) /\ LocalTypes'
        /\ call' \in [Thread -> CallRec] /\ pc' \in [Thread -> Steps]
        /\ pc'[th] = "adjacency" /\ call' = call /\ page' = page /\ rec' = rec
    BY <2>1, <2>2, GoesOn
  <2>4. KeyOK(th)'
    BY <1>1, <2>1, <2>3 DEF CallOK, KeyOK, Key, OnEdge, Op, IndexEdge, nodeVars, edgeVars
  <2>5. RecOK(th)'
    BY <1>1, <2>1, <2>3 DEF CallOK, RecOK, At, Op, Key, OnEdge
  <2>6. CallOK(th)'
    BY <2>2, <2>3, <2>4, <2>5, <1>1 DEF CallOK, Op
  <2> QED
    BY <2>1, <2>3, <2>6, <1>2, <1>3, <1>4, <1>5, <1>6, StepFrame DEF TypesButLocal
<1>7. CASE Op(th) # "create_edge"
  <2>1. Return(th)
    BY <1>7 DEF IndexEdge
  <2> QED
    BY <2>1, <1>2, <1>3, <1>4, <1>5, <1>7, Returns, StepFrame DEF TypesButLocal
<1> QED
  BY <1>6, <1>7

LEMMA LookupG1 ==
  ASSUME G1, NEW th \in Thread, Lookup(th)
  PROVE  /\ G1' /\ Others(th)
         /\ Op(th) \in Reads
         /\ \/ PageOf(th) = 0 /\ pc'[th] = "idle" /\ call'[th] = NoCall
            \/ /\ PageOf(th) \in Store!Page /\ pc'[th] = "read" /\ page'[th] = PageOf(th)
               /\ UNCHANGED <<call, rec, seen>>
<1>1. /\ StoreOK /\ TypesButLocal /\ LocalTypes /\ CallOK(th)
      /\ call \in [Thread -> CallRec] /\ pc \in [Thread -> Steps]
  BY G1Facts
<1>2. Op(th) \in Reads /\ pc[th] = "lookup"
  BY <1>1, KeyTyped, OpAt DEF CallOK, Lookup, At
<1>3. PageOf(th) \in Store!Page \cup {0}
  BY <1>1, <1>2, KeyTyped DEF PageOf, IndexTypes, TypesButLocal
<1>4. StoreOK' /\ TypesButLocal' /\ Grow
  BY <1>1, Unmoved DEF Lookup, TypesButLocal, edgeVars, nodeVars
<1>5. CASE PageOf(th) = 0
  <2>1. Return(th)
    BY <1>5 DEF Lookup
  <2> QED
    BY <2>1, <1>2, <1>4, <1>5, Returns, StepFrame
<1>6. CASE PageOf(th) # 0
  <2>1. /\ page' = [page EXCEPT ![th] = PageOf(th)] /\ pc' = [pc EXCEPT ![th] = "read"]
        /\ UNCHANGED <<call, rec, seen>>
    BY <1>6 DEF Lookup, Goto
  <2>2. Others(th)
    BY <1>1, <2>1 DEF Others, LocalTypes
  <2>3. LocalTypes'
    BY <1>1, <1>3, <2>1 DEF LocalTypes
  <2>4. /\ call' \in [Thread -> CallRec] /\ pc' \in [Thread -> Steps]
        /\ pc'[th] = "read" /\ page'[th] = PageOf(th) /\ call' = call /\ rec' = rec
    BY <1>1, <2>1 DEF LocalTypes, Steps
  <2>5. KeyOK(th)'
    BY <1>1, <1>2, <2>4 DEF CallOK, KeyOK, Key, OnEdge, Op, Lookup, nodeVars, edgeVars
  <2>6. RecOK(th)'
    BY <1>1, <1>2, <2>4 DEF CallOK, RecOK, At, Op, Reads, Rewrites
  <2>7. CallOK(th)'
    BY <2>4, <2>5, <2>6, <1>1, <1>2, <1>6 DEF CallOK, Op, StepsOf, Reads, Rewrites
  <2> QED
    BY <1>2, <1>3, <1>4, <1>6, <2>1, <2>2, <2>3, <2>4, <2>7, StepFrame
<1> QED
  BY <1>5, <1>6

LEMMA ReadG1 ==
  ASSUME G1, NEW th \in Thread, Read(th)
  PROVE  /\ G1' /\ Others(th)
         /\ Op(th) \in Reads /\ page[th] \in Store!Page
         /\ UNCHANGED <<file, next_page_id, call, page, rec>> /\ pc'[th] = "parse"
         /\ seen'[th] = {file[page[th]]}
         /\ \A u \in Thread \ {th} :
                seen'[u] = IF At(u, "parse") THEN seen[u] \cup {Blank, file[page[th]]}
                                             ELSE seen[u]
<1>1. /\ StoreOK /\ TypesButLocal /\ LocalTypes /\ CallOK(th)
      /\ call \in [Thread -> CallRec] /\ pc \in [Thread -> Steps]
  BY G1Facts
<1>2. Op(th) \in Reads /\ pc[th] = "read" /\ page[th] \in Store!Page
  BY <1>1, KeyTyped, OpAt DEF CallOK, Read, At, LocalTypes
<1>3. /\ StoreOK' /\ UNCHANGED <<file, next_page_id>> /\ page_buffer' = file[page[th]]
  BY <1>1, <1>2, ReadFills DEF Read
<1>4. file[page[th]] \in PageImage \cup {Blank}
  BY <1>1, <1>2 DEF StoreOK
<1>5. /\ pc' = [pc EXCEPT ![th] = "parse"] /\ UNCHANGED <<call, page, rec>>
      /\ seen' = [u \in Thread |->
                      IF u = th THEN {file[page[th]]}
                      ELSE IF At(u, "parse") THEN seen[u] \cup {Blank, file[page[th]]}
                      ELSE seen[u]]
  BY <1>3 DEF Read, Goto
<1>6. TypesButLocal' /\ Grow
  BY <1>1, Unmoved DEF Read, TypesButLocal, edgeVars, nodeVars
<1>7. Others(th)
  BY <1>1, <1>5 DEF Others
<1>8. LocalTypes'
  <2>1. seen' \in [Thread -> SUBSET (PageImage \cup {Blank})]
    BY <1>1, <1>4, <1>5 DEF LocalTypes
  <2> QED
    BY <2>1, <1>1, <1>5 DEF LocalTypes
<1>9. /\ call' \in [Thread -> CallRec] /\ pc' \in [Thread -> Steps] /\ pc'[th] = "parse"
  BY <1>1, <1>5 DEF Steps
<1>10. KeyOK(th)'
  BY <1>1, <1>2, <1>5, <1>9 DEF CallOK, KeyOK, Key, OnEdge, Op, Read, nodeVars, edgeVars
<1>11. RecOK(th)'
  BY <1>1, <1>2, <1>5, <1>9 DEF CallOK, RecOK, At, Op, Reads, Rewrites
<1>12. CallOK(th)'
  BY <1>1, <1>2, <1>5, <1>9, <1>10, <1>11 DEF CallOK, Op, StepsOf, Reads, Rewrites, Store!Page
<1> QED
  BY <1>2, <1>3, <1>5, <1>6, <1>7, <1>8, <1>9, <1>12, StepFrame

\* Parse either ends the call or leaves it with a record some images allow.
ParsedOn(th) ==
    /\ Op(th) \in Rewrites /\ UNCHANGED call
    /\ rec'[th] \in Parsed(seen[th], KindOf(Op(th))) /\ rec'[th] \in PageImage
    /\ rec'[th].kind = KindOf(Op(th)) /\ page'[th] = 0 /\ seen'[th] = {}
    /\ pc'[th] = IF Op(th) = "delete_edge" THEN "adjacency" ELSE "allocate"

LEMMA ParseG1 ==
  ASSUME G1, NEW th \in Thread, Parse(th)
  PROVE  /\ G1' /\ Others(th)
         /\ \/ pc'[th] = "idle" /\ call'[th] = NoCall
            \/ ParsedOn(th)
<1>1. /\ StoreOK /\ TypesButLocal /\ LocalTypes /\ CallOK(th)
      /\ call \in [Thread -> CallRec] /\ pc \in [Thread -> Steps]
  BY G1Facts
<1>2. Op(th) \in Reads /\ pc[th] = "parse"
  BY <1>1, KeyTyped, OpAt DEF CallOK, Parse, At
<1>3. StoreOK' /\ TypesButLocal' /\ Grow
  BY <1>1, Unmoved DEF Parse, TypesButLocal, edgeVars, nodeVars
<1>4. CASE Return(th)
  BY <1>3, <1>4, Returns, StepFrame
<1>5. CASE ~ Return(th)
  <2>1. /\ Op(th) \notin {"get_node", "get_edge"}
        /\ \E r \in Parsed(seen[th], KindOf(Op(th))) : rec' = [rec EXCEPT ![th] = r]
        /\ seen' = [seen EXCEPT ![th] = {}] /\ page' = [page EXCEPT ![th] = 0]
        /\ pc' = [pc EXCEPT ![th] = IF Op(th) = "delete_edge" THEN "adjacency"
                                                             ELSE "allocate"]
        /\ call' = call
    BY <1>5 DEF Parse, Goto, KindOf, OnEdge
  <2>2. Op(th) \in Rewrites
    BY <1>2, <2>1 DEF Reads
  <2>3. PICK r \in Parsed(seen[th], KindOf(Op(th))) : rec' = [rec EXCEPT ![th] = r]
    BY <2>1
  <2>4. r \in PageImage /\ r.kind = KindOf(Op(th))
    <3>1. seen[th] \in SUBSET (PageImage \cup {Blank}) /\ KindOf(Op(th)) \in {"node", "edge"}
      BY <1>1 DEF LocalTypes, KindOf
    <3> QED
      BY <3>1, ParsedTyped
  <2>5. Others(th)
    BY <1>1, <2>1, <2>3 DEF Others, LocalTypes
  <2>6. LocalTypes'
    BY <1>1, <2>1, <2>3, <2>4 DEF LocalTypes
  <2>7. /\ call' \in [Thread -> CallRec] /\ pc' \in [Thread -> Steps]
        /\ pc'[th] = IF Op(th) = "delete_edge" THEN "adjacency" ELSE "allocate"
        /\ page'[th] = 0 /\ rec'[th] = r /\ seen'[th] = {}
    BY <1>1, <2>1, <2>3 DEF LocalTypes, Steps
  <2>8. KeyOK(th)'
    BY <1>1, <1>2, <2>1, <2>7 DEF CallOK, KeyOK, Key, OnEdge, Op, Parse, nodeVars, edgeVars
  <2>9. RecOK(th)'
    BY <2>1, <2>2, <2>4, <2>7 DEF RecOK, At, Op, Rewrites
  <2>10. CallOK(th)'
    BY <2>1, <2>2, <2>7, <2>8, <2>9 DEF CallOK, Op, StepsOf, Rewrites
  <2> QED
    BY <1>3, <2>1, <2>2, <2>3, <2>4, <2>5, <2>6, <2>7, <2>10, StepFrame DEF ParsedOn
<1> QED
  BY <1>4, <1>5

LEMMA AddAdjacencyG1 ==
  ASSUME G1, NEW th \in Thread, AddAdjacency(th)
  PROVE  /\ G1' /\ Others(th)
         /\ Key(th) \in Edge /\ call[th].from \in Node /\ call[th].to \in Node
         /\ rec[th] = Image("edge", Key(th), call[th].from, call[th].to, 0)
         /\ pc'[th] = "count" /\ UNCHANGED <<call, page, rec, seen>>
<1>1. /\ StoreOK /\ TypesButLocal /\ LocalTypes /\ CallOK(th)
      /\ call \in [Thread -> CallRec] /\ pc \in [Thread -> Steps]
  BY G1Facts
<1>2. /\ Op(th) = "create_edge" /\ pc[th] = "adjacency" /\ Goto(th, "count")
      /\ UNCHANGED threadVars
  BY DEF AddAdjacency, At
<1>3. /\ Key(th) \in Edge /\ call[th].from \in Node /\ call[th].to \in Node
      /\ rec[th] = Image("edge", Key(th), call[th].from, call[th].to, 0)
  BY <1>1, <1>2, KeyTyped DEF CallOK, RecOK, At, OnEdge, EdgeOps
<1>4. rec[th].from \in Node /\ rec[th].to \in Node
  BY <1>3 DEF Image
<1>5. AdjTypes'
  BY <1>1, <1>3, <1>4 DEF AdjTypes, AddAdjacency, TypesButLocal
<1>6. StoreOK' /\ IdTypes' /\ CountTypes' /\ IndexTypes' /\ HistTypes' /\ Grow
  BY <1>1, Unmoved DEF AddAdjacency, TypesButLocal, edgeVars, nodeVars
<1>7. "count" \in StepsOf(Op(th))
  BY <1>2 DEF StepsOf
<1>8. /\ Others(th) /\ LocalTypes'
      /\ call' \in [Thread -> CallRec] /\ pc' \in [Thread -> Steps]
      /\ pc'[th] = "count" /\ call' = call /\ page' = page /\ rec' = rec /\ seen' = seen
  BY <1>2, <1>7, GoesOn
<1>9. KeyOK(th)'
  BY <1>1, <1>2, <1>8 DEF CallOK, KeyOK, Key, OnEdge, Op, AddAdjacency, nodeVars, edgeVars
<1>10. RecOK(th)'
  BY <1>1, <1>2, <1>8 DEF CallOK, RecOK, At, Op, Key, OnEdge
<1>11. CallOK(th)'
  BY <1>1, <1>7, <1>8, <1>9, <1>10 DEF CallOK, Op
<1> QED
  BY <1>3, <1>5, <1>6, <1>8, <1>11, StepFrame DEF TypesButLocal

LEMMA RemoveAdjacencyG1 ==
  ASSUME G1, NEW th \in Thread, RemoveAdjacency(th)
  PROVE  /\ G1' /\ Others(th) /\ Key(th) \in Edge
         /\ pc'[th] = "erase" /\ UNCHANGED <<call, page, rec, seen>>
<1>1. /\ StoreOK /\ TypesButLocal /\ LocalTypes /\ CallOK(th)
      /\ call \in [Thread -> CallRec] /\ pc \in [Thread -> Steps]
  BY G1Facts
<1>2. /\ Op(th) = "delete_edge" /\ pc[th] = "adjacency" /\ Goto(th, "erase")
      /\ UNCHANGED threadVars
  BY DEF RemoveAdjacency, At
<1>3. Key(th) \in Edge
  BY <1>2, KeyTyped DEF OnEdge, EdgeOps
<1>4. ASSUME NEW f \in [Node -> SUBSET Edge], NEW n, NEW e
      PROVE  Without(f, n, e) \in [Node -> SUBSET Edge]
  BY DEF Without
<1>5. AdjTypes'
  BY <1>1, <1>4 DEF AdjTypes, RemoveAdjacency, TypesButLocal
<1>6. StoreOK' /\ IdTypes' /\ CountTypes' /\ IndexTypes' /\ HistTypes' /\ Grow
  BY <1>1, Unmoved DEF RemoveAdjacency, TypesButLocal, edgeVars, nodeVars
<1>7. "erase" \in StepsOf(Op(th))
  BY <1>2 DEF StepsOf
<1>8. /\ Others(th) /\ LocalTypes'
      /\ call' \in [Thread -> CallRec] /\ pc' \in [Thread -> Steps]
      /\ pc'[th] = "erase" /\ call' = call /\ page' = page /\ rec' = rec /\ seen' = seen
  BY <1>2, <1>7, GoesOn
<1>9. KeyOK(th)'
  BY <1>1, <1>2, <1>8 DEF CallOK, KeyOK, Key, OnEdge, Op, RemoveAdjacency, nodeVars, edgeVars
<1>10. RecOK(th)'
  BY <1>1, <1>2, <1>8 DEF CallOK, RecOK, At, Op, Key, OnEdge
<1>11. CallOK(th)'
  BY <1>1, <1>7, <1>8, <1>9, <1>10, <1>2 DEF CallOK, Op
<1> QED
  BY <1>3, <1>5, <1>6, <1>8, <1>11, StepFrame DEF TypesButLocal

LEMMA CheckOutgoingG1 ==
  ASSUME G1, NEW th \in Thread, CheckOutgoing(th)
  PROVE  /\ G1' /\ Others(th)
         /\ Op(th) = "delete_node" /\ Key(th) \in Node
         /\ \/ pc'[th] = "idle" /\ call'[th] = NoCall
            \/ /\ outgoing_edges[Key(th)] = {} /\ pc'[th] = "incoming"
               /\ UNCHANGED <<call, page, rec, seen>>
<1>1. /\ StoreOK /\ TypesButLocal /\ LocalTypes /\ CallOK(th)
      /\ call \in [Thread -> CallRec] /\ pc \in [Thread -> Steps]
  BY G1Facts
<1>2. Op(th) = "delete_node" /\ pc[th] = "outgoing"
  BY <1>1, KeyTyped, OpAt DEF CallOK, CheckOutgoing, At
<1>3. StoreOK' /\ TypesButLocal' /\ Grow
  BY <1>1, Unmoved DEF CheckOutgoing, TypesButLocal, edgeVars, nodeVars
<1>4. Key(th) \in Node
  BY <1>2, KeyTyped DEF OnEdge, EdgeOps
<1>5. CASE Return(th)
  BY <1>2, <1>3, <1>4, <1>5, Returns, StepFrame
<1>6. CASE ~ Return(th)
  <2>1. outgoing_edges[Key(th)] = {} /\ Goto(th, "incoming") /\ UNCHANGED threadVars
    BY <1>6 DEF CheckOutgoing
  <2>2. "incoming" \in StepsOf(Op(th))
    BY <1>2 DEF StepsOf
  <2>3. /\ Others(th) /\ LocalTypes'
        /\ call' \in [Thread -> CallRec] /\ pc' \in [Thread -> Steps]
        /\ pc'[th] = "incoming" /\ call' = call /\ page' = page /\ rec' = rec /\ seen' = seen
    BY <2>1, <2>2, GoesOn
  <2>4. KeyOK(th)'
    BY <1>1, <1>2, <2>3 DEF CallOK, KeyOK, Key, OnEdge, Op, CheckOutgoing, nodeVars, edgeVars
  <2>5. RecOK(th)'
    BY <1>1, <1>2, <2>3 DEF CallOK, RecOK, At, Op, OnEdge, EdgeOps
  <2>6. CallOK(th)'
    BY <1>1, <1>2, <2>2, <2>3, <2>4, <2>5 DEF CallOK, Op
  <2> QED
    BY <1>2, <1>3, <1>4, <2>1, <2>3, <2>6, StepFrame
<1> QED
  BY <1>5, <1>6

LEMMA CheckIncomingG1 ==
  ASSUME G1, NEW th \in Thread, CheckIncoming(th)
  PROVE  /\ G1' /\ Others(th)
         /\ Op(th) = "delete_node" /\ Key(th) \in Node
         /\ \/ pc'[th] = "idle" /\ call'[th] = NoCall
            \/ /\ incoming_edges[Key(th)] = {} /\ pc'[th] = "erase"
               /\ UNCHANGED <<call, page, rec, seen>>
<1>1. /\ StoreOK /\ TypesButLocal /\ LocalTypes /\ CallOK(th)
      /\ call \in [Thread -> CallRec] /\ pc \in [Thread -> Steps]
  BY G1Facts
<1>2. Op(th) = "delete_node" /\ pc[th] = "incoming"
  BY <1>1, KeyTyped, OpAt DEF CallOK, CheckIncoming, At
<1>3. StoreOK' /\ TypesButLocal' /\ Grow
  BY <1>1, Unmoved DEF CheckIncoming, TypesButLocal, edgeVars, nodeVars
<1>4. Key(th) \in Node
  BY <1>2, KeyTyped DEF OnEdge, EdgeOps
<1>5. CASE Return(th)
  BY <1>2, <1>3, <1>4, <1>5, Returns, StepFrame
<1>6. CASE ~ Return(th)
  <2>1. incoming_edges[Key(th)] = {} /\ Goto(th, "erase") /\ UNCHANGED threadVars
    BY <1>6 DEF CheckIncoming
  <2>2. "erase" \in StepsOf(Op(th))
    BY <1>2 DEF StepsOf
  <2>3. /\ Others(th) /\ LocalTypes'
        /\ call' \in [Thread -> CallRec] /\ pc' \in [Thread -> Steps]
        /\ pc'[th] = "erase" /\ call' = call /\ page' = page /\ rec' = rec /\ seen' = seen
    BY <2>1, <2>2, GoesOn
  <2>4. KeyOK(th)'
    BY <1>1, <1>2, <2>3 DEF CallOK, KeyOK, Key, OnEdge, Op, CheckIncoming, nodeVars, edgeVars
  <2>5. RecOK(th)'
    BY <1>1, <1>2, <2>3 DEF CallOK, RecOK, At, Op, OnEdge, EdgeOps
  <2>6. CallOK(th)'
    BY <1>1, <1>2, <2>2, <2>3, <2>4, <2>5 DEF CallOK, Op
  <2> QED
    BY <1>2, <1>3, <1>4, <2>1, <2>3, <2>6, StepFrame
<1> QED
  BY <1>5, <1>6

LEMMA EraseNodeG1 ==
  ASSUME G1, NEW th \in Thread, EraseNode(th)
  PROVE  /\ G1' /\ Others(th) /\ Op(th) = "delete_node" /\ Key(th) \in Node
         /\ pc'[th] = "erase_lists" /\ UNCHANGED <<call, page, rec, seen>>
<1>1. /\ StoreOK /\ TypesButLocal /\ LocalTypes /\ CallOK(th)
      /\ call \in [Thread -> CallRec] /\ pc \in [Thread -> Steps]
  BY G1Facts
<1>2. pc[th] = "erase" /\ Goto(th, "erase_lists") /\ UNCHANGED threadVars
  BY DEF EraseNode, At
<1>3. Op(th) = "delete_node"
  BY <1>1, <1>2, KeyTyped, OpAt DEF CallOK, EraseNode
<1>4. Key(th) \in Node
  BY <1>2, <1>3, KeyTyped DEF OnEdge, EdgeOps
<1>5. IndexTypes'
  BY <1>1, <1>4 DEF EraseNode, IndexTypes, TypesButLocal, edgeVars
<1>6. absent' \in 0 .. CountLimit
  BY <1>1 DEF EraseNode, HistTypes, TypesButLocal
<1>7. HistTypes'
  BY <1>1, <1>6 DEF EraseNode, HistTypes, TypesButLocal
<1>8. StoreOK' /\ IdTypes' /\ CountTypes' /\ AdjTypes' /\ Grow
  BY <1>1, Unmoved DEF EraseNode, TypesButLocal, edgeVars, nodeVars, adjVars, historyVars
<1>9. "erase_lists" \in StepsOf(Op(th))
  BY <1>3 DEF StepsOf
<1>10. /\ Others(th) /\ LocalTypes'
      /\ call' \in [Thread -> CallRec] /\ pc' \in [Thread -> Steps]
      /\ pc'[th] = "erase_lists" /\ call' = call /\ page' = page /\ rec' = rec /\ seen' = seen
  BY <1>2, <1>9, GoesOn
<1>11. KeyOK(th)'
  BY <1>1, <1>2, <1>10 DEF CallOK, KeyOK, Key, OnEdge, Op, EraseNode, nodeVars, edgeVars
<1>12. RecOK(th)'
  BY <1>1, <1>2, <1>3, <1>10 DEF CallOK, RecOK, At, Op, OnEdge, EdgeOps
<1>13. CallOK(th)'
  BY <1>1, <1>3, <1>9, <1>10, <1>11, <1>12 DEF CallOK, Op
<1> QED
  BY <1>3, <1>4, <1>5, <1>6, <1>7, <1>8, <1>10, <1>13, StepFrame DEF TypesButLocal

LEMMA EraseListsG1 ==
  ASSUME G1, NEW th \in Thread, EraseLists(th)
  PROVE  /\ G1' /\ Others(th) /\ Op(th) = "delete_node" /\ Key(th) \in Node
         /\ pc'[th] = "count" /\ UNCHANGED <<call, page, rec, seen>>
<1>1. /\ StoreOK /\ TypesButLocal /\ LocalTypes /\ CallOK(th)
      /\ call \in [Thread -> CallRec] /\ pc \in [Thread -> Steps]
  BY G1Facts
<1>2. pc[th] = "erase_lists" /\ Goto(th, "count") /\ UNCHANGED threadVars
  BY DEF EraseLists, At
<1>3. Op(th) = "delete_node"
  BY <1>1, <1>2, KeyTyped, OpAt DEF CallOK, EraseLists
<1>4. Key(th) \in Node
  BY <1>2, <1>3, KeyTyped DEF OnEdge, EdgeOps
<1>5. AdjTypes'
  BY <1>1, <1>4 DEF EraseLists, AdjTypes, TypesButLocal
<1>6. StoreOK' /\ IdTypes' /\ CountTypes' /\ IndexTypes' /\ HistTypes' /\ Grow
  BY <1>1, Unmoved DEF EraseLists, TypesButLocal, edgeVars, nodeVars, adjVars, historyVars
<1>7. "count" \in StepsOf(Op(th))
  BY <1>3 DEF StepsOf
<1>8. /\ Others(th) /\ LocalTypes'
      /\ call' \in [Thread -> CallRec] /\ pc' \in [Thread -> Steps]
      /\ pc'[th] = "count" /\ call' = call /\ page' = page /\ rec' = rec /\ seen' = seen
  BY <1>2, <1>7, GoesOn
<1>9. KeyOK(th)'
  BY <1>1, <1>2, <1>8 DEF CallOK, KeyOK, Key, OnEdge, Op, EraseLists, nodeVars, edgeVars
<1>10. RecOK(th)'
  BY <1>1, <1>2, <1>3, <1>8 DEF CallOK, RecOK, At, Op, OnEdge, EdgeOps
<1>11. CallOK(th)'
  BY <1>1, <1>3, <1>7, <1>8, <1>9, <1>10 DEF CallOK, Op
<1> QED
  BY <1>3, <1>4, <1>5, <1>6, <1>8, <1>11, StepFrame DEF TypesButLocal

LEMMA EraseEdgeG1 ==
  ASSUME G1, NEW th \in Thread, EraseEdge(th)
  PROVE  /\ G1' /\ Others(th) /\ Op(th) = "delete_edge" /\ Key(th) \in Edge
         /\ pc'[th] = "count" /\ UNCHANGED <<call, page, rec, seen>>
<1>1. /\ StoreOK /\ TypesButLocal /\ LocalTypes /\ CallOK(th)
      /\ call \in [Thread -> CallRec] /\ pc \in [Thread -> Steps]
  BY G1Facts
<1>2. pc[th] = "erase" /\ Goto(th, "count") /\ UNCHANGED threadVars
  BY DEF EraseEdge, At
<1>3. Op(th) = "delete_edge"
  BY <1>1, <1>2, KeyTyped, OpAt DEF CallOK, EraseEdge
<1>4. Key(th) \in Edge
  BY <1>2, <1>3, KeyTyped DEF OnEdge, EdgeOps
<1>5. IndexTypes'
  BY <1>1, <1>4 DEF EraseEdge, IndexTypes, TypesButLocal, nodeVars
<1>6. StoreOK' /\ IdTypes' /\ CountTypes' /\ AdjTypes' /\ HistTypes' /\ Grow
  BY <1>1, Unmoved DEF EraseEdge, TypesButLocal, edgeVars, nodeVars, adjVars, historyVars
<1>7. "count" \in StepsOf(Op(th))
  BY <1>3 DEF StepsOf
<1>8. /\ Others(th) /\ LocalTypes'
      /\ call' \in [Thread -> CallRec] /\ pc' \in [Thread -> Steps]
      /\ pc'[th] = "count" /\ call' = call /\ page' = page /\ rec' = rec /\ seen' = seen
  BY <1>2, <1>7, GoesOn
<1>9. KeyOK(th)'
  BY <1>1, <1>2, <1>8 DEF CallOK, KeyOK, Key, OnEdge, Op, EraseEdge, nodeVars, edgeVars
<1>10. RecOK(th)'
  BY <1>1, <1>2, <1>3, <1>8 DEF CallOK, RecOK, At, Op, OnEdge, EdgeOps
<1>11. CallOK(th)'
  BY <1>1, <1>3, <1>7, <1>8, <1>9, <1>10 DEF CallOK, Op
<1> QED
  BY <1>3, <1>4, <1>5, <1>6, <1>8, <1>11, StepFrame DEF TypesButLocal

LEMMA CountedInRange ==
  ASSUME NEW n \in 0 .. CountLimit - 1, NEW th
  PROVE  Counted(th, n) \in 0 .. CountLimit - 1
<1>1. CountLimit \in Nat /\ CountLimit > 0
  OBVIOUS
<1>2. (n + 1) % CountLimit \in 0 .. CountLimit - 1
  BY <1>1
<1>3. (n + CountLimit - 1) % CountLimit \in 0 .. CountLimit - 1
  BY <1>1
<1> QED
  BY <1>2, <1>3 DEF Counted

LEMMA CountG1 ==
  ASSUME G1, NEW th \in Thread, Count(th)
  PROVE  /\ G1' /\ Others(th)
         /\ Op(th) \in {"create_node", "create_edge", "delete_node", "delete_edge"}
         /\ Key(th) \in IF OnEdge(th) THEN Edge ELSE Node
         /\ pc'[th] = "idle" /\ call'[th] = NoCall
<1>1. /\ StoreOK /\ TypesButLocal /\ LocalTypes /\ CallOK(th)
  BY G1Facts
<1>2. pc[th] = "count" /\ Return(th)
  BY DEF Count, At
<1>3. /\ Op(th) \in {"create_node", "create_edge", "delete_node", "delete_edge"}
      /\ Key(th) \in IF OnEdge(th) THEN Edge ELSE Node
  BY <1>1, <1>2, KeyTyped, OpAt DEF CallOK
<1>4. CountTypes'
  BY <1>1, CountedInRange DEF Count, CountTypes, TypesButLocal
<1>5. StoreOK' /\ IdTypes' /\ IndexTypes' /\ AdjTypes' /\ HistTypes' /\ Grow
  BY <1>1, Unmoved DEF Count, TypesButLocal
<1> QED
  BY <1>2, <1>3, <1>4, <1>5, Returns, StepFrame DEF TypesButLocal

LEMMA G1Step == G1 /\ [GSNext]_gsVars => G1'
<1> SUFFICES ASSUME G1, [GSNext]_gsVars PROVE G1'
  OBVIOUS
<1>1. CASE UNCHANGED gsVars
  <2>1. UNCHANGED <<pc, call, page, rec, seen>> /\ IdTypes' /\ CountTypes' /\ IndexTypes'
        /\ AdjTypes' /\ HistTypes' /\ LocalTypes' /\ StoreOK'
    BY <1>1, G1Parts, Unmoved DEF gsVars, nodeVars, edgeVars, threadVars
  <2>2. UNCHANGED <<next_node_id, next_edge_id>>
    BY <1>1 DEF gsVars, nodeVars, edgeVars
  <2>3. CallsOK'
    BY <2>1, <2>2 DEF G1, CallsOK, CallOK, KeyOK, RecOK, Key, Op, OnEdge, At
  <2> QED
    BY <2>1, <2>3, G1PartsNext
<1>2. ASSUME NEW th \in Thread, NEW c \in Calls, Begin(th, c) PROVE G1'
  BY <1>2, BeginG1
<1>3. ASSUME NEW th \in Thread, Step(th) PROVE G1'
  BY <1>3, FetchNodeIdG1, FetchEdgeIdG1, AllocateG1, WriteG1, IndexNodeG1, IndexEdgeG1,
     LookupG1, ReadG1, ParseG1, AddAdjacencyG1, RemoveAdjacencyG1, CheckOutgoingG1,
     CheckIncomingG1, EraseNodeG1, EraseListsG1, EraseEdgeG1, CountG1 DEF Step
<1> QED
  BY <1>1, <1>2, <1>3 DEF GSNext

(***************************************************************************)
(* Whatever calls overlap, the members keep their types: an identifier is  *)
(* never handed out twice nor past the last, a counter wraps and never     *)
(* leaves its width, an index names pages of the file, and what a torn     *)
(* buffer lets a call parse is still a record (graph_store.h:150-168,      *)
(* graph_store.cpp:228-262).                                               *)
(***************************************************************************)
THEOREM GSTypes == GSSpec => []GSTypeOK
<1>1. G1 => GSTypeOK
  BY DEF G1
<1> QED
  BY <1>1, G1Init, G1Step, PTL DEF GSSpec

----------------------------------------------------------------------------
(***************************************************************************)
(* What a step does to what other threads can see: an index moves at the   *)
(* key of the caller only, a page is written by the thread it was          *)
(* allocated for only.                                                     *)
(***************************************************************************)
IndexMoves(th) ==
    /\ \A n \in Node :
           \/ node_page_index'[n] = node_page_index[n]
           \/ /\ n = Key(th) /\ ~ OnEdge(th)
              /\ \/ At(th, "index") /\ node_page_index'[n] = page[th]
                 \/ At(th, "erase") /\ node_page_index'[n] = 0
    /\ \A e \in Edge :
           \/ edge_page_index'[e] = edge_page_index[e]
           \/ /\ e = Key(th) /\ OnEdge(th)
              /\ \/ At(th, "index") /\ edge_page_index'[e] = page[th]
                 \/ At(th, "erase") /\ edge_page_index'[e] = 0

\* The record a thread is storing, as it writes it.
Stored(th) == [rec[th] EXCEPT !.value = call[th].value]

FileKept(th) ==
    \A p \in Store!Page :
        \/ file'[p] = file[p]
        \/ At(th, "write") /\ p = page[th] /\ file'[p] = Stored(th)

Effects(th) ==
    /\ Others(th) /\ Grow /\ IndexMoves(th) /\ FileKept(th)
    /\ \/ At(th, "allocate") /\ pc'[th] = "write" /\ page'[th] = next_page_id
          /\ next_page_id' = next_page_id + 1
       \/ pc'[th] # "write" /\ next_page_id' = next_page_id
    /\ pc'[th] = "index" => /\ At(th, "write") /\ file'[page[th]] = Stored(th)
                           /\ UNCHANGED <<call, page, rec>>

LEMMA BeginEffects ==
  ASSUME G1, NEW th \in Thread, NEW c \in Calls, Begin(th, c)
  PROVE  Effects(th)
<1>1. Others(th)
  BY BeginG1
<1>2. UNCHANGED <<next_node_id, next_edge_id, node_page_index, edge_page_index, file,
                  next_page_id>>
  BY DEF Begin, storeVars, nodeVars, edgeVars
<1>3. Grow /\ IndexMoves(th) /\ FileKept(th)
  BY <1>2 DEF Grow, IndexMoves, FileKept, G1, GSTypeOK
<1>4. FirstStep(c) \in {"fetch", "lookup", "outgoing"}
  BY DEF Calls, FirstStep, Reads, Rewrites
<1>5. pc'[th] \notin {"write", "index"}
  BY <1>4 DEF Begin, G1, CallsOK
<1> QED
  BY <1>1, <1>2, <1>3, <1>5 DEF Effects

\* The steps that touch neither an index nor a page.
Bystander(th) ==
    \/ FetchNodeId(th) \/ FetchEdgeId(th) \/ Lookup(th) \/ Read(th) \/ Parse(th)
    \/ AddAdjacency(th) \/ RemoveAdjacency(th) \/ CheckOutgoing(th) \/ CheckIncoming(th)
    \/ EraseLists(th) \/ Count(th)

LEMMA BystanderEffects ==
  ASSUME G1, NEW th \in Thread, Bystander(th)
  PROVE  /\ Effects(th) /\ G1' /\ pc'[th] \notin {"write", "index"}
         /\ UNCHANGED <<node_page_index, edge_page_index, file, next_page_id>>
<1> DEFINE Kept == UNCHANGED <<node_page_index, edge_page_index, file, next_page_id>>
<1>1. /\ pc \in [Thread -> Steps] /\ next_node_id \in Nat /\ next_edge_id \in Nat
  BY DEF G1, CallsOK, GSTypeOK
<1>2. Others(th) /\ G1'
  BY FetchNodeIdG1, FetchEdgeIdG1, LookupG1, ReadG1, ParseG1, AddAdjacencyG1,
     RemoveAdjacencyG1, CheckOutgoingG1, CheckIncomingG1, EraseListsG1, CountG1 DEF Bystander
<1>3. Kept
  <2>1. CASE Read(th)
    BY <2>1, ReadG1 DEF Read, nodeVars, edgeVars
  <2>2. CASE FetchNodeId(th) \/ FetchEdgeId(th) \/ Count(th)
    BY <2>2 DEF FetchNodeId, FetchEdgeId, Count, nodeVars, edgeVars, storeVars
  <2>3. CASE Lookup(th) \/ Parse(th) \/ AddAdjacency(th) \/ RemoveAdjacency(th)
             \/ CheckOutgoing(th) \/ CheckIncoming(th) \/ EraseLists(th)
    BY <2>3 DEF Lookup, Parse, AddAdjacency, RemoveAdjacency, CheckOutgoing, CheckIncoming,
                EraseLists, nodeVars, edgeVars, storeVars
  <2> QED
    BY <2>1, <2>2, <2>3 DEF Bystander
<1>4. Grow
  <2>1. CASE FetchNodeId(th) \/ FetchEdgeId(th)
    BY <2>1, <1>1 DEF FetchNodeId, FetchEdgeId, Grow, nodeVars, edgeVars
  <2>2. CASE ~ (FetchNodeId(th) \/ FetchEdgeId(th))
    <3>1. UNCHANGED <<next_node_id, next_edge_id>>
      BY <2>2 DEF Bystander, Lookup, Read, Parse, AddAdjacency, RemoveAdjacency, CheckOutgoing,
         CheckIncoming, EraseLists, Count, nodeVars, edgeVars
    <3> QED
      BY <3>1, <1>1 DEF Grow
  <2> QED
    BY <2>1, <2>2
<1>5. pc'[th] \notin {"write", "index"}
  <2>1. CASE FetchNodeId(th) \/ FetchEdgeId(th)
    BY <2>1, <1>1 DEF FetchNodeId, FetchEdgeId, Goto
  <2>2. CASE Lookup(th)
    BY <2>2, LookupG1
  <2>3. CASE Read(th)
    BY <2>3, ReadG1
  <2>4. CASE Parse(th)
    BY <2>4, ParseG1 DEF ParsedOn
  <2>5. CASE AddAdjacency(th) \/ RemoveAdjacency(th) \/ EraseLists(th) \/ Count(th)
    BY <2>5, AddAdjacencyG1, RemoveAdjacencyG1, EraseListsG1, CountG1
  <2>6. CASE CheckOutgoing(th) \/ CheckIncoming(th)
    BY <2>6, CheckOutgoingG1, CheckIncomingG1
  <2> QED
    BY <2>1, <2>2, <2>3, <2>4, <2>5, <2>6 DEF Bystander
<1>6. IndexMoves(th) /\ FileKept(th)
  BY <1>3 DEF IndexMoves, FileKept
<1> QED
  BY <1>2, <1>3, <1>4, <1>5, <1>6 DEF Effects

LEMMA IdsKept ==
  ASSUME G1, UNCHANGED <<next_node_id, next_edge_id>>
  PROVE  Grow
BY DEF Grow, G1, GSTypeOK

LEMMA StepEffects ==
  ASSUME G1, NEW th \in Thread, Step(th)
  PROVE  Effects(th) /\ G1'
<1>1. /\ StoreOK /\ LocalTypes /\ CallOK(th) /\ pc \in [Thread -> Steps]
      /\ IndexTypes
  BY G1Facts DEF TypesButLocal
<1>2. CASE Bystander(th)
  BY <1>2, BystanderEffects
<1>3. CASE Allocate(th)
  <2>1. Others(th) /\ G1'
    BY <1>3, AllocateG1
  <2>2. PICK p \in Store!Page : Store!AllocatePage(p) /\ page' = [page EXCEPT ![th] = p]
    BY <1>3 DEF Allocate
  <2>3. p = next_page_id /\ next_page_id' = next_page_id + 1 /\ file' = file
    BY <1>1, <2>2, AllocateIsNew
  <2>4. UNCHANGED <<next_node_id, next_edge_id, node_page_index, edge_page_index>>
    BY <1>3 DEF Allocate, nodeVars, edgeVars
  <2>5. At(th, "allocate") /\ pc'[th] = "write" /\ page'[th] = next_page_id
    BY <1>1, <1>3, <2>2, <2>3 DEF Allocate, Goto, LocalTypes
  <2>6. Grow /\ IndexMoves(th) /\ FileKept(th)
    BY <2>3, <2>4, IdsKept DEF IndexMoves, FileKept
  <2> QED
    BY <2>1, <2>3, <2>5, <2>6 DEF Effects
<1>4. CASE Write(th)
  <2>1. Others(th) /\ G1'
    BY <1>4, WriteG1
  <2>2. Stored(th) \in PageImage /\ page[th] \in Store!Page
    <3>1. rec[th] \in PageImage /\ page[th] # 0
      BY <1>1, <1>4 DEF CallOK, RecOK, Write, At
    <3>2. call[th].value \in Value \cup {0}
      BY KeyTyped DEF CallRec
    <3> QED
      BY <3>1, <3>2, <1>1, Revalued DEF Stored, LocalTypes
  <2>3. file' = [file EXCEPT ![page[th]] = Stored(th)] /\ next_page_id' = next_page_id
    BY <1>1, <1>4, <2>2, WriteIsDone DEF Write, Stored
  <2>4. UNCHANGED <<next_node_id, next_edge_id, node_page_index, edge_page_index>>
        /\ UNCHANGED <<call, page, rec>> /\ pc'[th] = "index" /\ At(th, "write")
    BY <1>1, <1>4 DEF Write, nodeVars, edgeVars, threadVars, Goto
  <2>5. FileKept(th) /\ file'[page[th]] = Stored(th)
    BY <2>2, <2>3, <2>4, <1>1 DEF FileKept, StoreOK
  <2>6. Grow /\ IndexMoves(th)
    BY <2>4, IdsKept DEF IndexMoves
  <2> QED
    BY <2>1, <2>3, <2>4, <2>5, <2>6 DEF Effects
<1>5. CASE IndexNode(th)
  <2>1. Others(th) /\ G1' /\ pc'[th] \notin {"write", "index"}
    BY <1>5, IndexNodeG1
  <2>2. UNCHANGED <<next_node_id, next_edge_id, edge_page_index, file, next_page_id>>
    BY <1>5 DEF IndexNode, edgeVars, storeVars
  <2>3. node_page_index' = [node_page_index EXCEPT ![Key(th)] = page[th]]
        /\ At(th, "index") /\ ~ OnEdge(th)
    BY <1>5 DEF IndexNode
  <2>4. Grow /\ IndexMoves(th) /\ FileKept(th)
    BY <1>1, <2>2, <2>3, IdsKept DEF IndexMoves, FileKept, IndexTypes
  <2> QED
    BY <2>1, <2>2, <2>4 DEF Effects
<1>6. CASE IndexEdge(th)
  <2>1. Others(th) /\ G1' /\ pc'[th] \notin {"write", "index"}
    BY <1>6, IndexEdgeG1
  <2>2. UNCHANGED <<next_node_id, next_edge_id, node_page_index, file, next_page_id>>
    BY <1>6 DEF IndexEdge, nodeVars, storeVars
  <2>3. edge_page_index' = [edge_page_index EXCEPT ![Key(th)] = page[th]]
        /\ At(th, "index") /\ OnEdge(th)
    BY <1>6 DEF IndexEdge
  <2>4. Grow /\ IndexMoves(th) /\ FileKept(th)
    BY <1>1, <2>2, <2>3, IdsKept DEF IndexMoves, FileKept, IndexTypes
  <2> QED
    BY <2>1, <2>2, <2>4 DEF Effects
<1>7. CASE EraseNode(th)
  <2>1. Others(th) /\ G1' /\ pc'[th] \notin {"write", "index"}
    BY <1>7, EraseNodeG1
  <2>2. UNCHANGED <<next_node_id, next_edge_id, edge_page_index, file, next_page_id>>
    BY <1>7 DEF EraseNode, edgeVars, storeVars
  <2>3. node_page_index' = [node_page_index EXCEPT ![Key(th)] = 0]
        /\ At(th, "erase") /\ ~ OnEdge(th)
    BY <1>7 DEF EraseNode, OnEdge, EdgeOps
  <2>4. Grow /\ IndexMoves(th) /\ FileKept(th)
    BY <1>1, <2>2, <2>3, IdsKept DEF IndexMoves, FileKept, IndexTypes
  <2> QED
    BY <2>1, <2>2, <2>4 DEF Effects
<1>8. CASE EraseEdge(th)
  <2>1. Others(th) /\ G1' /\ pc'[th] \notin {"write", "index"}
    BY <1>8, EraseEdgeG1
  <2>2. UNCHANGED <<next_node_id, next_edge_id, node_page_index, file, next_page_id>>
    BY <1>8 DEF EraseEdge, nodeVars, storeVars
  <2>3. edge_page_index' = [edge_page_index EXCEPT ![Key(th)] = 0]
        /\ At(th, "erase") /\ OnEdge(th)
    BY <1>8 DEF EraseEdge, OnEdge, EdgeOps
  <2>4. Grow /\ IndexMoves(th) /\ FileKept(th)
    BY <1>1, <2>2, <2>3, IdsKept DEF IndexMoves, FileKept, IndexTypes
  <2> QED
    BY <2>1, <2>2, <2>4 DEF Effects
<1> QED
  BY <1>2, <1>3, <1>4, <1>5, <1>6, <1>7, <1>8 DEF Step, Bystander

----------------------------------------------------------------------------
(***************************************************************************)
(* Who owns a page: a record that an index points to, or the thread that   *)
(* is about to write or index it, and never two of them.                   *)
(***************************************************************************)
Writing(th) == pc[th] \in {"write", "index"}

BelowNext ==
    /\ \A n \in Node : node_page_index[n] < next_page_id
    /\ \A e \in Edge : edge_page_index[e] < next_page_id
    /\ \A th \in Thread : Writing(th) => page[th] < next_page_id

IndexesApart ==
    /\ \A m, n \in Nodes : node_page_index[m] = node_page_index[n] => m = n
    /\ \A d, e \in Edges : edge_page_index[d] = edge_page_index[e] => d = e
    /\ \A n \in Nodes, e \in Edges : node_page_index[n] # edge_page_index[e]

WritersApart ==
    \A th \in Thread :
        Writing(th) =>
            /\ \A n \in Node : node_page_index[n] # page[th]
            /\ \A e \in Edge : edge_page_index[e] # page[th]
            /\ \A u \in Thread : Writing(u) /\ page[u] = page[th] => u = th

Owned == BelowNext /\ IndexesApart /\ WritersApart

LEMMA OwnedInit == GSInit => Owned
BY DEF GSInit, Owned, BelowNext, IndexesApart, WritersApart, Writing, Nodes, Edges,
       Store!FPInitOn

LEMMA OwnedKept ==
  ASSUME G1, G1', Owned, NEW th \in Thread, Effects(th)
  PROVE  Owned'
<1>1. /\ Others(th) /\ IndexMoves(th) /\ next_page_id \in Nat
      /\ next_page_id <= next_page_id' /\ next_page_id' \in Nat
  BY DEF Effects, G1, StoreOK
<1>2. /\ pc'[th] = "write" => page'[th] = next_page_id /\ next_page_id < next_page_id'
      /\ pc'[th] = "index" => At(th, "write") /\ page'[th] = page[th]
  BY <1>1 DEF Effects
<1>3. /\ node_page_index \in [Node -> Store!Page \cup {0}]
      /\ edge_page_index \in [Edge -> Store!Page \cup {0}]
      /\ node_page_index' \in [Node -> Store!Page \cup {0}]
      /\ edge_page_index' \in [Edge -> Store!Page \cup {0}]
      /\ page \in [Thread -> Store!Page \cup {0}]
      /\ page' \in [Thread -> Store!Page \cup {0}]
  BY DEF G1, GSTypeOK
<1>4. \A p \in Store!Page : p \in Nat /\ p # 0
  BY DEF Store!Page
<1>5. \A u \in Thread \ {th} : Writing(u)' <=> Writing(u)
  BY <1>1 DEF Others, Writing
<1>6. \A u \in Thread \ {th} : page'[u] = page[u]
  BY <1>1 DEF Others
<1>7. Writing(th)' =>
          \/ page'[th] = next_page_id /\ next_page_id < next_page_id'
          \/ Writing(th) /\ page'[th] = page[th]
  BY <1>2 DEF Writing, At
<1>8. At(th, "index") => Writing(th) /\ ~ Writing(th)'
  <2>1. At(th, "index") => pc'[th] \notin {"write", "index"}
    BY DEF At, Effects
  <2> QED
    BY <2>1 DEF At, Writing
<1>9. \A n \in Node :
          \/ node_page_index'[n] = node_page_index[n]
          \/ node_page_index'[n] = 0
          \/ /\ n = Key(th) /\ node_page_index'[n] = page[th] /\ At(th, "index")
             /\ ~ OnEdge(th)
  BY <1>1 DEF IndexMoves
<1>10. \A e \in Edge :
          \/ edge_page_index'[e] = edge_page_index[e]
          \/ edge_page_index'[e] = 0
          \/ /\ e = Key(th) /\ edge_page_index'[e] = page[th] /\ At(th, "index")
             /\ OnEdge(th)
  BY <1>1 DEF IndexMoves
<1>11. BelowNext'
  <2>1. ASSUME NEW n \in Node PROVE node_page_index'[n] < next_page_id'
    BY <1>1, <1>3, <1>4, <1>8, <1>9 DEF Owned, BelowNext
  <2>2. ASSUME NEW e \in Edge PROVE edge_page_index'[e] < next_page_id'
    BY <1>1, <1>3, <1>4, <1>8, <1>10 DEF Owned, BelowNext
  <2>3. ASSUME NEW u \in Thread, Writing(u)' PROVE page'[u] < next_page_id'
    BY <1>1, <1>3, <1>4, <1>5, <1>6, <1>7, <2>3 DEF Owned, BelowNext
  <2> QED
    BY <2>1, <2>2, <2>3 DEF BelowNext
<1>12. IndexesApart'
  <2>1. ASSUME NEW m \in Node, NEW n \in Node, node_page_index'[m] # 0,
               node_page_index'[m] = node_page_index'[n]
        PROVE  m = n
    BY <1>8, <1>9, <2>1 DEF Owned, IndexesApart, WritersApart, Nodes
  <2>2. ASSUME NEW d \in Edge, NEW e \in Edge, edge_page_index'[d] # 0,
               edge_page_index'[d] = edge_page_index'[e]
        PROVE  d = e
    BY <1>8, <1>10, <2>2 DEF Owned, IndexesApart, WritersApart, Edges
  <2>3. ASSUME NEW n \in Node, NEW e \in Edge, node_page_index'[n] # 0,
               node_page_index'[n] = edge_page_index'[e]
        PROVE  FALSE
    BY <1>8, <1>9, <1>10, <2>3 DEF Owned, IndexesApart, WritersApart, Nodes, Edges
  <2> QED
    BY <2>1, <2>2, <2>3 DEF IndexesApart, Nodes, Edges
<1>13. WritersApart'
  <2> SUFFICES ASSUME NEW u \in Thread, Writing(u)'
               PROVE  /\ \A n \in Node : node_page_index'[n] # page'[u]
                      /\ \A e \in Edge : edge_page_index'[e] # page'[u]
                      /\ \A v \in Thread : Writing(v)' /\ page'[v] = page'[u] => v = u
    BY DEF WritersApart
  <2>1. page'[u] # 0
    BY DEF G1, CallsOK, CallOK, Writing
  <2>2. \/ u = th /\ page'[u] = next_page_id
        \/ Writing(u) /\ page'[u] = page[u]
    BY <1>5, <1>6, <1>7
  <2>3. ASSUME NEW n \in Node PROVE node_page_index'[n] # page'[u]
    <3>1. CASE node_page_index'[n] = node_page_index[n]
      BY <1>1, <1>3, <1>4, <2>2, <3>1 DEF Owned, BelowNext, WritersApart
    <3>2. CASE node_page_index'[n] = 0
      BY <2>1, <3>2
    <3>3. CASE node_page_index'[n] = page[th] /\ At(th, "index")
      BY <1>8, <2>2, <3>3 DEF Owned, WritersApart
    <3> QED
      BY <1>9, <3>1, <3>2, <3>3
  <2>4. ASSUME NEW e \in Edge PROVE edge_page_index'[e] # page'[u]
    <3>1. CASE edge_page_index'[e] = edge_page_index[e]
      BY <1>1, <1>3, <1>4, <2>2, <3>1 DEF Owned, BelowNext, WritersApart
    <3>2. CASE edge_page_index'[e] = 0
      BY <2>1, <3>2
    <3>3. CASE edge_page_index'[e] = page[th] /\ At(th, "index")
      BY <1>8, <2>2, <3>3 DEF Owned, WritersApart
    <3> QED
      BY <1>10, <3>1, <3>2, <3>3
  <2>5. ASSUME NEW v \in Thread, Writing(v)', page'[v] = page'[u] PROVE v = u
    <3>1. \/ v = th /\ page'[v] = next_page_id
          \/ Writing(v) /\ page'[v] = page[v]
      BY <1>5, <1>6, <1>7, <2>5
    <3>2. \A w \in Thread : Writing(w) => page[w] < next_page_id
      BY DEF Owned, BelowNext
    <3>3. page[u] \in Nat \/ page[u] = 0
      BY <1>3, <1>4
    <3>4. page[v] \in Nat \/ page[v] = 0
      BY <1>3, <1>4
    <3> QED
      BY <1>1, <2>2, <2>5, <3>1, <3>2, <3>3, <3>4 DEF Owned, WritersApart
  <2> QED
    BY <2>3, <2>4, <2>5
<1> QED
  BY <1>11, <1>12, <1>13 DEF Owned

(***************************************************************************)
(* Whatever calls overlap, every record is on a page of its own, which no  *)
(* thread is writing: the page of a new version comes from allocate_page,  *)
(* and the index moves to it only after it is written                      *)
(* (graph_store.cpp:360-381).                                              *)
(***************************************************************************)
THEOREM PagesApart == GSSpec => []PagesNotShared
<1>1. GSInit => G1 /\ Owned
  BY G1Init, OwnedInit
<1>2. ASSUME G1, Owned, [GSNext]_gsVars PROVE G1' /\ Owned'
  <2>1. CASE UNCHANGED gsVars
    BY <1>2, <2>1, G1Step DEF gsVars, storeVars, nodeVars, edgeVars, threadVars, Owned,
       BelowNext, IndexesApart, WritersApart, Writing, Nodes, Edges
  <2>2. ASSUME NEW th \in Thread, NEW c \in Calls, Begin(th, c) PROVE G1' /\ Owned'
    BY <1>2, <2>2, BeginG1, BeginEffects, OwnedKept
  <2>3. ASSUME NEW th \in Thread, Step(th) PROVE G1' /\ Owned'
    BY <1>2, <2>3, StepEffects, OwnedKept
  <2> QED
    BY <1>2, <2>1, <2>2, <2>3 DEF GSNext
<1>3. ASSUME Owned PROVE PagesNotShared
  <2> SUFFICES ASSUME NEW a \in PageUses, NEW b \in PageUses, a[3] = b[3] PROVE a = b
    BY DEF PagesNotShared
  <2>1. /\ \/ \E n \in Nodes : a = <<"node", n, node_page_index[n]>>
           \/ \E e \in Edges : a = <<"edge", e, edge_page_index[e]>>
           \/ \E th \in Thread : a = <<"write", th, page[th]>> /\ Writing(th)
        /\ \/ \E n \in Nodes : b = <<"node", n, node_page_index[n]>>
           \/ \E e \in Edges : b = <<"edge", e, edge_page_index[e]>>
           \/ \E th \in Thread : b = <<"write", th, page[th]>> /\ Writing(th)
    BY DEF PageUses, Nodes, Edges, Writing
  <2> QED
    BY <1>3, <2>1 DEF Owned, IndexesApart, WritersApart, Nodes, Edges
<1> QED
  BY <1>1, <1>2, <1>3, PTL DEF GSSpec

----------------------------------------------------------------------------
(***************************************************************************)
(* What the pages hold.  A record is on the page its index names from the  *)
(* moment the index names it, whatever calls overlap.                      *)
(***************************************************************************)
Kinds ==
    /\ \A n \in Nodes : NodeImage(n).kind = "node"
    /\ \A e \in Edges : EdgeImage(e).kind = "edge"
    /\ \A th \in Thread : At(th, "index") => file[page[th]] = Stored(th)

Creates == {"create_node", "create_edge"}

\* An identifier not yet handed out has no record, and no two calls create the same.
FreshKeys ==
    /\ \A n \in Node : n >= next_node_id => node_page_index[n] = 0
    /\ \A e \in Edge : e >= next_edge_id => edge_page_index[e] = 0
    /\ \A t, u \in Thread : t # u /\ Op(t) \in Creates /\ Op(u) = Op(t) /\ Key(t) # 0
                                 => Key(u) # Key(t)

(***************************************************************************)
(* And unless conflicting calls have overlapped: no two calls conflict,    *)
(* and a call may rely on the record it looked up until it returns.        *)
(***************************************************************************)
Peace ==
    \A t, u \in Thread : t # u =>
        /\ Op(t) \in Rewrites => Op(u) \notin Reads
        /\ Op(t) = "delete_edge" /\ Op(u) = "create_edge" => Key(u) # Key(t)
        /\ Op(t) = "delete_node" =>
               /\ Op(u) \in {"create_node", "update_node", "delete_node"} => Key(u) # Key(t)
               /\ Op(u) = "create_edge" => Key(t) \notin {call[u].from, call[u].to}

\* The record stored has the ends the call believes it has.
SameEnds(th) ==
    OnEdge(th) => /\ EdgeImage(Key(th)).from = rec[th].from
                  /\ EdgeImage(Key(th)).to = rec[th].to

Relies(th) ==
    /\ Op(th) \in Creates /\ pc[th] \in {"allocate", "write", "index"} => PageOf(th) = 0
    /\ Op(th) \in Creates /\ pc[th] \in {"adjacency", "count"} => PageOf(th) # 0 /\ SameEnds(th)
    /\ Op(th) \in Rewrites /\ pc[th] \in {"read", "parse"} =>
           PageOf(th) # 0 /\ page[th] = PageOf(th)
    /\ Op(th) \in Rewrites /\ At(th, "parse") => seen[th] = {file[page[th]]}
    /\ Op(th) \in Rewrites /\ pc[th] \in {"allocate", "write", "index", "adjacency", "erase"} =>
           PageOf(th) # 0 /\ rec[th].id = Key(th) /\ SameEnds(th)
    /\ Op(th) \in {"delete_node", "delete_edge"} /\ pc[th] \in {"erase_lists", "count"} =>
           PageOf(th) = 0

Ids == /\ \A n \in Nodes : NodeImage(n).id = n
       /\ \A e \in Edges : EdgeImage(e).id = e

Calm == Peace /\ Ids /\ \A th \in Thread : Relies(th)

G2 == G1 /\ Owned /\ Kinds /\ FreshKeys /\ (raced \/ Calm)

\* The lists of delete_node's node, once it has looked at them.
Emptied ==
    \A th \in Thread :
        /\ Op(th) = "delete_node" /\ pc[th] \in {"incoming", "erase", "erase_lists"} =>
               outgoing_edges[Key(th)] = {}
        /\ Op(th) = "delete_node" /\ pc[th] \in {"erase", "erase_lists"} =>
               incoming_edges[Key(th)] = {}

\* A call between its step on the index of edges and the one on the lists.
Unlinked(th) ==
    \/ Op(th) = "create_edge" /\ At(th, "adjacency")
    \/ Op(th) = "delete_edge" /\ At(th, "erase")

\* An edge that is stored and not (or no longer) listed with its ends.
Unlisted(e) == \E th \in Thread : Key(th) = e /\ Unlinked(th)

ListedAt(n, e) ==
    /\ e \in outgoing_edges[n] <=> e \in Edges /\ EdgeImage(e).from = n /\ ~ Unlisted(e)
    /\ e \in incoming_edges[n] <=> e \in Edges /\ EdgeImage(e).to = n /\ ~ Unlisted(e)

Listed == \A n \in Node, e \in Edge : ListedAt(n, e)

G3 == G2 /\ (raced \/ (Emptied /\ Listed))

\* The records the counters have counted: some are stored already and not yet
\* counted, some are erased and still counted.
Does(th, ops, steps, k) == Key(th) = k /\ Op(th) \in ops /\ pc[th] \in steps
Doing(ops, steps) == {k \in Id : \E th \in Thread : Does(th, ops, steps, k)}

CountedEdges == (Edges \ Doing({"create_edge"}, {"adjacency", "count"}))
                    \cup Doing({"delete_edge"}, {"count"})
CountedNodes == (Nodes \ Doing({"create_node"}, {"count"}))
                    \cup Doing({"delete_node"}, {"erase_lists", "count"})

CountsRight ==
    /\ edge_count = Cardinality(CountedEdges)
    /\ absent < CountLimit
    /\ node_count = (Cardinality(CountedNodes) + CountLimit - absent) % CountLimit

G4 == G3 /\ (raced \/ CountsRight)

----------------------------------------------------------------------------
\* A step leaves the caller's arguments alone, ends the call, or fetches its key.
Fetches(th) ==
    /\ At(th, "fetch") /\ pc'[th] = "allocate"
    /\ call'[th] = [call[th] EXCEPT !.key = IF OnEdge(th) THEN next_edge_id ELSE next_node_id]
    /\ IF OnEdge(th) THEN Op(th) = "create_edge" /\ next_edge_id' = next_edge_id + 1
                     ELSE Op(th) = "create_node" /\ next_node_id' = next_node_id + 1

CallMoves(th) ==
    \/ call'[th] = call[th] /\ pc[th] \notin {"idle", "fetch"} /\ pc'[th] \notin {"idle", "fetch"}
    \/ call'[th] = NoCall /\ pc'[th] = "idle"
    \/ Fetches(th)

LEMMA StepCalls ==
  ASSUME G1, NEW th \in Thread, Step(th)
  PROVE  CallMoves(th)
<1>1. /\ CallOK(th) /\ call \in [Thread -> CallRec] /\ pc \in [Thread -> Steps]
      /\ Op(th) \in Ops
  BY G1Facts, KeyTyped
<1>2. CASE FetchNodeId(th)
  <2>1. Op(th) = "create_node" /\ ~ OnEdge(th)
    BY <1>1, <1>2, OpAt DEF FetchNodeId, CallOK, At, OnEdge, EdgeOps
  <2> QED
    BY <1>1, <1>2, <2>1 DEF FetchNodeId, CallMoves, Fetches, Goto
<1>3. CASE FetchEdgeId(th)
  <2>1. Op(th) = "create_edge" /\ OnEdge(th)
    BY <1>1, <1>3, OpAt DEF FetchEdgeId, CallOK, At, OnEdge, EdgeOps
  <2> QED
    BY <1>1, <1>3, <2>1 DEF FetchEdgeId, CallMoves, Fetches, Goto
<1>4. CASE Allocate(th) \/ Write(th)
  <2>1. call' = call /\ pc[th] \in {"allocate", "write"} /\ pc'[th] \in {"write", "index"}
    BY <1>1, <1>4 DEF Allocate, Write, threadVars, Goto, At
  <2> QED
    BY <2>1 DEF CallMoves
<1>5. CASE IndexNode(th) \/ IndexEdge(th)
  <2>1. pc[th] = "index"
    BY <1>5 DEF IndexNode, IndexEdge, At
  <2>2. \/ pc'[th] \in {"count", "adjacency"} /\ UNCHANGED threadVars
        \/ pc'[th] = "idle" /\ call'[th] = NoCall
    BY <1>5, IndexNodeG1, IndexEdgeG1
  <2> QED
    BY <2>1, <2>2 DEF CallMoves, threadVars
<1>6. CASE Lookup(th)
  BY <1>6, LookupG1 DEF CallMoves, Lookup, At
<1>7. CASE Read(th)
  BY <1>7, ReadG1 DEF CallMoves, Read, At
<1>8. CASE Parse(th)
  BY <1>8, ParseG1 DEF CallMoves, Parse, At, ParsedOn
<1>9. CASE AddAdjacency(th) \/ RemoveAdjacency(th)
  BY <1>9, AddAdjacencyG1, RemoveAdjacencyG1 DEF CallMoves, AddAdjacency, RemoveAdjacency, At
<1>10. CASE CheckOutgoing(th) \/ CheckIncoming(th)
  BY <1>10, CheckOutgoingG1, CheckIncomingG1 DEF CallMoves, CheckOutgoing, CheckIncoming, At
<1>11. CASE EraseNode(th) \/ EraseLists(th) \/ EraseEdge(th)
  BY <1>11, EraseNodeG1, EraseListsG1, EraseEdgeG1
     DEF CallMoves, EraseNode, EraseLists, EraseEdge, At
<1>12. CASE Count(th)
  BY <1>12, CountG1 DEF CallMoves
<1> QED
  BY <1>2, <1>3, <1>4, <1>5, <1>6, <1>7, <1>8, <1>9, <1>10, <1>11, <1>12 DEF Step

\* A page that an index names is not written.
LEMMA ImagesKept ==
  ASSUME G1, Owned, NEW th \in Thread, Effects(th)
  PROVE  /\ \A n \in Nodes : file'[node_page_index[n]] = file[node_page_index[n]]
         /\ \A e \in Edges : file'[edge_page_index[e]] = file[edge_page_index[e]]
         /\ \A u \in Thread \ {th} : Writing(u) => file'[page[u]] = file[page[u]]
<1>1. /\ node_page_index \in [Node -> Store!Page \cup {0}]
      /\ edge_page_index \in [Edge -> Store!Page \cup {0}]
      /\ page \in [Thread -> Store!Page \cup {0}]
  BY DEF G1, GSTypeOK
<1>2. \A p \in Store!Page : file'[p] = file[p] \/ (Writing(th) /\ p = page[th])
  BY DEF Effects, FileKept, Writing, At
<1>3. ASSUME NEW n \in Nodes PROVE file'[node_page_index[n]] = file[node_page_index[n]]
  BY <1>1, <1>2 DEF Owned, WritersApart, Nodes
<1>4. ASSUME NEW e \in Edges PROVE file'[edge_page_index[e]] = file[edge_page_index[e]]
  BY <1>1, <1>2 DEF Owned, WritersApart, Edges
<1>5. ASSUME NEW u \in Thread, u # th, Writing(u) PROVE file'[page[u]] = file[page[u]]
  <2>1. page[u] # 0
    BY <1>5 DEF G1, CallsOK, CallOK, Writing
  <2> QED
    BY <1>1, <1>2, <1>5, <2>1 DEF Owned, WritersApart
<1> QED
  BY <1>3, <1>4, <1>5

\* What a thread has stored is of its call's kind, with its record's fields.
LEMMA StoredIs ==
  ASSUME G1, NEW th \in Thread, pc[th] \in {"write", "index"}
  PROVE  /\ Stored(th).kind = KindOf(Op(th)) /\ Stored(th).id = rec[th].id
         /\ Stored(th).from = rec[th].from /\ Stored(th).to = rec[th].to
<1>1. rec[th] \in PageImage /\ rec[th].kind = KindOf(Op(th))
  BY G1Facts DEF CallOK, RecOK
<1>2. call[th].value \in Value \cup {0}
  BY KeyTyped DEF CallRec
<1> QED
  BY <1>1, <1>2, Revalued DEF Stored

LEMMA KindsInit == GSInit => Kinds
BY DEF GSInit, Kinds, Nodes, Edges, At

LEMMA KindsKept ==
  ASSUME G1, Owned, Kinds, NEW th \in Thread, Effects(th)
  PROVE  Kinds'
<1>1. /\ \A n \in Nodes : file'[node_page_index[n]] = file[node_page_index[n]]
      /\ \A e \in Edges : file'[edge_page_index[e]] = file[edge_page_index[e]]
      /\ \A u \in Thread \ {th} : Writing(u) => file'[page[u]] = file[page[u]]
  BY ImagesKept
<1>2. At(th, "index") =>
          /\ page[th] \in Store!Page /\ file'[page[th]] = file[page[th]]
          /\ file[page[th]].kind = KindOf(Op(th))
  <2> SUFFICES ASSUME At(th, "index")
               PROVE  /\ page[th] \in Store!Page /\ file'[page[th]] = file[page[th]]
                      /\ file[page[th]].kind = KindOf(Op(th))
    OBVIOUS
  <2>1. page[th] \in Store!Page
    BY G1Facts DEF CallOK, At, LocalTypes
  <2>2. file'[page[th]] = file[page[th]]
    BY <2>1 DEF Effects, FileKept, At
  <2> QED
    BY <2>1, <2>2, StoredIs DEF At, Kinds
<1>3. ASSUME NEW n \in Node, node_page_index'[n] # 0
      PROVE  file'[node_page_index'[n]].kind = "node"
  <2>1. CASE node_page_index'[n] = node_page_index[n]
    BY <1>1, <1>3, <2>1 DEF Kinds, Nodes, NodeImage
  <2>2. CASE ~ OnEdge(th) /\ At(th, "index") /\ node_page_index'[n] = page[th]
    BY <1>2, <2>2 DEF KindOf, OnEdge
  <2> QED
    BY <1>3, <2>1, <2>2 DEF Effects, IndexMoves
<1>4. ASSUME NEW e \in Edge, edge_page_index'[e] # 0
      PROVE  file'[edge_page_index'[e]].kind = "edge"
  <2>1. CASE edge_page_index'[e] = edge_page_index[e]
    BY <1>1, <1>4, <2>1 DEF Kinds, Edges, EdgeImage
  <2>2. CASE OnEdge(th) /\ At(th, "index") /\ edge_page_index'[e] = page[th]
    BY <1>2, <2>2 DEF KindOf, OnEdge
  <2> QED
    BY <1>4, <2>1, <2>2 DEF Effects, IndexMoves
<1>5. ASSUME NEW u \in Thread, pc'[u] = "index"
      PROVE  file'[page'[u]] = [rec'[u] EXCEPT !.value = call'[u].value]
  <2>1. CASE u = th
    BY <1>5, <2>1 DEF Effects, Stored
  <2>2. CASE u # th
    BY <1>1, <1>5, <2>2 DEF Effects, Others, Stored, Kinds, Writing, At
  <2> QED
    BY <2>1, <2>2
<1> QED
  BY <1>3, <1>4, <1>5 DEF Kinds, Nodes, Edges, NodeImage, EdgeImage, At, Stored

\* A call's key has been handed out.
LEMMA KeyIsOld ==
  ASSUME G1, NEW th \in Thread
  PROVE  /\ Key(th) \in Nat
         /\ OnEdge(th) => Key(th) < next_edge_id
         /\ ~ OnEdge(th) => Key(th) < next_node_id
         /\ pc[th] \in {"idle", "fetch"} <=> Key(th) = 0
<1>1. KeyOK(th) /\ next_node_id \in Nat \ {0} /\ next_edge_id \in Nat \ {0}
  BY G1Facts DEF CallOK, TypesButLocal, IdTypes
<1> QED
  BY <1>1 DEF KeyOK

LEMMA IndexMovesAtOld ==
  ASSUME G1, G1', FreshKeys, NEW th \in Thread, Effects(th)
  PROVE  /\ \A n \in Node : n >= next_node_id' => node_page_index'[n] = 0
         /\ \A e \in Edge : e >= next_edge_id' => edge_page_index'[e] = 0
<1>1. /\ next_node_id <= next_node_id' /\ next_edge_id <= next_edge_id'
      /\ next_node_id \in Nat /\ next_edge_id \in Nat
      /\ next_node_id' \in Nat /\ next_edge_id' \in Nat
      /\ \A n \in Node \cup Edge : n \in Nat
  BY DEF Effects, Grow, G1, GSTypeOK, Node, Edge
<1>2. /\ ~ OnEdge(th) => Key(th) < next_node_id
      /\ OnEdge(th) => Key(th) < next_edge_id
      /\ Key(th) \in Nat
  BY KeyIsOld
<1>3. ASSUME NEW n \in Node, n >= next_node_id' PROVE node_page_index'[n] = 0
  <2>1. n >= next_node_id /\ (OnEdge(th) \/ n # Key(th))
    BY <1>1, <1>2, <1>3
  <2> QED
    BY <2>1 DEF Effects, IndexMoves, FreshKeys
<1>4. ASSUME NEW e \in Edge, e >= next_edge_id' PROVE edge_page_index'[e] = 0
  <2>1. e >= next_edge_id /\ (~ OnEdge(th) \/ e # Key(th))
    BY <1>1, <1>2, <1>4
  <2> QED
    BY <2>1 DEF Effects, IndexMoves, FreshKeys
<1> QED
  BY <1>3, <1>4

LEMMA FreshKeysInit == GSInit => FreshKeys
BY DEF GSInit, FreshKeys, Op, NoCall, Creates

LEMMA FreshKeysBegin ==
  ASSUME G1, FreshKeys, NEW th \in Thread, NEW c \in Calls, Begin(th, c)
  PROVE  FreshKeys'
<1>1. G1' /\ Effects(th)
  BY BeginG1, BeginEffects
<1>2. call'[th] = c /\ (c.op \in Creates => c.key = 0)
  BY DEF Begin, G1, CallsOK, Calls, Creates
<1>3. \A u \in Thread \ {th} : call'[u] = call[u]
  BY <1>1 DEF Effects, Others
<1>4. ASSUME NEW t \in Thread, NEW u \in Thread, t # u, call'[t].op \in Creates,
             call'[u].op = call'[t].op, call'[t].key # 0
      PROVE  call'[u].key # call'[t].key
  <2>1. t # th
    BY <1>2, <1>4
  <2>2. CASE u = th
    BY <1>2, <1>4, <2>2
  <2>3. CASE u # th
    BY <1>3, <1>4, <2>1, <2>3 DEF FreshKeys, Op, Key
  <2> QED
    BY <2>2, <2>3
<1> QED
  BY <1>1, <1>4, IndexMovesAtOld DEF FreshKeys, Op, Key

LEMMA FreshKeysStep ==
  ASSUME G1, FreshKeys, NEW th \in Thread, Step(th)
  PROVE  FreshKeys'
<1>1. G1' /\ Effects(th) /\ CallMoves(th)
  BY StepEffects, StepCalls
<1>2. \A u \in Thread \ {th} : call'[u] = call[u]
  BY <1>1 DEF Effects, Others
<1>3. call \in [Thread -> CallRec]
  BY G1Facts
<1>4. Fetches(th) => /\ call'[th].op = Op(th)
                     /\ call'[th].key = IF OnEdge(th) THEN next_edge_id ELSE next_node_id
  BY <1>3 DEF Fetches, CallRec, Op
<1>5. ASSUME NEW u \in Thread, u # th, Fetches(th), call[u].op = Op(th)
      PROVE  call[u].key # call'[th].key
  <2>1. OnEdge(u) <=> OnEdge(th)
    BY <1>5 DEF OnEdge, Op
  <2>2. /\ Key(u) \in Nat /\ (OnEdge(u) => Key(u) < next_edge_id)
        /\ (~ OnEdge(u) => Key(u) < next_node_id)
        /\ next_edge_id \in Nat /\ next_node_id \in Nat
    BY KeyIsOld, G1Facts DEF TypesButLocal, IdTypes
  <2> QED
    BY <1>4, <1>5, <2>1, <2>2 DEF Key
<1>6. ASSUME NEW t \in Thread, NEW u \in Thread, t # u, call'[t].op \in Creates,
             call'[u].op = call'[t].op, call'[t].key # 0
      PROVE  call'[u].key # call'[t].key
  <2>1. NoCall.op \notin Creates
    BY DEF NoCall, Creates
  <2>2. CASE t # th /\ u # th
    BY <1>2, <1>6, <2>2 DEF FreshKeys, Op, Key
  <2>3. CASE call'[th] = call[th]
    BY <1>2, <1>6, <2>3 DEF FreshKeys, Op, Key
  <2>4. CASE call'[th] = NoCall
    BY <1>6, <2>1, <2>2, <2>4
  <2>5. CASE Fetches(th)
    BY <1>2, <1>4, <1>5, <1>6, <2>2, <2>5
  <2> QED
    BY <1>1, <2>3, <2>4, <2>5 DEF CallMoves
<1> QED
  BY <1>1, <1>6, IndexMovesAtOld DEF FreshKeys, Op, Key

LEMMA PeaceInit == GSInit => Peace
BY DEF GSInit, Peace, Op, NoCall, Rewrites

LEMMA PeaceBegin ==
  ASSUME G1, Peace, NEW th \in Thread, NEW c \in Calls, Begin(th, c), ~ raced'
  PROVE  Peace'
<1>1. call' = [call EXCEPT ![th] = c] /\ call \in [Thread -> CallRec]
  BY G1Facts DEF Begin
<1>2. \A u \in Thread \ {th} : ~ Conflict(c, call[u]) /\ ~ Conflict(call[u], c)
  BY DEF Begin
<1>3. ASSUME NEW t \in Thread, NEW u \in Thread, t # u
      PROVE  /\ call'[t].op \in Rewrites => call'[u].op \notin Reads
             /\ call'[t].op = "delete_edge" /\ call'[u].op = "create_edge" =>
                    call'[u].key # call'[t].key
             /\ call'[t].op = "delete_node" =>
                    /\ call'[u].op \in {"create_node", "update_node", "delete_node"} =>
                           call'[u].key # call'[t].key
                    /\ call'[u].op = "create_edge" =>
                           call'[t].key \notin {call'[u].from, call'[u].to}
  <2>1. CASE t # th /\ u # th
    BY <1>1, <1>3, <2>1 DEF Peace, Op, Key
  <2>2. CASE t = th /\ u # th
    BY <1>1, <1>2, <2>2 DEF Conflict, TouchesNode
  <2>3. CASE u = th /\ t # th
    BY <1>1, <1>2, <2>3 DEF Conflict, TouchesNode
  <2> QED
    BY <1>3, <2>1, <2>2, <2>3
<1> QED
  BY <1>3 DEF Peace, Op, Key

LEMMA PeaceStep ==
  ASSUME G1, Peace, NEW th \in Thread, Step(th)
  PROVE  Peace'
<1>1. Effects(th) /\ CallMoves(th)
  BY StepEffects, StepCalls
<1>2. \A u \in Thread \ {th} : call'[u] = call[u]
  BY <1>1 DEF Effects, Others
<1>3. call \in [Thread -> CallRec]
  BY G1Facts
<1>4. CASE call'[th] = call[th]
  BY <1>2, <1>4 DEF Peace, Op, Key
<1>5. CASE call'[th] = NoCall
  <2>1. NoCall.op = "none"
    BY DEF NoCall
  <2> QED
    BY <1>2, <1>5, <2>1 DEF Peace, Op, Key, Rewrites, Reads
<1>6. CASE Fetches(th)
  <2>1. /\ call'[th].op = Op(th) /\ call'[th].from = call[th].from /\ call'[th].to = call[th].to
        /\ call'[th].key = IF OnEdge(th) THEN next_edge_id ELSE next_node_id
        /\ Op(th) = IF OnEdge(th) THEN "create_edge" ELSE "create_node"
    BY <1>3, <1>6 DEF Fetches, CallRec, Op
  <2>2. ASSUME NEW u \in Thread, u # th, OnEdge(u) <=> OnEdge(th)
        PROVE  call[u].key # call'[th].key
    <3>1. /\ Key(u) \in Nat /\ (OnEdge(u) => Key(u) < next_edge_id)
          /\ (~ OnEdge(u) => Key(u) < next_node_id)
          /\ next_edge_id \in Nat /\ next_node_id \in Nat
      BY KeyIsOld, G1Facts DEF TypesButLocal, IdTypes
    <3> QED
      BY <2>1, <2>2, <3>1 DEF Key
  <2>3. ASSUME NEW t \in Thread, NEW u \in Thread, t # u
        PROVE  /\ call'[t].op \in Rewrites => call'[u].op \notin Reads
               /\ call'[t].op = "delete_edge" /\ call'[u].op = "create_edge" =>
                      call'[u].key # call'[t].key
               /\ call'[t].op = "delete_node" =>
                      /\ call'[u].op \in {"create_node", "update_node", "delete_node"} =>
                             call'[u].key # call'[t].key
                      /\ call'[u].op = "create_edge" =>
                             call'[t].key \notin {call'[u].from, call'[u].to}
    <3>1. CASE t # th /\ u # th
      BY <1>2, <2>3, <3>1 DEF Peace, Op, Key
    <3>2. CASE t = th /\ u # th
      BY <2>1, <3>2 DEF Rewrites
    <3>3. CASE u = th /\ t # th
      BY <1>2, <2>1, <2>2, <3>3 DEF Peace, Op, Key, OnEdge, EdgeOps, Reads, Rewrites
    <3> QED
      BY <2>3, <3>1, <3>2, <3>3
  <2> QED
    BY <2>3 DEF Peace, Op, Key
<1> QED
  BY <1>1, <1>4, <1>5, <1>6 DEF CallMoves

----------------------------------------------------------------------------
(***************************************************************************)
(* A call relies on its record while others take steps: whoever moves the  *)
(* index at its key would conflict with it, but an update beside the       *)
(* create_edge that has indexed the edge, which keeps the ends.            *)
(***************************************************************************)
LEMMA PageOfMoves ==
  ASSUME G1, NEW th \in Thread, Effects(th), NEW u \in Thread, u # th,
         pc[u] \notin {"idle", "fetch"}
  PROVE  /\ PageOf(u)' = IF OnEdge(u) THEN edge_page_index'[Key(u)] ELSE node_page_index'[Key(u)]
         /\ \/ PageOf(u)' = PageOf(u)
            \/ /\ Key(u) = Key(th) /\ OnEdge(u) = OnEdge(th) /\ PageOf(u) = PageOf(th)
               /\ \/ At(th, "index") /\ PageOf(u)' = page[th]
                  \/ At(th, "erase") /\ PageOf(u)' = 0
<1>1. call'[u] = call[u] /\ IndexMoves(th)
  BY DEF Effects, Others
<1>2. Key(u) \in IF OnEdge(u) THEN Edge ELSE Node
  BY KeyTyped
<1>3. PageOf(u)' = IF OnEdge(u) THEN edge_page_index'[Key(u)] ELSE node_page_index'[Key(u)]
  BY <1>1 DEF PageOf, Key, OnEdge, Op
<1>4. OnEdge(u) \in BOOLEAN /\ OnEdge(th) \in BOOLEAN
  BY DEF OnEdge
<1>5. CASE OnEdge(u)
  BY <1>1, <1>2, <1>3, <1>5 DEF IndexMoves, PageOf, OnEdge
<1>6. CASE ~ OnEdge(u)
  BY <1>1, <1>2, <1>3, <1>6 DEF IndexMoves, PageOf, OnEdge
<1> QED
  BY <1>3, <1>5, <1>6

\* What the mover is doing, and with it what it cannot be to the other call.
LEMMA MoverIs ==
  ASSUME G1, NEW th \in Thread
  PROVE  /\ At(th, "index") =>
                /\ Op(th) \in {"create_node", "create_edge", "update_node", "update_edge"}
                /\ page[th] \in Store!Page /\ page[th] # 0
         /\ At(th, "erase") => Op(th) \in {"delete_node", "delete_edge"}
         /\ At(th, "read") => Op(th) \in Reads
<1>1. CallOK(th) /\ Op(th) \in Ops /\ LocalTypes
  BY G1Facts, KeyTyped
<1> QED
  BY <1>1, OpAt DEF CallOK, At, LocalTypes

LEMMA MoverConflicts ==
  ASSUME G1, FreshKeys, Peace, NEW th \in Thread, NEW u \in Thread, u # th,
         Relies(th), Relies(u), Key(u) = Key(th), OnEdge(u) = OnEdge(th), PageOf(u) = PageOf(th),
         At(th, "index") \/ At(th, "erase"), pc[u] \notin {"idle", "fetch"}
  PROVE  /\ Op(u) \in Creates /\ pc[u] \in {"allocate", "write", "index"} => FALSE
         /\ Op(u) \in Rewrites /\ pc[u] \in {"read", "parse", "allocate", "write", "index",
                                            "adjacency", "erase"} => FALSE
         /\ Op(u) \in {"delete_node", "delete_edge"} => FALSE
         /\ Op(u) \in Creates /\ pc[u] \in {"adjacency", "count"} =>
                /\ At(th, "index") /\ Op(th) \in Rewrites
<1>1. /\ Op(u) \in Ops /\ Op(th) \in Ops
      /\ OnEdge(u) <=> Op(u) \in EdgeOps
      /\ OnEdge(th) <=> Op(th) \in EdgeOps
      /\ Key(u) # 0
  BY KeyTyped, KeyIsOld DEF OnEdge
<1>2. Op(u) \in Creates => Op(th) # Op(u)
  BY <1>1 DEF FreshKeys
<1>3. CASE Op(th) \in Creates /\ At(th, "index")
  <2>1. PageOf(u) = 0
    BY <1>3 DEF Relies, At
  <2>2. Op(u) \notin Creates
    BY <1>1, <1>2, <1>3 DEF Creates, EdgeOps
  <2>3. Op(u) \notin {"delete_node", "delete_edge"}
    BY <1>1, <1>3 DEF Peace, Creates, EdgeOps
  <2> QED
    BY <2>1, <2>2, <2>3 DEF Relies, At
<1>4. CASE Op(th) \in {"update_node", "update_edge"} /\ At(th, "index")
  <2>1. PageOf(u) # 0 /\ Op(th) \in Rewrites
    BY <1>4 DEF Relies, At, Rewrites
  <2>2. Op(u) \notin Reads /\ Op(u) \notin Rewrites
    BY <2>1 DEF Peace, Reads
  <2>3. Op(u) \notin {"delete_node", "delete_edge"}
    BY <1>1, <1>4, <2>2 DEF Peace, Rewrites, EdgeOps
  <2> QED
    BY <1>4, <2>1, <2>2, <2>3 DEF Relies
<1>5. CASE Op(th) = "delete_node" /\ At(th, "erase")
  <2>1. Op(u) \notin {"create_node", "update_node", "delete_node"} /\ Op(u) \notin EdgeOps
    BY <1>1, <1>5 DEF Peace, EdgeOps
  <2> QED
    BY <2>1 DEF Creates, Rewrites, EdgeOps
<1>6. CASE Op(th) = "delete_edge" /\ At(th, "erase")
  <2>1. Op(u) \notin Reads /\ Op(u) # "create_edge" /\ Op(u) \in EdgeOps
    BY <1>1, <1>6 DEF Peace, Rewrites, EdgeOps
  <2> QED
    BY <2>1 DEF Creates, Rewrites, EdgeOps, Reads
<1> QED
  BY <1>3, <1>4, <1>5, <1>6, MoverIs DEF Creates

\* The ends of a record hold while its index and page do.
LEMMA EndsKept ==
  ASSUME G1, Owned, NEW th \in Thread, Effects(th), NEW u \in Thread, u # th,
         pc[u] \notin {"idle", "fetch"}, PageOf(u) # 0, PageOf(u)' = PageOf(u), SameEnds(u)
  PROVE  SameEnds(u)'
<1>1. call'[u] = call[u] /\ rec'[u] = rec[u]
  BY DEF Effects, Others
<1>2. CASE OnEdge(u)
  <2>1. Key(u) \in Edges /\ edge_page_index'[Key(u)] = edge_page_index[Key(u)]
    BY <1>2, KeyTyped, PageOfMoves DEF PageOf, Edges
  <2> QED
    BY <1>1, <1>2, <2>1, ImagesKept DEF SameEnds, EdgeImage, Key, OnEdge, Op
<1>3. CASE ~ OnEdge(u)
  BY <1>1, <1>3 DEF SameEnds, OnEdge, Op
<1> QED
  BY <1>2, <1>3

\* A read shows in the spans of others only.
SeenMoves(th) == \A u \in Thread \ {th} : seen'[u] = seen[u] \/ At(th, "read")

LEMMA StepSeen ==
  ASSUME G1, NEW th \in Thread, Step(th)
  PROVE  SeenMoves(th)
<1>1. seen \in [Thread -> SUBSET (PageImage \cup {Blank})]
  BY DEF G1, GSTypeOK
<1>2. CASE Return(th)
  BY <1>1, <1>2 DEF Return, SeenMoves
<1>3. CASE At(th, "read")
  BY <1>3 DEF SeenMoves
<1>4. CASE ~ Return(th) /\ ~ At(th, "read")
  <2>1. seen' = seen \/ seen' = [seen EXCEPT ![th] = {}]
    <3>1. CASE FetchNodeId(th) \/ FetchEdgeId(th) \/ Allocate(th) \/ Write(th)
      BY <3>1 DEF FetchNodeId, FetchEdgeId, Allocate, Write, threadVars
    <3>2. CASE IndexNode(th) \/ IndexEdge(th) \/ Lookup(th) \/ Parse(th)
      BY <1>4, <3>2 DEF IndexNode, IndexEdge, Lookup, Parse, threadVars
    <3>3. CASE AddAdjacency(th) \/ RemoveAdjacency(th) \/ CheckOutgoing(th)
               \/ CheckIncoming(th) \/ EraseNode(th) \/ EraseLists(th) \/ EraseEdge(th)
      BY <1>4, <3>3 DEF AddAdjacency, RemoveAdjacency, CheckOutgoing, CheckIncoming,
         EraseNode, EraseLists, EraseEdge, threadVars
    <3>4. CASE Read(th) \/ Count(th)
      BY <1>4, <3>4 DEF Read, Count
    <3> QED
      BY <3>1, <3>2, <3>3, <3>4 DEF Step
  <2> QED
    BY <1>1, <2>1 DEF SeenMoves
<1> QED
  BY <1>2, <1>3, <1>4

LEMMA ReliesOther ==
  ASSUME G1, Owned, Kinds, FreshKeys, Peace, NEW th \in Thread, Relies(th), Effects(th),
         SeenMoves(th), NEW u \in Thread, u # th, Relies(u)
  PROVE  Relies(u)'
<1>1. /\ call'[u] = call[u] /\ pc'[u] = pc[u] /\ page'[u] = page[u] /\ rec'[u] = rec[u]
  BY DEF Effects, Others
<1>2. CASE pc[u] \in {"idle", "fetch"}
  BY <1>1, <1>2 DEF Relies, At, Op
<1>3. CASE pc[u] \notin {"idle", "fetch"}
  <2> DEFINE Same == PageOf(u)' = PageOf(u)
             Moved == /\ Key(u) = Key(th) /\ OnEdge(u) = OnEdge(th) /\ PageOf(u) = PageOf(th)
                      /\ At(th, "index") \/ At(th, "erase")
                      /\ At(th, "index") => PageOf(u)' = page[th]
                      /\ At(th, "erase") => PageOf(u)' = 0
  <2>1. Same \/ Moved
    <3>1. ~ (At(th, "index") /\ At(th, "erase"))
      BY DEF At
    <3> QED
      BY <1>3, <3>1, PageOfMoves
  <2>2. Op(u)' = Op(u) /\ Key(u)' = Key(u) /\ OnEdge(u)' = OnEdge(u)
    BY <1>1 DEF Op, Key, OnEdge
  <2>3. Moved =>
            /\ Op(u) \in Creates /\ pc[u] \in {"allocate", "write", "index"} => FALSE
            /\ Op(u) \in Rewrites /\ pc[u] \in {"read", "parse", "allocate", "write", "index",
                                               "adjacency", "erase"} => FALSE
            /\ Op(u) \in {"delete_node", "delete_edge"} => FALSE
            /\ Op(u) \in Creates /\ pc[u] \in {"adjacency", "count"} =>
                   /\ At(th, "index") /\ Op(th) \in Rewrites
    BY <1>3, MoverConflicts
  <2> HIDE DEF Same, Moved
  <2>4. ASSUME Op(u) \in Creates, pc[u] \in {"adjacency", "count"}
        PROVE  PageOf(u)' # 0 /\ SameEnds(u)'
    <3>1. PageOf(u) # 0 /\ SameEnds(u)
      BY <2>4 DEF Relies
    <3>2. CASE Same
      BY <1>3, <3>1, <3>2, EndsKept DEF Same
    <3>3. CASE Moved
      <4>1. At(th, "index") /\ Op(th) \in Rewrites
        BY <2>3, <2>4, <3>3
      <4>2. PageOf(u)' = page[th] /\ page[th] # 0 /\ page[th] \in Store!Page
        BY <3>3, <4>1, MoverIs DEF Moved
      <4>3. CASE OnEdge(u)
        <5>1. Key(u) \in Edge /\ edge_page_index'[Key(u)] = page[th]
          BY <1>3, <4>2, <4>3, KeyTyped, PageOfMoves
        <5>2. file'[page[th]] = Stored(th)
          BY <4>1, <4>2 DEF Effects, FileKept, Kinds, At
        <5>3. Stored(th).from = rec[th].from /\ Stored(th).to = rec[th].to
          BY <4>1, StoredIs DEF At
        <5>4. /\ EdgeImage(Key(u)).from = rec[th].from /\ EdgeImage(Key(u)).to = rec[th].to
          BY <3>3, <4>1, <4>3 DEF Moved, Relies, At, SameEnds
        <5>5. EdgeImage(Key(u)).from = rec[u].from /\ EdgeImage(Key(u)).to = rec[u].to
          BY <3>1, <4>3 DEF SameEnds
        <5> QED
          BY <1>1, <2>2, <4>2, <5>1, <5>2, <5>3, <5>4, <5>5 DEF SameEnds, EdgeImage
      <4>4. CASE ~ OnEdge(u)
        BY <2>2, <4>2, <4>4 DEF SameEnds
      <4> QED
        BY <4>3, <4>4
    <3> QED
      BY <2>1, <3>2, <3>3
  <2>5. ASSUME Op(u) \in Creates, pc[u] \in {"allocate", "write", "index"}
        PROVE  PageOf(u)' = 0
    BY <2>1, <2>3, <2>5 DEF Relies, Same
  <2>6. ASSUME Op(u) \in Rewrites, pc[u] \in {"read", "parse"}
        PROVE  PageOf(u)' # 0 /\ page'[u] = PageOf(u)'
    BY <1>1, <2>1, <2>3, <2>6 DEF Relies, Same
  <2>7. ASSUME Op(u) \in Rewrites, At(u, "parse")
        PROVE  seen'[u] = {file'[page[u]]}
    <3>1. ~ At(th, "read")
      BY <2>7, MoverIs DEF Peace
    <3>2. seen'[u] = {file[page[u]]}
      BY <2>7, <3>1 DEF SeenMoves, Relies
    <3>3. PageOf(u) # 0 /\ page[u] = PageOf(u)
      BY <2>7 DEF Relies, At
    <3>4. file'[PageOf(u)] = file[PageOf(u)]
      BY <1>3, <3>3, KeyTyped, ImagesKept DEF PageOf, Nodes, Edges
    <3> QED
      BY <3>2, <3>3, <3>4
  <2>8. ASSUME Op(u) \in Rewrites, pc[u] \in {"allocate", "write", "index", "adjacency", "erase"}
        PROVE  PageOf(u)' # 0 /\ rec[u].id = Key(u) /\ SameEnds(u)'
    <3>1. Same
      BY <2>1, <2>3, <2>8
    <3>2. PageOf(u) # 0 /\ rec[u].id = Key(u) /\ SameEnds(u)
      BY <2>8 DEF Relies
    <3> QED
      BY <1>3, <3>1, <3>2, EndsKept DEF Same
  <2>9. ASSUME Op(u) \in {"delete_node", "delete_edge"}, pc[u] \in {"erase_lists", "count"}
        PROVE  PageOf(u)' = 0
    BY <2>1, <2>3, <2>9 DEF Relies, Same
  <2> QED
    BY <1>1, <2>2, <2>4, <2>5, <2>6, <2>7, <2>8, <2>9 DEF Relies, At
<1> QED
  BY <1>2, <1>3

\* The caller's own step.
LEMMA ReliesAtStart ==
  ASSUME NEW th \in Thread, pc'[th] \in {"idle", "fetch", "lookup", "outgoing", "incoming"}
  PROVE  Relies(th)'
BY DEF Relies, At

LEMMA OwnKept ==
  ASSUME G1, Owned, NEW th \in Thread, Effects(th), pc[th] \notin {"idle", "fetch"},
         call'[th] = call[th], UNCHANGED <<node_page_index, edge_page_index>>
  PROVE  /\ PageOf(th)' = PageOf(th)
         /\ Op(th)' = Op(th) /\ Key(th)' = Key(th)
         /\ PageOf(th) # 0 /\ SameEnds(th) /\ rec'[th] = rec[th] => SameEnds(th)'
         /\ PageOf(th) # 0 => file'[PageOf(th)] = file[PageOf(th)]
<1>1. PageOf(th)' = PageOf(th) /\ Op(th)' = Op(th) /\ Key(th)' = Key(th)
      /\ OnEdge(th)' = OnEdge(th)
  BY DEF PageOf, Key, OnEdge, Op
<1>2. ASSUME PageOf(th) # 0 PROVE file'[PageOf(th)] = file[PageOf(th)]
  BY <1>2, KeyTyped, ImagesKept DEF PageOf, Nodes, Edges
<1>3. ASSUME PageOf(th) # 0, SameEnds(th), rec'[th] = rec[th] PROVE SameEnds(th)'
  BY <1>1, <1>2, <1>3 DEF SameEnds, EdgeImage, PageOf
<1> QED
  BY <1>1, <1>2, <1>3

LEMMA ReliesOwn ==
  ASSUME G1, Owned, Kinds, FreshKeys, Ids, NEW th \in Thread, Relies(th), Step(th)
  PROVE  Relies(th)'
<1>1. Effects(th) /\ G1' /\ CallMoves(th)
  BY StepEffects, StepCalls
<1>2. /\ CallOK(th) /\ Op(th) \in Ops /\ call \in [Thread -> CallRec]
      /\ pc \in [Thread -> Steps] /\ IndexTypes
  BY G1Facts, KeyTyped DEF TypesButLocal
<1>3. CASE FetchNodeId(th)
  <2>1. /\ Op(th) = "create_node" /\ pc'[th] = "allocate" /\ next_node_id \in Node
        /\ call'[th] = [call[th] EXCEPT !.key = next_node_id]
        /\ node_page_index' = node_page_index
    <3>1. Op(th) = "create_node"
      BY <1>2, <1>3, OpAt DEF FetchNodeId, CallOK, At, OnEdge, EdgeOps
    <3> QED
      BY <1>2, <1>3, <3>1, BystanderEffects DEF FetchNodeId, Goto, Bystander
  <2>2. call'[th].op = "create_node" /\ call'[th].key = next_node_id
    BY <1>2, <2>1 DEF CallRec, Op
  <2>3. node_page_index[next_node_id] = 0
    BY <2>1 DEF FreshKeys, Node
  <2> QED
    BY <2>1, <2>2, <2>3 DEF Relies, At, Op, Key, PageOf, OnEdge, EdgeOps, Rewrites
<1>4. CASE FetchEdgeId(th)
  <2>1. /\ Op(th) = "create_edge" /\ pc'[th] = "allocate" /\ next_edge_id \in Edge
        /\ call'[th] = [call[th] EXCEPT !.key = next_edge_id]
        /\ edge_page_index' = edge_page_index
    <3>1. Op(th) = "create_edge"
      BY <1>2, <1>4, OpAt DEF FetchEdgeId, CallOK, At, OnEdge, EdgeOps
    <3> QED
      BY <1>2, <1>4, <3>1, BystanderEffects DEF FetchEdgeId, Goto, Bystander
  <2>2. call'[th].op = "create_edge" /\ call'[th].key = next_edge_id
    BY <1>2, <2>1 DEF CallRec, Op
  <2>3. edge_page_index[next_edge_id] = 0
    BY <2>1 DEF FreshKeys, Edge
  <2> QED
    BY <2>1, <2>2, <2>3 DEF Relies, At, Op, Key, PageOf, OnEdge, EdgeOps, Rewrites
<1>5. CASE Allocate(th) \/ Write(th)
  <2>1. /\ pc[th] \in {"allocate", "write"} /\ pc'[th] \in {"write", "index"}
        /\ call' = call /\ rec' = rec /\ UNCHANGED <<node_page_index, edge_page_index>>
    BY <1>2, <1>5 DEF Allocate, Write, At, Goto, threadVars, nodeVars, edgeVars
  <2>2. /\ PageOf(th)' = PageOf(th) /\ Op(th)' = Op(th) /\ Key(th)' = Key(th)
        /\ PageOf(th) # 0 /\ SameEnds(th) => SameEnds(th)'
    BY <1>1, <2>1, OwnKept
  <2> QED
    BY <2>1, <2>2 DEF Relies, At
<1>6. CASE IndexNode(th)
  <2>1. CASE Op(th) = "create_node"
    <3>1. /\ pc'[th] = "count" /\ call'[th] = call[th] /\ page[th] # 0 /\ Key(th) \in Node
      BY <1>2, <1>6, <2>1, IndexNodeG1, MoverIs DEF threadVars, IndexNode
    <3>2. node_page_index'[Key(th)] = page[th]
      BY <1>2, <1>6, <3>1 DEF IndexNode, IndexTypes
    <3> QED
      BY <2>1, <3>1, <3>2 DEF Relies, At, Op, Key, PageOf, OnEdge, EdgeOps, Rewrites, SameEnds
  <2>2. CASE Op(th) # "create_node"
    BY <1>6, <2>2, IndexNodeG1, ReliesAtStart
  <2> QED
    BY <2>1, <2>2
<1>7. CASE IndexEdge(th)
  <2>1. CASE Op(th) = "create_edge"
    <3>1. /\ pc'[th] = "adjacency" /\ call'[th] = call[th] /\ rec'[th] = rec[th]
          /\ page[th] # 0 /\ page[th] \in Store!Page /\ Key(th) \in Edge /\ pc[th] = "index"
      BY <1>2, <1>7, <2>1, IndexEdgeG1, MoverIs DEF threadVars, IndexEdge, At
    <3>2. edge_page_index'[Key(th)] = page[th]
      BY <1>2, <1>7, <3>1 DEF IndexEdge, IndexTypes
    <3>3. file'[page[th]] = Stored(th)
      BY <1>7, <3>1 DEF Kinds, At, IndexEdge, storeVars
    <3>4. Stored(th).from = rec[th].from /\ Stored(th).to = rec[th].to
      BY <3>1, StoredIs
    <3>5. /\ Op(th)' = "create_edge" /\ Key(th)' = Key(th) /\ OnEdge(th)'
      BY <2>1, <3>1 DEF Op, Key, OnEdge, EdgeOps
    <3>6. PageOf(th)' = page[th]
      BY <3>2, <3>5 DEF PageOf
    <3>7. SameEnds(th)'
      BY <3>1, <3>2, <3>3, <3>4, <3>5 DEF SameEnds, EdgeImage
    <3> QED
      BY <3>1, <3>5, <3>6, <3>7 DEF Relies, At, Rewrites
  <2>2. CASE Op(th) # "create_edge"
    BY <1>7, <2>2, IndexEdgeG1, ReliesAtStart
  <2> QED
    BY <2>1, <2>2
<1>8. CASE Lookup(th)
  <2>1. CASE pc'[th] = "idle"
    BY <2>1, ReliesAtStart
  <2>2. CASE pc'[th] # "idle"
    <3>1. /\ PageOf(th) \in Store!Page /\ pc'[th] = "read" /\ page'[th] = PageOf(th)
          /\ call' = call
      BY <1>8, <2>2, LookupG1
    <3>2. UNCHANGED <<node_page_index, edge_page_index>> /\ pc[th] = "lookup"
      BY <1>8, BystanderEffects DEF Bystander, Lookup, At
    <3>3. PageOf(th)' = PageOf(th) /\ PageOf(th) # 0
      BY <1>1, <3>1, <3>2, OwnKept DEF Store!Page
    <3> QED
      BY <3>1, <3>3 DEF Relies, At
  <2> QED
    BY <2>1, <2>2
<1>9. CASE Read(th)
  <2>1. /\ pc[th] = "read" /\ pc'[th] = "parse" /\ UNCHANGED <<file, call, page, rec>>
        /\ seen'[th] = {file[page[th]]}
        /\ UNCHANGED <<node_page_index, edge_page_index>>
    BY <1>9, ReadG1 DEF Read, At, nodeVars, edgeVars
  <2>2. PageOf(th)' = PageOf(th) /\ Op(th)' = Op(th)
    BY <1>1, <2>1, OwnKept
  <2> QED
    BY <2>1, <2>2 DEF Relies, At
<1>10. CASE Parse(th)
  <2>1. CASE pc'[th] = "idle"
    BY <2>1, ReliesAtStart
  <2>2. CASE pc'[th] # "idle"
    <3>1. ParsedOn(th) /\ pc[th] = "parse"
      BY <1>10, <2>2, ParseG1 DEF Parse, At
    <3>2. UNCHANGED <<node_page_index, edge_page_index, file>> /\ call' = call
      BY <1>10, <3>1, BystanderEffects DEF Bystander, ParsedOn
    <3>3. /\ PageOf(th)' = PageOf(th) /\ Op(th)' = Op(th) /\ Key(th)' = Key(th)
      BY <1>1, <3>1, <3>2, OwnKept
    <3>4. PageOf(th) # 0 /\ seen[th] = {file[PageOf(th)]}
      BY <3>1 DEF Relies, At, ParsedOn
    <3>5. rec'[th].id = Key(th) /\ SameEnds(th)'
      <4> DEFINE i == file[PageOf(th)]
      <4>1. CASE OnEdge(th)
        <5>1. i = EdgeImage(Key(th)) /\ Key(th) \in Edges
          BY <3>1, <3>4, <4>1, KeyTyped DEF PageOf, EdgeImage, Edges
        <5>2. rec'[th] \in Parsed({i}, "edge")
          BY <3>1, <3>4, <4>1 DEF ParsedOn, KindOf, OnEdge
        <5>3. rec'[th] = Image("edge", i.id, i.from, i.to, i.value)
          BY <5>2 DEF Parsed
        <5>4. rec'[th].id = i.id /\ rec'[th].from = i.from /\ rec'[th].to = i.to
          BY <5>3 DEF Image
        <5>5. EdgeImage(Key(th))' = i
          BY <3>2, <3>3, <5>1 DEF EdgeImage
        <5> QED
          BY <3>3, <5>1, <5>4, <5>5 DEF Ids, SameEnds, EdgeImage
      <4>2. CASE ~ OnEdge(th)
        <5>1. i = NodeImage(Key(th)) /\ Key(th) \in Nodes
          BY <3>1, <3>4, <4>2, KeyTyped DEF PageOf, NodeImage, Nodes
        <5>2. rec'[th] \in Parsed({i}, "node")
          BY <3>1, <3>4, <4>2 DEF ParsedOn, KindOf, OnEdge
        <5>3. rec'[th] = Image("node", i.id, 0, 0, i.value)
          BY <5>2 DEF Parsed
        <5>4. rec'[th].id = i.id
          BY <5>3 DEF Image
        <5> QED
          BY <3>3, <4>2, <5>1, <5>4 DEF Ids, SameEnds, OnEdge
      <4> QED
        BY <4>1, <4>2
    <3>6. Op(th) \notin Creates \cup {"delete_node"} /\ pc'[th] \in {"adjacency", "allocate"}
      BY <3>1 DEF ParsedOn, Rewrites, Creates
    <3> QED
      BY <3>3, <3>4, <3>5, <3>6 DEF Relies, At
  <2> QED
    BY <2>1, <2>2
<1>11. CASE AddAdjacency(th) \/ RemoveAdjacency(th)
  <2>1. /\ pc[th] = "adjacency"
        /\ \/ Op(th) = "create_edge" /\ pc'[th] = "count"
           \/ Op(th) = "delete_edge" /\ pc'[th] = "erase"
        /\ call' = call /\ rec' = rec
    BY <1>11, AddAdjacencyG1, RemoveAdjacencyG1 DEF AddAdjacency, RemoveAdjacency, At
  <2>2. UNCHANGED <<node_page_index, edge_page_index>>
    BY <1>11, BystanderEffects DEF Bystander
  <2>3. /\ PageOf(th)' = PageOf(th) /\ Op(th)' = Op(th) /\ Key(th)' = Key(th)
        /\ PageOf(th) # 0 /\ SameEnds(th) => SameEnds(th)'
    BY <1>1, <2>1, <2>2, OwnKept
  <2> QED
    BY <2>1, <2>3 DEF Relies, At, Creates, Rewrites
<1>12. CASE CheckOutgoing(th) \/ CheckIncoming(th)
  <2>1. CASE pc'[th] = "idle"
    BY <2>1, ReliesAtStart
  <2>2. CASE pc'[th] # "idle"
    <3>1. Op(th)' = "delete_node" /\ pc'[th] \in {"incoming", "erase"}
      BY <1>12, <2>2, CheckOutgoingG1, CheckIncomingG1 DEF Op
    <3> QED
      BY <3>1 DEF Relies, At, Creates, Rewrites
  <2> QED
    BY <2>1, <2>2
<1>13. CASE EraseNode(th)
  <2>1. /\ Op(th)' = "delete_node" /\ Key(th)' = Key(th) /\ Key(th) \in Node
        /\ pc'[th] = "erase_lists"
    BY <1>13, EraseNodeG1 DEF Op, Key
  <2>2. node_page_index'[Key(th)] = 0
    BY <1>2, <1>13, <2>1 DEF EraseNode, IndexTypes
  <2> QED
    BY <2>1, <2>2 DEF Relies, At, Creates, Rewrites, PageOf, OnEdge, EdgeOps
<1>14. CASE EraseLists(th)
  <2>1. /\ Op(th) = "delete_node" /\ pc[th] = "erase_lists" /\ pc'[th] = "count" /\ call' = call
    BY <1>14, EraseListsG1 DEF EraseLists, At
  <2>2. UNCHANGED <<node_page_index, edge_page_index>>
    BY <1>14, BystanderEffects DEF Bystander
  <2>3. /\ PageOf(th)' = PageOf(th) /\ Op(th)' = Op(th) /\ Key(th)' = Key(th)
    BY <1>1, <2>1, <2>2, OwnKept
  <2> QED
    BY <2>1, <2>3 DEF Relies, At, Creates, Rewrites
<1>15. CASE EraseEdge(th)
  <2>1. /\ Op(th)' = "delete_edge" /\ Key(th)' = Key(th) /\ Key(th) \in Edge
        /\ pc'[th] = "count"
    BY <1>15, EraseEdgeG1 DEF Op, Key
  <2>2. edge_page_index'[Key(th)] = 0
    BY <1>2, <1>15, <2>1 DEF EraseEdge, IndexTypes
  <2> QED
    BY <2>1, <2>2 DEF Relies, At, Creates, Rewrites, PageOf, OnEdge, EdgeOps
<1>16. CASE Count(th)
  BY <1>16, CountG1, ReliesAtStart
<1> QED
  BY <1>3, <1>4, <1>5, <1>6, <1>7, <1>8, <1>9, <1>10, <1>11, <1>12, <1>13, <1>14, <1>15,
     <1>16 DEF Step

\* What an index moves to carries the key.
LEMMA IndexedIs ==
  ASSUME G1, Kinds, NEW th \in Thread, Effects(th), At(th, "index"), Relies(th)
  PROVE  /\ page[th] \in Store!Page /\ file'[page[th]] = Stored(th)
         /\ Stored(th).id = Key(th)
<1>1. page[th] \in Store!Page
  BY MoverIs
<1>2. file'[page[th]] = Stored(th)
  BY <1>1 DEF Effects, FileKept, Kinds, At
<1>3. rec[th].id = Key(th)
  <2> RecOK(th)
    BY G1Facts DEF CallOK
  <2>1. CASE Op(th) = "create_node"
    <3>1. rec[th] = Image("node", Key(th), 0, 0, 0)
      BY <2>1 DEF RecOK, At
    <3> QED
      BY <3>1 DEF Image
  <2>2. CASE Op(th) = "create_edge"
    <3>1. rec[th] = Image("edge", Key(th), call[th].from, call[th].to, 0)
      BY <2>2 DEF RecOK, At
    <3> QED
      BY <3>1 DEF Image
  <2>3. CASE Op(th) \in Rewrites
    BY <2>3 DEF Relies, At
  <2> QED
    BY <2>1, <2>2, <2>3, MoverIs DEF Rewrites
<1>4. Stored(th).id = rec[th].id
  BY StoredIs DEF At
<1> QED
  BY <1>1, <1>2, <1>3, <1>4

LEMMA IdsOfImages ==
  ASSUME G1, Owned, Kinds, Ids, NEW th \in Thread, Effects(th), Relies(th)
  PROVE  Ids'
<1>1. ASSUME NEW n \in Node, node_page_index'[n] # 0 PROVE file'[node_page_index'[n]].id = n
  <2>1. CASE node_page_index'[n] = node_page_index[n]
    BY <1>1, <2>1, ImagesKept DEF Ids, Nodes, NodeImage
  <2>2. CASE n = Key(th) /\ At(th, "index") /\ node_page_index'[n] = page[th]
    BY <2>2, IndexedIs
  <2> QED
    BY <1>1, <2>1, <2>2 DEF Effects, IndexMoves
<1>2. ASSUME NEW e \in Edge, edge_page_index'[e] # 0 PROVE file'[edge_page_index'[e]].id = e
  <2>1. CASE edge_page_index'[e] = edge_page_index[e]
    BY <1>2, <2>1, ImagesKept DEF Ids, Edges, EdgeImage
  <2>2. CASE e = Key(th) /\ At(th, "index") /\ edge_page_index'[e] = page[th]
    BY <2>2, IndexedIs
  <2> QED
    BY <1>2, <2>1, <2>2 DEF Effects, IndexMoves
<1> QED
  BY <1>1, <1>2 DEF Ids, Nodes, Edges, NodeImage, EdgeImage

\* A race, once there, stays.
LEMMA StepRaced ==
  ASSUME NEW th \in Thread, Step(th)
  PROVE  raced' = raced
<1>1. CASE FetchNodeId(th) \/ FetchEdgeId(th) \/ Allocate(th) \/ Write(th) \/ IndexNode(th)
           \/ IndexEdge(th)
  BY <1>1 DEF FetchNodeId, FetchEdgeId, Allocate, Write, IndexNode, IndexEdge, historyVars
<1>2. CASE Lookup(th) \/ Read(th) \/ Parse(th) \/ AddAdjacency(th) \/ RemoveAdjacency(th)
  BY <1>2 DEF Lookup, Read, Parse, AddAdjacency, RemoveAdjacency, historyVars
<1>3. CASE CheckOutgoing(th) \/ CheckIncoming(th) \/ EraseNode(th) \/ EraseLists(th)
           \/ EraseEdge(th) \/ Count(th)
  BY <1>3 DEF CheckOutgoing, CheckIncoming, EraseNode, EraseLists, EraseEdge, Count, historyVars
<1> QED
  BY <1>1, <1>2, <1>3 DEF Step

LEMMA G2Init == GSInit => G2
<1> SUFFICES ASSUME GSInit PROVE G2
  OBVIOUS
<1>1. Ids /\ \A th \in Thread : Relies(th)
  BY DEF GSInit, Ids, Nodes, Edges, Relies, At
<1> QED
  BY <1>1, G1Init, OwnedInit, KindsInit, FreshKeysInit, PeaceInit DEF G2, Calm

LEMMA G2Begin ==
  ASSUME G2, NEW th \in Thread, NEW c \in Calls, Begin(th, c)
  PROVE  G2'
<1>1. G1' /\ Effects(th) /\ Owned' /\ Kinds' /\ FreshKeys'
  BY BeginG1, BeginEffects, OwnedKept, KindsKept, FreshKeysBegin DEF G2
<1>2. ASSUME ~ raced' PROVE Calm'
  <2>1. ~ raced /\ Calm
    BY <1>2 DEF Begin, G2
  <2>2. Peace' /\ Ids'
    BY <1>1, <1>2, <2>1, PeaceBegin, IdsOfImages DEF Calm, G2
  <2>3. FirstStep(c) \in {"fetch", "lookup", "outgoing"}
    BY DEF Calls, FirstStep, Reads, Rewrites
  <2>4. pc'[th] \in {"fetch", "lookup", "outgoing"}
    BY <2>3, G1Facts DEF Begin, G2
  <2>5. SeenMoves(th)
    BY DEF Begin, SeenMoves
  <2>6. ASSUME NEW u \in Thread PROVE Relies(u)'
    <3>1. CASE u = th
      BY <2>4, <3>1, ReliesAtStart
    <3>2. CASE u # th
      BY <1>1, <2>1, <2>5, <3>2, ReliesOther DEF Calm, G2
    <3> QED
      BY <3>1, <3>2
  <2> QED
    BY <2>2, <2>6 DEF Calm
<1> QED
  BY <1>1, <1>2 DEF G2

LEMMA G2Step ==
  ASSUME G2, NEW th \in Thread, Step(th)
  PROVE  G2'
<1>1. G1' /\ Effects(th) /\ Owned' /\ Kinds' /\ FreshKeys' /\ SeenMoves(th)
  BY StepEffects, OwnedKept, KindsKept, FreshKeysStep, StepSeen DEF G2
<1>2. ASSUME ~ raced' PROVE Calm'
  <2>1. ~ raced /\ Calm
    BY <1>2, StepRaced DEF G2
  <2>2. Peace' /\ Ids'
    BY <1>1, <2>1, PeaceStep, IdsOfImages DEF Calm, G2
  <2>3. ASSUME NEW u \in Thread PROVE Relies(u)'
    <3>1. CASE u = th
      BY <1>1, <2>1, <3>1, ReliesOwn DEF Calm, G2
    <3>2. CASE u # th
      BY <1>1, <2>1, <3>2, ReliesOther DEF Calm, G2
    <3> QED
      BY <3>1, <3>2
  <2> QED
    BY <2>2, <2>3 DEF Calm
<1> QED
  BY <1>1, <1>2 DEF G2

LEMMA G2Stutter ==
  ASSUME G2, UNCHANGED gsVars
  PROVE  G2'
<1>1. G1'
  BY G1Step DEF G2
<1>2. /\ UNCHANGED <<pc, call, page, rec, seen, file, next_page_id, raced, node_page_index,
                      edge_page_index, next_node_id, next_edge_id>>
  BY DEF gsVars, storeVars, nodeVars, edgeVars, threadVars, historyVars
<1>3. Owned' /\ Kinds'
  BY <1>2 DEF G2, Owned, BelowNext, IndexesApart, WritersApart, Writing, Nodes, Edges, Kinds,
              NodeImage, EdgeImage, At, Stored
<1>4. FreshKeys' /\ (Peace => Peace')
  BY <1>2 DEF G2, FreshKeys, Peace, Op, Key
<1>5. /\ Ids => Ids'
      /\ \A th \in Thread : Relies(th) => Relies(th)'
  BY <1>2 DEF Ids, Nodes, Edges, NodeImage, EdgeImage, Relies, SameEnds, PageOf, OnEdge, Op,
              Key, At
<1> QED
  BY <1>1, <1>2, <1>3, <1>4, <1>5 DEF G2, Calm

LEMMA G2Next == G2 /\ [GSNext]_gsVars => G2'
BY G2Begin, G2Step, G2Stutter DEF GSNext

(***************************************************************************)
(* Whatever calls overlap, the page an index names holds a record of the   *)
(* index's kind, so get_node and get_edge meet CORRUPTION in a racing      *)
(* buffer only; and unless conflicting calls have overlapped it is the     *)
(* record of that very key (graph_store.cpp:242, :360-381, :513).          *)
(***************************************************************************)
THEOREM RecordsFound == GSSpec => []RecordsMatchKeys
<1>1. G2 => RecordsMatchKeys
  BY DEF G2, Kinds, Calm, Ids, RecordsMatchKeys
<1> QED
  BY <1>1, G2Init, G2Next, PTL DEF GSSpec

----------------------------------------------------------------------------
(***************************************************************************)
(* The lists.                                                              *)
(***************************************************************************)
AdjMoves(th) ==
    \A n \in Node :
        /\ outgoing_edges'[n] \subseteq outgoing_edges[n]
           \/ (Op(th) = "create_edge" /\ n = call[th].from)
        /\ incoming_edges'[n] \subseteq incoming_edges[n]
           \/ (Op(th) = "create_edge" /\ n = call[th].to)

\* The steps that leave the lists alone.
OffLists(th) ==
    \/ FetchNodeId(th) \/ FetchEdgeId(th) \/ Allocate(th) \/ Write(th) \/ IndexNode(th)
    \/ IndexEdge(th) \/ Lookup(th) \/ Read(th) \/ Parse(th) \/ CheckOutgoing(th)
    \/ CheckIncoming(th) \/ EraseNode(th) \/ EraseEdge(th) \/ Count(th)

LEMMA OffListsKeep ==
  ASSUME NEW th \in Thread, OffLists(th)
  PROVE  outgoing_edges' = outgoing_edges /\ incoming_edges' = incoming_edges
<1>1. CASE FetchNodeId(th) \/ FetchEdgeId(th) \/ Allocate(th) \/ Write(th) \/ IndexNode(th)
           \/ IndexEdge(th)
  BY <1>1 DEF FetchNodeId, FetchEdgeId, Allocate, Write, IndexNode, IndexEdge, adjVars
<1>2. CASE Lookup(th) \/ Read(th) \/ Parse(th) \/ CheckOutgoing(th) \/ CheckIncoming(th)
  BY <1>2 DEF Lookup, Read, Parse, CheckOutgoing, CheckIncoming, adjVars
<1>3. CASE EraseNode(th) \/ EraseEdge(th) \/ Count(th)
  BY <1>3 DEF EraseNode, EraseEdge, Count, adjVars
<1> QED
  BY <1>1, <1>2, <1>3 DEF OffLists

LEMMA StepLists ==
  ASSUME G1, NEW th \in Thread, Step(th)
  PROVE  AdjMoves(th)
<1>1. AdjTypes
  BY G1Facts DEF TypesButLocal
<1>2. CASE OffLists(th)
  BY <1>2, OffListsKeep DEF AdjMoves
<1>3. CASE AddAdjacency(th)
  <2>1. /\ Op(th) = "create_edge" /\ rec[th].from = call[th].from /\ rec[th].to = call[th].to
        /\ outgoing_edges' = [outgoing_edges EXCEPT ![rec[th].from] = @ \cup {Key(th)}]
        /\ incoming_edges' = [incoming_edges EXCEPT ![rec[th].to] = @ \cup {Key(th)}]
    <3>1. rec[th] = Image("edge", Key(th), call[th].from, call[th].to, 0)
      BY <1>3, AddAdjacencyG1
    <3>2. rec[th].from = call[th].from /\ rec[th].to = call[th].to
      BY <3>1 DEF Image
    <3> QED
      BY <1>3, <3>2 DEF AddAdjacency
  <2>2. ASSUME NEW n \in Node
        PROVE  /\ n # call[th].from => outgoing_edges'[n] = outgoing_edges[n]
               /\ n # call[th].to => incoming_edges'[n] = incoming_edges[n]
    BY <1>1, <2>1 DEF AdjTypes
  <2> QED
    BY <2>1, <2>2 DEF AdjMoves
<1>4. CASE RemoveAdjacency(th)
  BY <1>1, <1>4 DEF RemoveAdjacency, AdjMoves, AdjTypes, Without
<1>5. CASE EraseLists(th)
  BY <1>1, <1>5 DEF EraseLists, AdjMoves, AdjTypes
<1> QED
  BY <1>2, <1>3, <1>4, <1>5 DEF Step, OffLists

LEMMA EmptiedStep ==
  ASSUME G1, Peace, Emptied, NEW th \in Thread, Step(th)
  PROVE  Emptied'
<1>1. Effects(th) /\ G1' /\ AdjMoves(th) /\ CallMoves(th)
  BY StepEffects, StepLists, StepCalls
<1> SUFFICES ASSUME NEW t \in Thread, call'[t].op = "delete_node",
                    pc'[t] \in {"incoming", "erase", "erase_lists"}
             PROVE  /\ outgoing_edges'[call'[t].key] = {}
                    /\ pc'[t] # "incoming" => incoming_edges'[call'[t].key] = {}
  BY DEF Emptied, Op, Key
<1>2. CASE t # th
  <2>1. /\ Op(t) = "delete_node" /\ pc[t] = pc'[t] /\ call'[t].key = Key(t)
    BY <1>1, <1>2 DEF Effects, Others, Op, Key
  <2>2. Key(t) \in Node
    BY <2>1, KeyTyped DEF OnEdge, EdgeOps
  <2>3. ~ (Op(th) = "create_edge" /\ Key(t) \in {call[th].from, call[th].to})
    BY <1>2, <2>1 DEF Peace
  <2>4. /\ outgoing_edges'[Key(t)] \subseteq outgoing_edges[Key(t)]
        /\ incoming_edges'[Key(t)] \subseteq incoming_edges[Key(t)]
    BY <1>1, <2>2, <2>3 DEF AdjMoves
  <2> QED
    BY <2>1, <2>4 DEF Emptied
<1>3. CASE t = th
  <2>1. CASE CheckOutgoing(th)
    BY <1>3, <2>1, CheckOutgoingG1 DEF CheckOutgoing, adjVars, Key
  <2>2. CASE CheckIncoming(th)
    BY <1>3, <2>2, CheckIncomingG1 DEF CheckIncoming, adjVars, Key, Emptied, At
  <2>3. CASE EraseNode(th)
    BY <1>3, <2>3, EraseNodeG1 DEF EraseNode, adjVars, Key, Emptied, At
  <2>4. CASE ~ (CheckOutgoing(th) \/ CheckIncoming(th) \/ EraseNode(th))
    <3>1. pc'[th] \notin {"incoming", "erase", "erase_lists"} \/ RemoveAdjacency(th)
      <4>1. CASE Bystander(th) /\ ~ RemoveAdjacency(th)
        <5>1. CASE FetchNodeId(th) \/ FetchEdgeId(th)
          BY <5>1, G1Facts DEF FetchNodeId, FetchEdgeId, Goto
        <5>2. CASE ~ (FetchNodeId(th) \/ FetchEdgeId(th))
          BY <2>4, <4>1, <5>2, LookupG1, ReadG1, ParseG1, AddAdjacencyG1, EraseListsG1, CountG1
             DEF Bystander, ParsedOn
        <5> QED
          BY <5>1, <5>2
      <4>2. CASE Allocate(th) \/ Write(th)
        BY <4>2, G1Facts DEF Allocate, Write, Goto
      <4>3. CASE IndexNode(th) \/ IndexEdge(th) \/ EraseEdge(th)
        BY <4>3, IndexNodeG1, IndexEdgeG1, EraseEdgeG1
      <4> QED
        BY <2>4, <4>1, <4>2, <4>3 DEF Step, Bystander
    <3>2. CASE RemoveAdjacency(th)
      BY <1>3, <3>2, RemoveAdjacencyG1 DEF RemoveAdjacency, Op
    <3> QED
      BY <1>3, <3>1, <3>2
  <2> QED
    BY <2>1, <2>2, <2>3, <2>4
<1> QED
  BY <1>2, <1>3

\* Who comes between the index and the lists, and who leaves.
LEMMA UnlinkedMoves ==
  ASSUME G1, NEW th \in Thread, Step(th)
  PROVE  /\ Unlinked(th) => AddAdjacency(th) \/ EraseEdge(th)
         /\ Unlinked(th)' => (IndexEdge(th) /\ Op(th) = "create_edge") \/ RemoveAdjacency(th)
<1>1. ASSUME Unlinked(th) PROVE AddAdjacency(th) \/ EraseEdge(th)
  <2>1. pc[th] \in {"adjacency", "erase"} /\ Op(th) \in {"create_edge", "delete_edge"}
        /\ (pc[th] = "adjacency" <=> Op(th) = "create_edge")
    BY <1>1 DEF Unlinked, At
  <2>2. ~ (FetchNodeId(th) \/ FetchEdgeId(th) \/ Allocate(th) \/ Write(th) \/ IndexNode(th)
           \/ IndexEdge(th))
    BY <2>1 DEF FetchNodeId, FetchEdgeId, Allocate, Write, IndexNode, IndexEdge, At
  <2>3. ~ (Lookup(th) \/ Read(th) \/ Parse(th) \/ RemoveAdjacency(th) \/ CheckOutgoing(th)
           \/ CheckIncoming(th) \/ EraseNode(th) \/ EraseLists(th) \/ Count(th))
    BY <2>1 DEF Lookup, Read, Parse, RemoveAdjacency, CheckOutgoing, CheckIncoming, EraseNode,
                EraseLists, Count, At
  <2> QED
    BY <2>2, <2>3 DEF Step
<1>2. ASSUME Unlinked(th)' PROVE (IndexEdge(th) /\ Op(th) = "create_edge") \/ RemoveAdjacency(th)
  <2>1. /\ pc'[th] \in {"adjacency", "erase"}
        /\ pc'[th] = "adjacency" => call'[th].op = "create_edge"
        /\ pc'[th] = "erase" => call'[th].op = "delete_edge"
    BY <1>2 DEF Unlinked, At, Op
  <2>2. ~ (FetchNodeId(th) \/ FetchEdgeId(th) \/ Allocate(th) \/ Write(th))
    BY <2>1, G1Facts DEF FetchNodeId, FetchEdgeId, Allocate, Write, Goto
  <2>3. ~ (IndexNode(th) \/ Lookup(th) \/ Read(th))
    BY <2>1, IndexNodeG1, LookupG1, ReadG1
  <2>4. ~ Parse(th)
    BY <2>1, ParseG1 DEF ParsedOn, Rewrites, Op
  <2>5. ~ (AddAdjacency(th) \/ EraseNode(th) \/ EraseLists(th) \/ EraseEdge(th) \/ Count(th))
    BY <2>1, AddAdjacencyG1, EraseNodeG1, EraseListsG1, EraseEdgeG1, CountG1
  <2>6. ~ (CheckOutgoing(th) \/ CheckIncoming(th))
    BY <2>1, CheckOutgoingG1, CheckIncomingG1 DEF Op
  <2>7. IndexEdge(th) => Op(th) = "create_edge"
    BY <2>1, IndexEdgeG1
  <2> QED
    BY <2>2, <2>3, <2>4, <2>5, <2>6, <2>7 DEF Step
<1> QED
  BY <1>1, <1>2

LEMMA EdgeKept ==
  ASSUME G1, Owned, NEW th \in Thread, Effects(th), NEW e \in Edge,
         edge_page_index'[e] = edge_page_index[e]
  PROVE  /\ e \in Edges' <=> e \in Edges
         /\ e \in Edges => EdgeImage(e)' = EdgeImage(e)
BY ImagesKept DEF Edges, EdgeImage

LEMMA UnlistedKept ==
  ASSUME NEW th \in Thread, Effects(th), NEW e, ~ (Unlinked(th) /\ Key(th) = e),
         ~ (Unlinked(th)' /\ Key(th)' = e)
  PROVE  Unlisted(e)' <=> Unlisted(e)
<1>1. \A u \in Thread \ {th} : (Unlinked(u)' <=> Unlinked(u)) /\ Key(u)' = Key(u)
  BY DEF Effects, Others, Unlinked, Op, At, Key
<1> QED
  BY <1>1 DEF Unlisted

LEMMA ListedFrame ==
  ASSUME G1, Owned, NEW th \in Thread, Effects(th), NEW n \in Node, NEW e \in Edge,
         edge_page_index'[e] = edge_page_index[e], Unlisted(e)' <=> Unlisted(e),
         e \in outgoing_edges'[n] <=> e \in outgoing_edges[n],
         e \in incoming_edges'[n] <=> e \in incoming_edges[n],
         ListedAt(n, e)
  PROVE  ListedAt(n, e)'
<1>1. /\ e \in Edges' <=> e \in Edges
      /\ e \in Edges => EdgeImage(e)' = EdgeImage(e)
  BY EdgeKept
<1> QED
  BY <1>1 DEF ListedAt

LEMMA ListedStep ==
  ASSUME G2, ~ raced, Emptied, Listed, NEW th \in Thread, Step(th)
  PROVE  Listed'
<1>1. /\ G1 /\ G1' /\ Owned /\ Kinds /\ FreshKeys /\ Peace /\ Relies(th)
      /\ Effects(th)
  BY StepEffects DEF G2, Calm
<1>2. /\ edge_page_index \in [Edge -> Store!Page \cup {0}]
      /\ outgoing_edges \in [Node -> SUBSET Edge] /\ incoming_edges \in [Node -> SUBSET Edge]
  BY <1>1 DEF G1, GSTypeOK
<1> SUFFICES ASSUME NEW n \in Node, NEW e \in Edge
             PROVE  ListedAt(n, e)'
  BY DEF Listed
<1>3. ListedAt(n, e)
  BY DEF Listed
<1>4. /\ Unlinked(th) => AddAdjacency(th) \/ EraseEdge(th)
      /\ Unlinked(th)' => (IndexEdge(th) /\ Op(th) = "create_edge") \/ RemoveAdjacency(th)
  BY <1>1, UnlinkedMoves
<1>5. CASE OffLists(th) /\ ~ IndexEdge(th) /\ ~ EraseEdge(th)
  <2>1. ~ At(th, "adjacency")
    <3>1. ~ (FetchNodeId(th) \/ FetchEdgeId(th) \/ Allocate(th) \/ Write(th) \/ IndexNode(th)
             \/ Lookup(th) \/ Read(th) \/ Parse(th) \/ CheckOutgoing(th) \/ CheckIncoming(th)
             \/ EraseNode(th) \/ Count(th)) \/ ~ At(th, "adjacency")
      BY DEF FetchNodeId, FetchEdgeId, Allocate, Write, IndexNode, Lookup, Read, Parse,
             CheckOutgoing, CheckIncoming, EraseNode, Count, At
    <3> QED
      BY <1>5, <3>1 DEF OffLists
  <2>2. ~ Unlinked(th) /\ ~ Unlinked(th)'
    BY <1>4, <1>5, <2>1 DEF AddAdjacency, RemoveAdjacency
  <2>3. edge_page_index' = edge_page_index
    <3>1. CASE Bystander(th)
      BY <1>1, <3>1, BystanderEffects
    <3>2. CASE Allocate(th) \/ Write(th) \/ IndexNode(th) \/ EraseNode(th)
      BY <3>2 DEF Allocate, Write, IndexNode, EraseNode, edgeVars
    <3> QED
      BY <1>5, <3>1, <3>2 DEF OffLists, Bystander
  <2>4. outgoing_edges' = outgoing_edges /\ incoming_edges' = incoming_edges
    BY <1>5, OffListsKeep
  <2> QED
    BY <1>1, <1>3, <2>2, <2>3, <2>4, UnlistedKept, ListedFrame
<1>6. CASE IndexEdge(th)
  <2>1. /\ outgoing_edges' = outgoing_edges /\ incoming_edges' = incoming_edges
        /\ ~ Unlinked(th) /\ At(th, "index") /\ OnEdge(th)
        /\ edge_page_index' = [edge_page_index EXCEPT ![Key(th)] = page[th]]
    BY <1>6, OffListsKeep DEF IndexEdge, OffLists, Unlinked, At
  <2>2. Key(th) \in Edge /\ page[th] \in Store!Page /\ page[th] # 0
    BY <1>1, <1>6, <2>1, IndexEdgeG1, MoverIs
  <2>3. CASE e # Key(th)
    <3>1. edge_page_index'[e] = edge_page_index[e]
      BY <1>2, <2>1, <2>3
    <3>2. Unlinked(th)' => Key(th)' # e
      BY <1>1, <1>6, <2>3, IndexEdgeG1 DEF Unlinked, Op, At, Key, threadVars, NoCall
    <3> QED
      BY <1>1, <1>3, <2>1, <3>1, <3>2, UnlistedKept, ListedFrame
  <2>4. CASE e = Key(th) /\ Op(th) = "create_edge"
    <3>1. e \notin outgoing_edges[n] /\ e \notin incoming_edges[n]
      <4>1. edge_page_index[e] = 0
        BY <1>1, <2>1, <2>4 DEF Relies, At, Creates, PageOf
      <4> QED
        BY <1>3, <4>1 DEF ListedAt, Edges
    <3>2. Key(th)' = e /\ Unlinked(th)'
      BY <1>1, <1>6, <2>4, IndexEdgeG1 DEF Unlinked, Op, At, Key, threadVars
    <3> QED
      BY <2>1, <3>1, <3>2 DEF ListedAt, Unlisted
  <2>5. CASE e = Key(th) /\ Op(th) # "create_edge"
    <3>1. Op(th) \in Rewrites
      BY <1>1, <2>1, <2>5, MoverIs DEF Rewrites, OnEdge, EdgeOps
    <3>2. e \in Edges /\ EdgeImage(e).from = rec[th].from /\ EdgeImage(e).to = rec[th].to
      BY <1>1, <2>1, <2>2, <2>5, <3>1 DEF Relies, At, SameEnds, PageOf, Edges
    <3>3. e \in Edges' /\ EdgeImage(e)' = Stored(th)
      BY <1>1, <1>2, <2>1, <2>2, <2>5, IndexedIs DEF Edges, EdgeImage
    <3>4. Stored(th).from = rec[th].from /\ Stored(th).to = rec[th].to
      BY <1>1, <2>1, StoredIs DEF At
    <3>5. Unlisted(e)' <=> Unlisted(e)
      BY <1>1, <1>4, <2>1, <2>5, UnlistedKept DEF RemoveAdjacency, At
    <3> QED
      BY <1>3, <2>1, <3>2, <3>3, <3>4, <3>5 DEF ListedAt
  <2> QED
    BY <2>3, <2>4, <2>5
<1>7. CASE AddAdjacency(th)
  <2>1. /\ Key(th) \in Edge /\ rec[th].from \in Node /\ rec[th].to \in Node
        /\ pc'[th] = "count" /\ call' = call
    <3>1. /\ Key(th) \in Edge /\ call[th].from \in Node /\ call[th].to \in Node
          /\ rec[th] = Image("edge", Key(th), call[th].from, call[th].to, 0)
          /\ pc'[th] = "count" /\ call' = call
      BY <1>1, <1>7, AddAdjacencyG1
    <3> QED
      BY <3>1 DEF Image
  <2>2. /\ outgoing_edges' = [outgoing_edges EXCEPT ![rec[th].from] = @ \cup {Key(th)}]
        /\ incoming_edges' = [incoming_edges EXCEPT ![rec[th].to] = @ \cup {Key(th)}]
        /\ edge_page_index' = edge_page_index
        /\ Op(th) = "create_edge" /\ At(th, "adjacency")
    BY <1>7 DEF AddAdjacency, edgeVars
  <2>3. ~ Unlinked(th)'
    BY <2>1 DEF Unlinked, At
  <2>4. /\ e \in outgoing_edges'[n] <=> e \in outgoing_edges[n] \/ (e = Key(th) /\ n = rec[th].from)
        /\ e \in incoming_edges'[n] <=> e \in incoming_edges[n] \/ (e = Key(th) /\ n = rec[th].to)
    BY <1>2, <2>1, <2>2
  <2>5. CASE e # Key(th)
    BY <1>1, <1>3, <2>2, <2>3, <2>4, <2>5, UnlistedKept, ListedFrame
  <2>6. CASE e = Key(th)
    <3>1. e \notin outgoing_edges[n] /\ e \notin incoming_edges[n]
      BY <1>3, <2>2, <2>6 DEF ListedAt, Unlisted, Unlinked
    <3>2. e \in Edges /\ EdgeImage(e).from = rec[th].from /\ EdgeImage(e).to = rec[th].to
      BY <1>1, <2>1, <2>2, <2>6 DEF Relies, At, Creates, PageOf, SameEnds, OnEdge, EdgeOps, Edges
    <3>3. e \in Edges' /\ EdgeImage(e)' = EdgeImage(e)
      BY <1>1, <2>2, <3>2, EdgeKept
    <3>4. ~ Unlisted(e)'
      <4>1. ASSUME NEW u \in Thread, u # th, Key(u) = e, Unlinked(u) PROVE FALSE
        <5>1. CASE Op(u) = "create_edge"
          BY <1>1, <2>1, <2>2, <2>6, <4>1, <5>1, KeyIsOld DEF FreshKeys, Creates, At, Unlinked
        <5>2. CASE Op(u) = "delete_edge"
          BY <1>1, <2>2, <2>6, <4>1, <5>2 DEF Peace
        <5> QED
          BY <4>1, <5>1, <5>2 DEF Unlinked
      <4>2. ASSUME NEW u \in Thread, u # th
            PROVE  (Unlinked(u)' <=> Unlinked(u)) /\ Key(u)' = Key(u)
        BY <1>1, <4>2 DEF Effects, Others, Unlinked, Op, At, Key
      <4> QED
        BY <2>3, <4>1, <4>2 DEF Unlisted
    <3> QED
      BY <2>4, <2>6, <3>1, <3>2, <3>3, <3>4 DEF ListedAt
  <2> QED
    BY <2>5, <2>6
<1>8. CASE RemoveAdjacency(th)
  <2>1. /\ Key(th) \in Edge /\ pc'[th] = "erase" /\ call' = call
    BY <1>1, <1>8, RemoveAdjacencyG1
  <2>2. /\ outgoing_edges' = Without(outgoing_edges, rec[th].from, Key(th))
        /\ incoming_edges' = Without(incoming_edges, rec[th].to, Key(th))
        /\ edge_page_index' = edge_page_index
        /\ Op(th) = "delete_edge" /\ At(th, "adjacency")
    BY <1>8 DEF RemoveAdjacency, edgeVars
  <2>3. ~ Unlinked(th)
    BY <2>2 DEF Unlinked, At
  <2>4. /\ e \in outgoing_edges'[n] <=> e \in outgoing_edges[n] /\ (e # Key(th) \/ n # rec[th].from)
        /\ e \in incoming_edges'[n] <=> e \in incoming_edges[n] /\ (e # Key(th) \/ n # rec[th].to)
    BY <1>2, <2>2 DEF Without
  <2>5. CASE e # Key(th)
    <3>1. Key(th)' # e
      BY <2>1, <2>5 DEF Key
    <3> QED
      BY <1>1, <1>3, <2>2, <2>4, <2>5, <3>1, UnlistedKept, ListedFrame
  <2>6. CASE e = Key(th)
    <3>1. EdgeImage(e).from = rec[th].from /\ EdgeImage(e).to = rec[th].to
      BY <1>1, <2>2, <2>6 DEF Relies, At, Rewrites, SameEnds, OnEdge, EdgeOps
    <3>2. e \notin outgoing_edges'[n] /\ e \notin incoming_edges'[n]
      BY <1>3, <2>4, <2>6, <3>1 DEF ListedAt
    <3>3. Unlisted(e)'
      BY <2>1, <2>2, <2>6 DEF Unlisted, Unlinked, Op, At, Key
    <3> QED
      BY <3>2, <3>3 DEF ListedAt
  <2> QED
    BY <2>5, <2>6
<1>9. CASE EraseLists(th)
  <2>1. Op(th) = "delete_node" /\ Key(th) \in Node /\ pc[th] = "erase_lists"
    BY <1>1, <1>9, EraseListsG1 DEF EraseLists, At
  <2>2. outgoing_edges[Key(th)] = {} /\ incoming_edges[Key(th)] = {}
    BY <2>1 DEF Emptied
  <2>3. /\ outgoing_edges' = [outgoing_edges EXCEPT ![Key(th)] = {}]
        /\ incoming_edges' = [incoming_edges EXCEPT ![Key(th)] = {}]
        /\ edge_page_index' = edge_page_index
    BY <1>9 DEF EraseLists, edgeVars
  <2>4. outgoing_edges'[n] = outgoing_edges[n] /\ incoming_edges'[n] = incoming_edges[n]
    BY <1>2, <2>1, <2>2, <2>3
  <2>5. ~ Unlinked(th) /\ ~ Unlinked(th)'
    BY <1>4, <2>1 DEF Unlinked, RemoveAdjacency, IndexEdge, At
  <2> QED
    BY <1>1, <1>3, <2>3, <2>4, <2>5, UnlistedKept, ListedFrame
<1>10. CASE EraseEdge(th)
  <2>1. /\ Op(th) = "delete_edge" /\ Key(th) \in Edge /\ pc[th] = "erase" /\ pc'[th] = "count"
        /\ call' = call
    BY <1>1, <1>10, EraseEdgeG1 DEF EraseEdge, At
  <2>2. /\ outgoing_edges' = outgoing_edges /\ incoming_edges' = incoming_edges
        /\ edge_page_index' = [edge_page_index EXCEPT ![Key(th)] = 0]
    BY <1>10, OffListsKeep DEF EraseEdge, OffLists
  <2>3. ~ Unlinked(th)'
    BY <2>1 DEF Unlinked, At
  <2>4. CASE e # Key(th)
    <3>1. edge_page_index'[e] = edge_page_index[e]
      BY <1>2, <2>2, <2>4
    <3> QED
      BY <1>1, <1>3, <2>2, <2>3, <2>4, <3>1, UnlistedKept, ListedFrame
  <2>5. CASE e = Key(th)
    <3>1. e \notin outgoing_edges[n] /\ e \notin incoming_edges[n]
      BY <1>3, <2>1, <2>5 DEF ListedAt, Unlisted, Unlinked, At
    <3>2. (e \notin Edges)'
      BY <1>2, <2>1, <2>2, <2>5 DEF Edges
    <3> QED
      BY <2>2, <3>1, <3>2 DEF ListedAt
  <2> QED
    BY <2>4, <2>5
<1> QED
  BY <1>5, <1>6, <1>7, <1>8, <1>9, <1>10 DEF Step, OffLists

LEMMA G3Init == GSInit => G3
<1> SUFFICES ASSUME GSInit PROVE G3
  OBVIOUS
<1>1. Emptied /\ Listed
  BY DEF GSInit, Emptied, Listed, ListedAt, Edges, Op, NoCall
<1> QED
  BY <1>1, G2Init DEF G3

LEMMA G3Begin ==
  ASSUME G3, NEW th \in Thread, NEW c \in Calls, Begin(th, c)
  PROVE  G3'
<1>1. G2' /\ G1 /\ Owned /\ Effects(th)
  BY G2Begin, BeginEffects DEF G2, G3
<1>2. ASSUME ~ raced' PROVE Emptied' /\ Listed'
  <2>1. Emptied /\ Listed
    BY <1>2 DEF Begin, G3
  <2>2. FirstStep(c) \in {"fetch", "lookup", "outgoing"}
    BY DEF Calls, FirstStep, Reads, Rewrites
  <2>3. pc'[th] \in {"fetch", "lookup", "outgoing"} /\ pc[th] = "idle"
    BY <1>1, <2>2, G1Facts DEF Begin
  <2>4. UNCHANGED <<outgoing_edges, incoming_edges, edge_page_index>>
    BY DEF Begin, adjVars, edgeVars
  <2>5. Emptied'
    BY <1>1, <2>1, <2>3, <2>4 DEF Emptied, Effects, Others, Op, Key
  <2>6. ~ Unlinked(th) /\ ~ Unlinked(th)'
    BY <2>3 DEF Unlinked, At
  <2>7. ASSUME NEW n \in Node, NEW e \in Edge PROVE ListedAt(n, e)'
    BY <1>1, <2>1, <2>4, <2>6, UnlistedKept, ListedFrame DEF Listed
  <2> QED
    BY <2>5, <2>7 DEF Listed
<1> QED
  BY <1>1, <1>2 DEF G3

LEMMA G3Step ==
  ASSUME G3, NEW th \in Thread, Step(th)
  PROVE  G3'
<1>1. G2'
  BY G2Step DEF G3
<1>2. ASSUME ~ raced' PROVE Emptied' /\ Listed'
  <2>1. ~ raced /\ Emptied /\ Listed /\ G2
    BY <1>2, StepRaced DEF G3
  <2>2. G1 /\ Peace
    BY <2>1 DEF G2, Calm
  <2> QED
    BY <2>1, <2>2, EmptiedStep, ListedStep
<1> QED
  BY <1>1, <1>2 DEF G3

LEMMA G3Stutter ==
  ASSUME G3, UNCHANGED gsVars
  PROVE  G3'
<1>1. G2'
  BY G2Stutter DEF G3
<1>2. /\ UNCHANGED <<pc, call, file, raced, edge_page_index, outgoing_edges, incoming_edges>>
  BY DEF gsVars, storeVars, nodeVars, edgeVars, adjVars, threadVars, historyVars
<1>3. (Emptied => Emptied') /\ (Listed => Listed')
  BY <1>2 DEF Emptied, Listed, ListedAt, Unlisted, Unlinked, Edges, EdgeImage, Op, Key, At
<1> QED
  BY <1>1, <1>2, <1>3 DEF G3

LEMMA G3Next == G3 /\ [GSNext]_gsVars => G3'
BY G3Begin, G3Step, G3Stutter DEF GSNext

(***************************************************************************)
(* Between calls, unless conflicting ones have overlapped, the lists of    *)
(* every node are exactly the stored edges with that end, whatever calls   *)
(* ran side by side: create_edge lists the edge after it is stored and     *)
(* delete_edge takes it off both lists before it is erased                 *)
(* (graph_store.cpp:434-451, :570-584).                                    *)
(***************************************************************************)
THEOREM ListsMatchRecords == GSSpec => []AdjacencyMatches
<1>1. ASSUME G3 PROVE AdjacencyMatches
  <2> SUFFICES ASSUME AtRest, ~ raced, NEW n \in Node
               PROVE  /\ outgoing_edges[n] = {e \in Edges : EdgeImage(e).from = n}
                      /\ incoming_edges[n] = {e \in Edges : EdgeImage(e).to = n}
    BY DEF AdjacencyMatches
  <2>1. Listed /\ outgoing_edges[n] \subseteq Edge /\ incoming_edges[n] \subseteq Edge
    BY <1>1 DEF G3, G2, G1, GSTypeOK
  <2>2. \A e \in Edge : ~ Unlisted(e)
    BY DEF AtRest, Unlisted, Unlinked, At
  <2>3. \A e \in Edge : ListedAt(n, e)
    BY <2>1 DEF Listed
  <2>4. Edges \subseteq Edge
    BY DEF Edges
  <2> QED
    BY <2>1, <2>2, <2>3, <2>4 DEF ListedAt
<1> QED
  BY <1>1, G3Init, G3Next, PTL DEF GSSpec

(***************************************************************************)
(* Unless conflicting calls have overlapped, a node that delete_node takes *)
(* out of the index has no edge but such as another thread is deleting:    *)
(* what it saw in the two lists, one after the other, still holds when it  *)
(* erases (graph_store.cpp:598-608).                                       *)
(***************************************************************************)
THEOREM NothingDangles == GSSpec => NoDanglingDelete
<1> DEFINE Clean == \A n \in Node :
                        n \in Nodes /\ node_page_index'[n] = 0 /\ ~ raced =>
                            \A e \in Edges :
                                \/ n \notin {EdgeImage(e).from, EdgeImage(e).to}
                                \/ \E th \in Thread : Op(th) = "delete_edge" /\ Key(th) = e
<1>1. ASSUME G3, NEW th \in Thread, Effects(th) PROVE Clean
  <2>0. /\ G1 /\ (~ raced => Peace /\ Emptied /\ Listed /\ \A u \in Thread : Relies(u))
    BY <1>1 DEF G3, G2, Calm
  <2> SUFFICES ASSUME NEW n \in Node, node_page_index[n] # 0, node_page_index'[n] = 0, ~ raced,
                      NEW e \in Edges, n \in {EdgeImage(e).from, EdgeImage(e).to}
               PROVE  \E u \in Thread : Op(u) = "delete_edge" /\ Key(u) = e
    BY DEF Nodes
  <2>1. n = Key(th) /\ ~ OnEdge(th) /\ At(th, "erase")
    BY <1>1, <2>0, MoverIs DEF Effects, IndexMoves
  <2>2. Op(th) = "delete_node"
    BY <2>0, <2>1, MoverIs DEF OnEdge, EdgeOps
  <2>3. outgoing_edges[n] = {} /\ incoming_edges[n] = {}
    BY <2>0, <2>1, <2>2 DEF Emptied, At
  <2>4. Unlisted(e) /\ e \in Edge
    BY <2>0, <2>3 DEF Listed, ListedAt, Edges
  <2>5. PICK u \in Thread : Key(u) = e /\ Unlinked(u)
    BY <2>4 DEF Unlisted
  <2>6. CASE Op(u) = "create_edge"
    <3>1. At(u, "adjacency") /\ SameEnds(u) /\ OnEdge(u)
      BY <2>0, <2>5, <2>6 DEF Unlinked, Relies, At, Creates, OnEdge, EdgeOps
    <3>2. rec[u] = Image("edge", Key(u), call[u].from, call[u].to, 0)
      BY <2>0, <2>6, <3>1, G1Facts DEF CallOK, RecOK, At
    <3>3. EdgeImage(e).from = call[u].from /\ EdgeImage(e).to = call[u].to
      BY <2>5, <3>1, <3>2 DEF SameEnds, Image
    <3>4. u # th
      BY <2>2, <2>6
    <3> QED
      BY <2>0, <2>1, <2>2, <2>6, <3>3, <3>4 DEF Peace
  <2> QED
    BY <2>5, <2>6 DEF Unlinked
<1>2. ASSUME G3, [GSNext]_gsVars PROVE [Clean]_gsVars
  <2>1. ASSUME NEW th \in Thread, NEW c \in Calls, Begin(th, c) PROVE Clean
    BY <1>1, <1>2, <2>1, BeginEffects DEF G3, G2
  <2>2. ASSUME NEW th \in Thread, Step(th) PROVE Clean
    BY <1>1, <1>2, <2>2, StepEffects DEF G3, G2
  <2> QED
    BY <1>2, <2>1, <2>2 DEF GSNext
<1> QED
  BY <1>2, G3Init, G3Next, PTL DEF GSSpec, NoDanglingDelete

----------------------------------------------------------------------------
(***************************************************************************)
(* The counters.                                                           *)
(***************************************************************************)
LEMMA Few ==
  ASSUME NEW n \in Nat, NEW S \in SUBSET (1 .. n)
  PROVE  /\ Cardinality(S) \in Nat /\ Cardinality(S) <= n
         /\ \A k \in 1 .. n : k \notin S => Cardinality(S \cup {k}) = Cardinality(S) + 1
         /\ \A k \in S : Cardinality(S \ {k}) = Cardinality(S) - 1 /\ Cardinality(S) > 0
<1>1. IsFiniteSet(1 .. n) /\ Cardinality(1 .. n) = n
  BY FS_Interval
<1>2. IsFiniteSet(S) /\ Cardinality(S) <= n /\ Cardinality(S) \in Nat
  BY <1>1, FS_Subset, FS_CardinalityType
<1>3. \A k \in S : Cardinality(S) > 0
  BY <1>2, FS_EmptySet
<1> QED
  BY <1>2, <1>3, FS_AddElement, FS_RemoveElement

LEMMA Wraps ==
  ASSUME NEW x \in Nat, x < 2 * CountLimit
  PROVE  x % CountLimit = IF x < CountLimit THEN x ELSE x - CountLimit
<1>1. CountLimit \in Nat /\ CountLimit > 0
  OBVIOUS
<1>2. CASE x < CountLimit
  BY <1>1, <1>2
<1>3. CASE ~ (x < CountLimit)
  BY <1>1, <1>3
<1> QED
  BY <1>2, <1>3

\* Counting up and down commutes with the wrap.
LEMMA WrapsUp ==
  ASSUME NEW x \in Nat, x + 1 < 2 * CountLimit
  PROVE  ((x % CountLimit) + 1) % CountLimit = (x + 1) % CountLimit
<1>1. CountLimit \in Nat /\ CountLimit > 0
  OBVIOUS
<1>2. x % CountLimit = IF x < CountLimit THEN x ELSE x - CountLimit
  BY <1>1, Wraps
<1>3. (x + 1) % CountLimit = IF x + 1 < CountLimit THEN x + 1 ELSE x + 1 - CountLimit
  BY <1>1, Wraps
<1>4. CASE x < CountLimit
  BY <1>2, <1>4
<1>5. CASE ~ (x < CountLimit)
  <2>1. x % CountLimit = x - CountLimit /\ x - CountLimit + 1 \in Nat
        /\ x - CountLimit + 1 < CountLimit
    BY <1>1, <1>2, <1>5
  <2>2. (x - CountLimit + 1) % CountLimit = x - CountLimit + 1
    BY <1>1, <2>1, Wraps
  <2> QED
    BY <1>1, <1>3, <1>5, <2>1, <2>2
<1> QED
  BY <1>4, <1>5

LEMMA WrapsDown ==
  ASSUME NEW x \in Nat, x > 0, x < 2 * CountLimit
  PROVE  ((x % CountLimit) + CountLimit - 1) % CountLimit = (x - 1) % CountLimit
<1>1. CountLimit \in Nat /\ CountLimit > 0
  OBVIOUS
<1>2. x % CountLimit = IF x < CountLimit THEN x ELSE x - CountLimit
  BY <1>1, Wraps
<1>3. x - 1 \in Nat /\ x - 1 < 2 * CountLimit
  BY <1>1
<1>4. (x - 1) % CountLimit = IF x - 1 < CountLimit THEN x - 1 ELSE x - 1 - CountLimit
  BY <1>3, Wraps
<1>5. CASE x < CountLimit
  <2>1. x + CountLimit - 1 \in Nat /\ x + CountLimit - 1 < 2 * CountLimit
        /\ ~ (x + CountLimit - 1 < CountLimit)
    BY <1>1, <1>5
  <2>2. (x + CountLimit - 1) % CountLimit = x + CountLimit - 1 - CountLimit
    BY <2>1, Wraps
  <2> QED
    BY <1>1, <1>2, <1>4, <1>5, <2>2
<1>6. CASE ~ (x < CountLimit)
  <2>1. (x - CountLimit) + CountLimit - 1 = x - 1
    BY <1>1
  <2> QED
    BY <1>2, <1>6, <2>1
<1> QED
  BY <1>5, <1>6

EdgeAdding(th, k) == Does(th, {"create_edge"}, {"adjacency", "count"}, k)
EdgeErased(th, k) == Does(th, {"delete_edge"}, {"count"}, k)
NodeAdding(th, k) == Does(th, {"create_node"}, {"count"}, k)
NodeErased(th, k) == Does(th, {"delete_node"}, {"erase_lists", "count"}, k)

LEMMA CountedIs ==
  ASSUME G1
  PROVE  /\ \A e : e \in CountedEdges <=>
                \/ e \in Edges /\ ~ \E u \in Thread : EdgeAdding(u, e)
                \/ \E u \in Thread : EdgeErased(u, e)
         /\ \A n : n \in CountedNodes <=>
                \/ n \in Nodes /\ ~ \E u \in Thread : NodeAdding(u, n)
                \/ \E u \in Thread : NodeErased(u, n)
         /\ CountedEdges \subseteq Edge /\ CountedNodes \subseteq Node
<1>1. \A u \in Thread : Key(u) \in Id
  BY DEF G1, CallsOK, CallRec, Key
<1>2. \A e : e \in CountedEdges <=>
                \/ e \in Edges /\ ~ \E u \in Thread : EdgeAdding(u, e)
                \/ \E u \in Thread : EdgeErased(u, e)
  BY <1>1 DEF CountedEdges, Doing, EdgeAdding, EdgeErased, Does
<1>3. \A n : n \in CountedNodes <=>
                \/ n \in Nodes /\ ~ \E u \in Thread : NodeAdding(u, n)
                \/ \E u \in Thread : NodeErased(u, n)
  BY <1>1 DEF CountedNodes, Doing, NodeAdding, NodeErased, Does
<1>4. ASSUME NEW u \in Thread, NEW e, EdgeErased(u, e) PROVE e \in Edge
  BY <1>4, KeyTyped DEF EdgeErased, Does, OnEdge, EdgeOps
<1>5. ASSUME NEW u \in Thread, NEW n, NodeErased(u, n) PROVE n \in Node
  BY <1>5, KeyTyped DEF NodeErased, Does, OnEdge, EdgeOps
<1> QED
  BY <1>2, <1>3, <1>4, <1>5 DEF Edges, Nodes

\* Others go on with what they were doing.
LEMMA RolesOfOthers ==
  ASSUME NEW th \in Thread, Effects(th), NEW u \in Thread, u # th, NEW k
  PROVE  /\ EdgeAdding(u, k)' <=> EdgeAdding(u, k)
         /\ EdgeErased(u, k)' <=> EdgeErased(u, k)
         /\ NodeAdding(u, k)' <=> NodeAdding(u, k)
         /\ NodeErased(u, k)' <=> NodeErased(u, k)
BY DEF Effects, Others, EdgeAdding, EdgeErased, NodeAdding, NodeErased, Does, Op, Key

\* The steps that no counter waits for.
Plain(th) ==
    \/ FetchNodeId(th) \/ FetchEdgeId(th) \/ Allocate(th) \/ Write(th) \/ Lookup(th)
    \/ Read(th) \/ Parse(th) \/ AddAdjacency(th) \/ RemoveAdjacency(th) \/ CheckOutgoing(th)
    \/ CheckIncoming(th) \/ EraseLists(th)

SameRoles(th) ==
    \A k : /\ EdgeAdding(th, k)' <=> EdgeAdding(th, k)
           /\ EdgeErased(th, k)' <=> EdgeErased(th, k)
           /\ NodeAdding(th, k)' <=> NodeAdding(th, k)
           /\ NodeErased(th, k)' <=> NodeErased(th, k)

LEMMA PlainRoles ==
  ASSUME G1, NEW th \in Thread, Plain(th)
  PROVE  /\ SameRoles(th)
         /\ UNCHANGED <<node_page_index, edge_page_index, node_count, edge_count, absent>>
<1> USE DEF SameRoles, EdgeAdding, EdgeErased, NodeAdding, NodeErased, Does
<1>1. CASE FetchNodeId(th) \/ FetchEdgeId(th) \/ Allocate(th) \/ Write(th)
  <2>1. pc[th] \in {"fetch", "allocate", "write"} /\ pc'[th] \in {"allocate", "write", "index"}
    BY <1>1, G1Facts DEF FetchNodeId, FetchEdgeId, Allocate, Write, Goto, At
  <2> QED
    BY <1>1, <2>1 DEF FetchNodeId, FetchEdgeId, Allocate, Write, nodeVars, edgeVars, historyVars
<1>2. CASE Lookup(th) \/ Read(th)
  <2>1. pc[th] \in {"lookup", "read"} /\ pc'[th] \in {"idle", "read", "parse"}
    BY <1>2, LookupG1, ReadG1 DEF Lookup, Read, At
  <2> QED
    BY <1>2, <2>1 DEF Lookup, Read, nodeVars, edgeVars, historyVars
<1>3. CASE Parse(th)
  <2>1. /\ pc[th] = "parse" /\ pc'[th] \in {"idle", "adjacency", "allocate"}
        /\ pc'[th] = "adjacency" => call'[th].op = "delete_edge"
    BY <1>3, ParseG1 DEF Parse, At, ParsedOn, Op
  <2> QED
    BY <1>3, <2>1 DEF Parse, nodeVars, edgeVars, historyVars, Op
<1>4. CASE AddAdjacency(th)
  <2>1. /\ pc[th] = "adjacency" /\ pc'[th] = "count" /\ call' = call /\ Op(th) = "create_edge"
    BY <1>4, AddAdjacencyG1 DEF AddAdjacency, At
  <2> QED
    BY <1>4, <2>1 DEF AddAdjacency, nodeVars, edgeVars, historyVars, Op, Key
<1>5. CASE RemoveAdjacency(th)
  <2>1. /\ pc[th] = "adjacency" /\ pc'[th] = "erase" /\ call' = call /\ Op(th) = "delete_edge"
    BY <1>5, RemoveAdjacencyG1 DEF RemoveAdjacency, At
  <2> QED
    BY <1>5, <2>1 DEF RemoveAdjacency, nodeVars, edgeVars, historyVars, Op, Key
<1>6. CASE CheckOutgoing(th) \/ CheckIncoming(th)
  <2>1. /\ pc[th] \in {"outgoing", "incoming"} /\ pc'[th] \in {"idle", "incoming", "erase"}
    BY <1>6, CheckOutgoingG1, CheckIncomingG1 DEF CheckOutgoing, CheckIncoming, At
  <2> QED
    BY <1>6, <2>1 DEF CheckOutgoing, CheckIncoming, nodeVars, edgeVars, historyVars
<1>7. CASE EraseLists(th)
  <2>1. /\ pc[th] = "erase_lists" /\ pc'[th] = "count" /\ call' = call /\ Op(th) = "delete_node"
    BY <1>7, EraseListsG1 DEF EraseLists, At
  <2> QED
    BY <1>7, <2>1 DEF EraseLists, nodeVars, edgeVars, historyVars, Op, Key
<1> QED
  BY <1>1, <1>2, <1>3, <1>4, <1>5, <1>6, <1>7 DEF Plain

\* The same of the next state, with what others do there as it was.
LEMMA CountedNext ==
  ASSUME G1', NEW th \in Thread, Effects(th)
  PROVE  /\ \A e : e \in CountedEdges' <=>
                \/ /\ e \in Edges' /\ ~ EdgeAdding(th, e)'
                   /\ ~ \E u \in Thread \ {th} : EdgeAdding(u, e)
                \/ EdgeErased(th, e)' \/ \E u \in Thread \ {th} : EdgeErased(u, e)
         /\ \A n : n \in CountedNodes' <=>
                \/ /\ (n \in Nodes)' /\ ~ NodeAdding(th, n)'
                   /\ ~ \E u \in Thread \ {th} : NodeAdding(u, n)
                \/ NodeErased(th, n)' \/ \E u \in Thread \ {th} : NodeErased(u, n)
<1>1. \A u \in Thread : Key(u)' \in Id
  BY DEF G1, CallsOK, CallRec, Key
<1>2. \A e : e \in CountedEdges' <=>
                \/ e \in Edges' /\ ~ \E u \in Thread : EdgeAdding(u, e)'
                \/ \E u \in Thread : EdgeErased(u, e)'
  BY <1>1 DEF CountedEdges, Doing, EdgeAdding, EdgeErased, Does
<1>3. \A n : n \in CountedNodes' <=>
                \/ (n \in Nodes)' /\ ~ \E u \in Thread : NodeAdding(u, n)'
                \/ \E u \in Thread : NodeErased(u, n)'
  BY <1>1 DEF CountedNodes, Doing, NodeAdding, NodeErased, Does
<1>4. ASSUME NEW e
      PROVE  e \in CountedEdges' <=>
                \/ /\ e \in Edges' /\ ~ EdgeAdding(th, e)'
                   /\ ~ \E u \in Thread \ {th} : EdgeAdding(u, e)
                \/ EdgeErased(th, e)' \/ \E u \in Thread \ {th} : EdgeErased(u, e)
  BY <1>2, RolesOfOthers
<1>5. ASSUME NEW n
      PROVE  n \in CountedNodes' <=>
                \/ /\ (n \in Nodes)' /\ ~ NodeAdding(th, n)'
                   /\ ~ \E u \in Thread \ {th} : NodeAdding(u, n)
                \/ NodeErased(th, n)' \/ \E u \in Thread \ {th} : NodeErased(u, n)
  BY <1>3, RolesOfOthers
<1> QED
  BY <1>4, <1>5

\* No other call is at the key of one that creates or deletes it.
LEMMA AloneAtKey ==
  ASSUME G1, FreshKeys, Peace, NEW th \in Thread, NEW u \in Thread, u # th
  PROVE  /\ Op(th) \in {"create_edge", "delete_edge"} =>
                ~ EdgeErased(u, Key(th)) /\ ~ EdgeAdding(u, Key(th))
         /\ Op(th) \in {"create_node", "delete_node"} =>
                ~ NodeErased(u, Key(th)) /\ ~ NodeAdding(u, Key(th))
<1>1. pc[u] \notin {"idle", "fetch"} => Key(u) # 0
  BY KeyIsOld
<1>2. CASE Op(th) = "create_edge"
  BY <1>1, <1>2 DEF FreshKeys, Peace, Creates, EdgeErased, EdgeAdding, Does
<1>3. CASE Op(th) = "delete_edge"
  BY <1>1, <1>3 DEF Peace, EdgeErased, EdgeAdding, Does, Reads, Rewrites
<1>4. CASE Op(th) = "create_node"
  BY <1>1, <1>4 DEF FreshKeys, Peace, Creates, NodeErased, NodeAdding, Does
<1>5. CASE Op(th) = "delete_node"
  BY <1>1, <1>5 DEF Peace, NodeErased, NodeAdding, Does
<1> QED
  BY <1>2, <1>3, <1>4, <1>5

LEMMA EdgesCounted ==
  ASSUME G2, ~ raced, NEW th \in Thread, Step(th)
  PROVE  /\ ~ (Count(th) /\ OnEdge(th)) => CountedEdges' = CountedEdges
         /\ Count(th) /\ Op(th) = "create_edge" =>
                Key(th) \notin CountedEdges /\ CountedEdges' = CountedEdges \cup {Key(th)}
         /\ Count(th) /\ Op(th) = "delete_edge" =>
                Key(th) \in CountedEdges /\ CountedEdges' = CountedEdges \ {Key(th)}
<1>1. G1 /\ G1' /\ FreshKeys /\ Peace /\ Relies(th) /\ Effects(th)
  BY StepEffects DEF G2, Calm
<1>2. edge_page_index \in [Edge -> Store!Page \cup {0}]
  BY <1>1 DEF G1, GSTypeOK
<1> DEFINE Busy(e) == \E u \in Thread \ {th} : EdgeAdding(u, e)
           Gone(e) == \E u \in Thread \ {th} : EdgeErased(u, e)
<1>3. \A e : e \in CountedEdges <=>
              \/ e \in Edges /\ ~ EdgeAdding(th, e) /\ ~ Busy(e)
              \/ EdgeErased(th, e) \/ Gone(e)
  BY <1>1, CountedIs
<1>4. \A e : e \in CountedEdges' <=>
              \/ e \in Edges' /\ ~ EdgeAdding(th, e)' /\ ~ Busy(e)
              \/ EdgeErased(th, e)' \/ Gone(e)
  BY <1>1, CountedNext
<1>5. Op(th) \in {"create_edge", "delete_edge"} => ~ Gone(Key(th)) /\ ~ Busy(Key(th))
  BY <1>1, AloneAtKey
<1> HIDE DEF Busy, Gone
<1> DEFINE Role(e) == \/ e \in Edges /\ ~ EdgeAdding(th, e) /\ ~ Busy(e)
                      \/ EdgeErased(th, e) \/ Gone(e)
           RoleNext(e) == \/ e \in Edges' /\ ~ EdgeAdding(th, e)' /\ ~ Busy(e)
                          \/ EdgeErased(th, e)' \/ Gone(e)
<1>a. ASSUME \A e : RoleNext(e) <=> Role(e) PROVE CountedEdges' = CountedEdges
  <2>1. \A e : e \in CountedEdges' <=> e \in CountedEdges
    BY <1>a, <1>3, <1>4
  <2> QED
    BY <2>1
<1>6. CASE Plain(th)
  <2>1. SameRoles(th) /\ edge_page_index' = edge_page_index /\ ~ Count(th)
    <3>1. ~ Count(th)
      <4>1. pc[th] # "count"
        BY <1>6 DEF Plain, FetchNodeId, FetchEdgeId, Allocate, Write, Lookup, Read, Parse,
           AddAdjacency, RemoveAdjacency, CheckOutgoing, CheckIncoming, EraseLists, At
      <4> QED
        BY <4>1 DEF Count, At
    <3> QED
      BY <1>1, <1>6, <3>1, PlainRoles
  <2>2. \A e : e \in Edges' <=> e \in Edges
    BY <2>1 DEF Edges
  <2>3. \A e : RoleNext(e) <=> Role(e)
    BY <2>1, <2>2 DEF SameRoles
  <2> QED
    BY <1>a, <2>1, <2>3
<1>7. CASE IndexNode(th) \/ EraseNode(th)
  <2>1. /\ edge_page_index' = edge_page_index /\ ~ Count(th)
        /\ ~ OnEdge(th)
    BY <1>7 DEF IndexNode, EraseNode, edgeVars, Count, At, OnEdge, EdgeOps
  <2>2. \A e : ~ EdgeAdding(th, e) /\ ~ EdgeErased(th, e)
    BY <2>1 DEF EdgeAdding, EdgeErased, Does, OnEdge, EdgeOps
  <2>3. \A e : ~ EdgeAdding(th, e)' /\ ~ EdgeErased(th, e)'
    <3>0. call \in [Thread -> CallRec]
      BY <1>1 DEF G1, CallsOK
    <3>1. call'[th] = call[th] \/ call'[th] = NoCall
      BY <1>7, <3>0 DEF IndexNode, EraseNode, Return, threadVars
    <3>2. NoCall.op = "none"
      BY DEF NoCall
    <3>3. call'[th].op \notin {"create_edge", "delete_edge"}
      BY <2>1, <3>1, <3>2 DEF OnEdge, EdgeOps, Op
    <3> QED
      BY <3>3 DEF EdgeAdding, EdgeErased, Does, Op
  <2>4. \A e : e \in Edges' <=> e \in Edges
    BY <2>1 DEF Edges
  <2>5. \A e : RoleNext(e) <=> Role(e)
    BY <2>2, <2>3, <2>4
  <2> QED
    BY <1>a, <2>1, <2>5
<1>8. CASE IndexEdge(th)
  <2>1. /\ At(th, "index") /\ OnEdge(th) /\ ~ Count(th)
        /\ edge_page_index' = [edge_page_index EXCEPT ![Key(th)] = page[th]]
    BY <1>8 DEF IndexEdge, Count, At
  <2>2. Key(th) \in Edge /\ page[th] # 0
    BY <1>1, <1>8, <2>1, IndexEdgeG1, MoverIs
  <2>3. \A e : ~ EdgeAdding(th, e) /\ ~ EdgeErased(th, e)
    BY <2>1 DEF EdgeAdding, EdgeErased, Does, At
  <2>4. Key(th) \in Edges' /\ \A e : e # Key(th) => (e \in Edges' <=> e \in Edges)
    BY <1>2, <2>1, <2>2 DEF Edges
  <2>5. CASE Op(th) = "create_edge"
    <3>1. /\ pc'[th] = "adjacency" /\ call' = call
      BY <1>1, <1>8, <2>5, IndexEdgeG1 DEF threadVars
    <3>2. \A e : ~ EdgeErased(th, e)' /\ (EdgeAdding(th, e)' <=> e = Key(th))
      BY <2>5, <3>1 DEF EdgeErased, EdgeAdding, Does, Op, Key
    <3>3. Key(th) \notin Edges
      BY <1>1, <2>1, <2>5 DEF Relies, At, Creates, PageOf, Edges
    <3>4. \A e : RoleNext(e) <=> Role(e)
      BY <1>5, <2>3, <2>4, <2>5, <3>2, <3>3
    <3> QED
      BY <1>a, <2>1, <3>4
  <2>6. CASE Op(th) # "create_edge"
    <3>1. pc'[th] = "idle"
      BY <1>1, <1>8, <2>6, IndexEdgeG1
    <3>2. \A e : ~ EdgeErased(th, e)' /\ ~ EdgeAdding(th, e)'
      BY <3>1 DEF EdgeErased, EdgeAdding, Does
    <3>3. Op(th) \in Rewrites
      BY <1>1, <2>1, <2>6, MoverIs DEF OnEdge, EdgeOps, Rewrites
    <3>4. Key(th) \in Edges
      BY <1>1, <2>1, <2>2, <3>3 DEF Relies, At, PageOf, Edges
    <3>5. \A e : RoleNext(e) <=> Role(e)
      BY <2>3, <2>4, <3>2, <3>4
    <3> QED
      BY <1>a, <2>1, <3>5
  <2> QED
    BY <2>5, <2>6
<1>9. CASE EraseEdge(th)
  <2>1. /\ Op(th) = "delete_edge" /\ Key(th) \in Edge /\ pc[th] = "erase" /\ pc'[th] = "count"
        /\ call' = call
    BY <1>1, <1>9, EraseEdgeG1 DEF EraseEdge, At
  <2>2. edge_page_index' = [edge_page_index EXCEPT ![Key(th)] = 0] /\ ~ Count(th)
    BY <1>9 DEF EraseEdge, Count, At
  <2>3. /\ \A e : ~ EdgeAdding(th, e) /\ ~ EdgeErased(th, e)
        /\ \A e : ~ EdgeAdding(th, e)' /\ (EdgeErased(th, e)' <=> e = Key(th))
    BY <2>1 DEF EdgeAdding, EdgeErased, Does, Op, Key
  <2>4. Key(th) \in Edges
    BY <1>1, <2>1 DEF Relies, Rewrites, PageOf, OnEdge, EdgeOps, Edges
  <2>5. Key(th) \notin Edges' /\ \A e : e # Key(th) => (e \in Edges' <=> e \in Edges)
    BY <1>2, <2>1, <2>2 DEF Edges
  <2>6. \A e : RoleNext(e) <=> Role(e)
    BY <1>5, <2>1, <2>3, <2>4, <2>5
  <2> QED
    BY <1>a, <2>2, <2>6
<1>10. CASE Count(th)
  <2>1. pc[th] = "count" /\ pc'[th] = "idle" /\ edge_page_index' = edge_page_index
    BY <1>1, <1>10, CountG1 DEF Count, At
  <2>2. \A e : ~ EdgeAdding(th, e)' /\ ~ EdgeErased(th, e)'
    BY <2>1 DEF EdgeAdding, EdgeErased, Does
  <2>3. \A e : e \in Edges' <=> e \in Edges
    BY <2>1 DEF Edges
  <2>4. CASE Op(th) = "create_edge"
    <3>1. \A e : ~ EdgeErased(th, e) /\ (EdgeAdding(th, e) <=> e = Key(th))
      BY <2>1, <2>4 DEF EdgeErased, EdgeAdding, Does
    <3>2. Key(th) \in Edges
      BY <1>1, <2>1, <2>4, KeyTyped DEF Relies, Creates, PageOf, OnEdge, EdgeOps, Edges
    <3> QED
      BY <1>3, <1>4, <1>5, <1>10, <2>2, <2>3, <2>4, <3>1, <3>2 DEF OnEdge, EdgeOps
  <2>5. CASE Op(th) = "delete_edge"
    <3>1. \A e : ~ EdgeAdding(th, e) /\ (EdgeErased(th, e) <=> e = Key(th))
      BY <2>1, <2>5 DEF EdgeErased, EdgeAdding, Does
    <3>2. Key(th) \notin Edges
      BY <1>1, <2>1, <2>5 DEF Relies, PageOf, OnEdge, EdgeOps, Edges
    <3> QED
      BY <1>3, <1>4, <1>5, <1>10, <2>2, <2>3, <2>5, <3>1, <3>2 DEF OnEdge, EdgeOps
  <2>6. CASE ~ OnEdge(th)
    <3>1. \A e : ~ EdgeAdding(th, e) /\ ~ EdgeErased(th, e)
      BY <2>6 DEF EdgeErased, EdgeAdding, Does, OnEdge, EdgeOps
    <3>2. \A e : RoleNext(e) <=> Role(e)
      BY <2>2, <2>3, <3>1
    <3> QED
      BY <1>a, <2>6, <3>2 DEF OnEdge, EdgeOps
  <2> QED
    BY <1>1, <1>10, <2>4, <2>5, <2>6, CountG1 DEF OnEdge, EdgeOps
<1> QED
  BY <1>6, <1>7, <1>8, <1>9, <1>10 DEF Step, Plain

LEMMA NodesCounted ==
  ASSUME G2, ~ raced, NEW th \in Thread, Step(th)
  PROVE  /\ ~ EraseNode(th) /\ ~ (Count(th) /\ ~ OnEdge(th)) => CountedNodes' = CountedNodes
         /\ EraseNode(th) => /\ CountedNodes' = CountedNodes \cup {Key(th)}
                             /\ Key(th) \in CountedNodes <=> PageOf(th) # 0
         /\ Count(th) /\ Op(th) = "create_node" =>
                Key(th) \notin CountedNodes /\ CountedNodes' = CountedNodes \cup {Key(th)}
         /\ Count(th) /\ Op(th) = "delete_node" =>
                Key(th) \in CountedNodes /\ CountedNodes' = CountedNodes \ {Key(th)}
<1>1. G1 /\ G1' /\ FreshKeys /\ Peace /\ Relies(th) /\ Effects(th)
  BY StepEffects DEF G2, Calm
<1>2. node_page_index \in [Node -> Store!Page \cup {0}]
  BY <1>1 DEF G1, GSTypeOK
<1> DEFINE Busy(n) == \E u \in Thread \ {th} : NodeAdding(u, n)
           Gone(n) == \E u \in Thread \ {th} : NodeErased(u, n)
           Role(n) == \/ n \in Nodes /\ ~ NodeAdding(th, n) /\ ~ Busy(n)
                      \/ NodeErased(th, n) \/ Gone(n)
           RoleNext(n) == \/ n \in Nodes' /\ ~ NodeAdding(th, n)' /\ ~ Busy(n)
                          \/ NodeErased(th, n)' \/ Gone(n)
<1>3. \A n : n \in CountedNodes <=> Role(n)
  BY <1>1, CountedIs
<1>4. \A n : n \in CountedNodes' <=> RoleNext(n)
  BY <1>1, CountedNext
<1>5. Op(th) \in {"create_node", "delete_node"} => ~ Gone(Key(th)) /\ ~ Busy(Key(th))
  BY <1>1, AloneAtKey
<1> HIDE DEF Busy, Gone
<1>a. ASSUME \A n : RoleNext(n) <=> Role(n) PROVE CountedNodes' = CountedNodes
  <2>1. \A n : n \in CountedNodes' <=> n \in CountedNodes
    BY <1>a, <1>3, <1>4
  <2> QED
    BY <2>1
<1>6. CASE Plain(th)
  <2>0. pc[th] # "count" /\ ~ (pc[th] = "erase" /\ Op(th) = "delete_node")
    BY <1>6 DEF Plain, FetchNodeId, FetchEdgeId, Allocate, Write, Lookup, Read, Parse,
         AddAdjacency, RemoveAdjacency, CheckOutgoing, CheckIncoming, EraseLists, At
  <2>1. SameRoles(th) /\ node_page_index' = node_page_index /\ ~ Count(th) /\ ~ EraseNode(th)
    BY <1>1, <1>6, <2>0, PlainRoles DEF Count, EraseNode, At
  <2>2. \A n : n \in Nodes' <=> n \in Nodes
    BY <2>1 DEF Nodes
  <2>3. \A n : RoleNext(n) <=> Role(n)
    BY <2>1, <2>2 DEF SameRoles
  <2> QED
    BY <1>a, <2>1, <2>3
<1>7. CASE IndexEdge(th) \/ EraseEdge(th)
  <2>0. Op(th) # "delete_node" /\ Op(th) # "create_node" /\ pc[th] # "count"
    BY <1>7 DEF IndexEdge, EraseEdge, At, OnEdge, EdgeOps
  <2>1. node_page_index' = node_page_index /\ ~ Count(th) /\ ~ EraseNode(th)
    BY <1>7, <2>0 DEF IndexEdge, EraseEdge, nodeVars, Count, EraseNode, At
  <2>2. \A n : ~ NodeAdding(th, n) /\ ~ NodeErased(th, n)
    BY <2>0 DEF NodeAdding, NodeErased, Does
  <2>3. \A n : ~ NodeAdding(th, n)' /\ ~ NodeErased(th, n)'
    <3>1. call \in [Thread -> CallRec]
      BY <1>1 DEF G1, CallsOK
    <3>2. call'[th] = call[th] \/ call'[th] = NoCall
      BY <1>7, <3>1 DEF IndexEdge, EraseEdge, Return, threadVars
    <3>3. NoCall.op = "none"
      BY DEF NoCall
    <3>4. call'[th].op \notin {"create_node", "delete_node"}
      BY <2>0, <3>2, <3>3 DEF Op
    <3> QED
      BY <3>4 DEF NodeAdding, NodeErased, Does, Op
  <2>4. \A n : n \in Nodes' <=> n \in Nodes
    BY <2>1 DEF Nodes
  <2>5. \A n : RoleNext(n) <=> Role(n)
    BY <2>2, <2>3, <2>4
  <2> QED
    BY <1>a, <2>1, <2>5
<1>8. CASE IndexNode(th)
  <2>1. /\ At(th, "index") /\ ~ OnEdge(th) /\ ~ Count(th) /\ ~ EraseNode(th)
        /\ node_page_index' = [node_page_index EXCEPT ![Key(th)] = page[th]]
    BY <1>8 DEF IndexNode, Count, EraseNode, At
  <2>2. Key(th) \in Node /\ page[th] # 0
    BY <1>1, <1>8, <2>1, IndexNodeG1, MoverIs
  <2>3. \A n : ~ NodeAdding(th, n) /\ ~ NodeErased(th, n)
    BY <2>1 DEF NodeAdding, NodeErased, Does, At
  <2>4. Key(th) \in Nodes' /\ \A n : n # Key(th) => (n \in Nodes' <=> n \in Nodes)
    BY <1>2, <2>1, <2>2 DEF Nodes
  <2>5. CASE Op(th) = "create_node"
    <3>1. /\ pc'[th] = "count" /\ call' = call
      BY <1>1, <1>8, <2>5, IndexNodeG1 DEF threadVars
    <3>2. \A n : ~ NodeErased(th, n)' /\ (NodeAdding(th, n)' <=> n = Key(th))
      BY <2>5, <3>1 DEF NodeErased, NodeAdding, Does, Op, Key
    <3>3. Key(th) \notin Nodes
      BY <1>1, <2>1, <2>5 DEF Relies, At, Creates, PageOf, Nodes
    <3>4. \A n : RoleNext(n) <=> Role(n)
      BY <1>5, <2>3, <2>4, <2>5, <3>2, <3>3
    <3> QED
      BY <1>a, <2>1, <3>4
  <2>6. CASE Op(th) # "create_node"
    <3>1. pc'[th] = "idle"
      BY <1>1, <1>8, <2>6, IndexNodeG1
    <3>2. \A n : ~ NodeErased(th, n)' /\ ~ NodeAdding(th, n)'
      BY <3>1 DEF NodeErased, NodeAdding, Does
    <3>3. Op(th) \in Rewrites
      BY <1>1, <2>1, <2>6, MoverIs DEF OnEdge, EdgeOps, Rewrites
    <3>4. Key(th) \in Nodes
      BY <1>1, <2>1, <2>2, <3>3 DEF Relies, At, PageOf, Nodes
    <3>5. \A n : RoleNext(n) <=> Role(n)
      BY <2>3, <2>4, <3>2, <3>4
    <3> QED
      BY <1>a, <2>1, <3>5
  <2> QED
    BY <2>5, <2>6
<1>9. CASE EraseNode(th)
  <2>1. /\ Op(th) = "delete_node" /\ Key(th) \in Node /\ pc[th] = "erase"
        /\ pc'[th] = "erase_lists" /\ call' = call
    BY <1>1, <1>9, EraseNodeG1 DEF EraseNode, At
  <2>2. node_page_index' = [node_page_index EXCEPT ![Key(th)] = 0] /\ ~ Count(th)
    BY <1>9 DEF EraseNode, Count, At
  <2>3. /\ \A n : ~ NodeAdding(th, n) /\ ~ NodeErased(th, n)
        /\ \A n : ~ NodeAdding(th, n)' /\ (NodeErased(th, n)' <=> n = Key(th))
    BY <2>1 DEF NodeAdding, NodeErased, Does, Op, Key
  <2>4. \A n : n # Key(th) => (n \in Nodes' <=> n \in Nodes)
    BY <1>2, <2>1, <2>2 DEF Nodes
  <2>5. Key(th) \in Nodes <=> PageOf(th) # 0
    BY <2>1 DEF Nodes, PageOf, OnEdge, EdgeOps
  <2>6. Key(th) \in CountedNodes <=> PageOf(th) # 0
    BY <1>3, <1>5, <2>1, <2>3, <2>5
  <2>7. \A n : n \in CountedNodes' <=> n \in CountedNodes \/ n = Key(th)
    BY <1>3, <1>4, <2>3, <2>4
  <2>8. CountedNodes' = CountedNodes \cup {Key(th)}
    BY <2>7
  <2> QED
    BY <1>9, <2>2, <2>6, <2>8
<1>10. CASE Count(th)
  <2>1. /\ pc[th] = "count" /\ pc'[th] = "idle" /\ node_page_index' = node_page_index
        /\ ~ EraseNode(th)
    BY <1>1, <1>10, CountG1 DEF Count, EraseNode, At
  <2>2. \A n : ~ NodeAdding(th, n)' /\ ~ NodeErased(th, n)'
    BY <2>1 DEF NodeAdding, NodeErased, Does
  <2>3. \A n : n \in Nodes' <=> n \in Nodes
    BY <2>1 DEF Nodes
  <2>4. CASE Op(th) = "create_node"
    <3>1. \A n : ~ NodeErased(th, n) /\ (NodeAdding(th, n) <=> n = Key(th))
      BY <2>1, <2>4 DEF NodeErased, NodeAdding, Does
    <3>2. Key(th) \in Nodes
      BY <1>1, <2>1, <2>4, KeyTyped DEF Relies, Creates, PageOf, OnEdge, EdgeOps, Nodes
    <3>3. Key(th) \notin CountedNodes
      BY <1>3, <1>5, <2>4, <3>1
    <3>4. \A n : n \in CountedNodes' <=> n \in CountedNodes \/ n = Key(th)
      BY <1>3, <1>4, <1>5, <2>2, <2>3, <2>4, <3>1, <3>2
    <3>5. CountedNodes' = CountedNodes \cup {Key(th)}
      BY <3>4
    <3> QED
      BY <1>10, <2>1, <2>4, <3>3, <3>5 DEF OnEdge, EdgeOps
  <2>5. CASE Op(th) = "delete_node"
    <3>1. \A n : ~ NodeAdding(th, n) /\ (NodeErased(th, n) <=> n = Key(th))
      BY <2>1, <2>5 DEF NodeErased, NodeAdding, Does
    <3>2. Key(th) \notin Nodes
      BY <1>1, <2>1, <2>5 DEF Relies, PageOf, OnEdge, EdgeOps, Nodes
    <3>3. Key(th) \in CountedNodes
      BY <1>3, <3>1
    <3>4. \A n : n \in CountedNodes' <=> n \in CountedNodes /\ n # Key(th)
      BY <1>3, <1>4, <1>5, <2>2, <2>3, <2>5, <3>1, <3>2
    <3>5. CountedNodes' = CountedNodes \ {Key(th)}
      BY <3>4
    <3> QED
      BY <1>10, <2>1, <2>5, <3>3, <3>5 DEF OnEdge, EdgeOps
  <2>6. CASE OnEdge(th)
    <3>1. \A n : ~ NodeAdding(th, n) /\ ~ NodeErased(th, n)
      BY <2>6 DEF NodeErased, NodeAdding, Does, OnEdge, EdgeOps
    <3>2. \A n : RoleNext(n) <=> Role(n)
      BY <2>2, <2>3, <3>1
    <3> QED
      BY <1>a, <2>1, <2>6, <3>2 DEF OnEdge, EdgeOps
  <2> QED
    BY <1>1, <1>10, <2>4, <2>5, <2>6, CountG1 DEF OnEdge, EdgeOps
<1> QED
  BY <1>6, <1>7, <1>8, <1>9, <1>10 DEF Step, Plain

\* No more are counted than there are identifiers, and one more or less is one.
LEMMA CountedFew ==
  ASSUME G1
  PROVE  /\ Cardinality(CountedEdges) \in Nat /\ Cardinality(CountedEdges) <= MaxEdge
         /\ Cardinality(CountedNodes) \in Nat /\ Cardinality(CountedNodes) <= MaxNode
         /\ \A k \in Edge \ CountedEdges :
                Cardinality(CountedEdges \cup {k}) = Cardinality(CountedEdges) + 1
         /\ \A k \in CountedEdges : /\ Cardinality(CountedEdges) > 0
                /\ Cardinality(CountedEdges \ {k}) = Cardinality(CountedEdges) - 1
         /\ \A k \in Node \ CountedNodes :
                Cardinality(CountedNodes \cup {k}) = Cardinality(CountedNodes) + 1
         /\ \A k \in CountedNodes : /\ Cardinality(CountedNodes) > 0
                /\ Cardinality(CountedNodes \ {k}) = Cardinality(CountedNodes) - 1
<1>1. CountedEdges \in SUBSET (1 .. MaxEdge) /\ CountedNodes \in SUBSET (1 .. MaxNode)
  BY CountedIs DEF Edge, Node
<1>2. MaxEdge \in Nat /\ MaxNode \in Nat
  OBVIOUS
<1> QED
  BY <1>1, <1>2, Few DEF Edge, Node

LEMMA CountedFewNext ==
  ASSUME G1'
  PROVE  /\ Cardinality(CountedEdges') \in Nat /\ Cardinality(CountedEdges') <= MaxEdge
         /\ Cardinality(CountedNodes') \in Nat /\ Cardinality(CountedNodes') <= MaxNode
<1>1. /\ \A u \in Thread : EdgeErased(u, Key(u))' => Key(u)' \in Edge
      /\ \A u \in Thread : NodeErased(u, Key(u))' => Key(u)' \in Node
  <2>1. ASSUME NEW u \in Thread, pc'[u] \notin {"idle", "fetch"}
        PROVE  Key(u)' \in IF OnEdge(u)' THEN Edge ELSE Node
    <3>1. KeyOK(u)'
      BY DEF G1, CallsOK, CallOK
    <3>2. next_node_id' \in 1 .. MaxNode + 1 /\ next_edge_id' \in 1 .. MaxEdge + 1
      BY DEF G1, GSTypeOK
    <3> QED
      BY <2>1, <3>1, <3>2 DEF KeyOK, Key, OnEdge, Node, Edge, Op
  <2> QED
    BY <2>1 DEF EdgeErased, NodeErased, Does, OnEdge, EdgeOps
<1>2. CountedEdges' \subseteq Edge /\ CountedNodes' \subseteq Node
  BY <1>1 DEF CountedEdges, CountedNodes, Doing, Does, Edges, Nodes, EdgeErased, NodeErased
<1>3. CountedEdges' \in SUBSET (1 .. MaxEdge) /\ CountedNodes' \in SUBSET (1 .. MaxNode)
  BY <1>2 DEF Edge, Node
<1>4. MaxEdge \in Nat /\ MaxNode \in Nat
  OBVIOUS
<1> QED
  BY <1>3, <1>4, Few

LEMMA CountersStep ==
  ASSUME G2, ~ raced, CountsRight, NEW th \in Thread, Step(th)
  PROVE  CountsRight'
<1>1. G1 /\ G1'
  BY StepEffects DEF G2
<1> DEFINE ce == Cardinality(CountedEdges)
           cn == Cardinality(CountedNodes)
<1>2. /\ ce \in Nat /\ ce <= MaxEdge /\ cn \in Nat /\ cn <= MaxNode
      /\ absent \in Nat /\ absent < CountLimit
      /\ edge_count = ce /\ node_count = (cn + CountLimit - absent) % CountLimit
  BY <1>1, CountedFew DEF CountsRight, G1, GSTypeOK
<1>3. /\ Cardinality(CountedEdges') \in Nat /\ Cardinality(CountedEdges') <= MaxEdge
      /\ Cardinality(CountedNodes') \in Nat /\ Cardinality(CountedNodes') <= MaxNode
  BY <1>1, CountedFewNext
<1>4. /\ \A k \in Edge \ CountedEdges : Cardinality(CountedEdges \cup {k}) = ce + 1
      /\ \A k \in CountedEdges : ce > 0 /\ Cardinality(CountedEdges \ {k}) = ce - 1
      /\ \A k \in Node \ CountedNodes : Cardinality(CountedNodes \cup {k}) = cn + 1
      /\ \A k \in CountedNodes : cn > 0 /\ Cardinality(CountedNodes \ {k}) = cn - 1
  BY <1>1, CountedFew
<1> HIDE DEF ce, cn
<1>5. CASE ~ Count(th) /\ ~ EraseNode(th)
  <2>1. CountedEdges' = CountedEdges /\ CountedNodes' = CountedNodes
    BY <1>5, EdgesCounted, NodesCounted
  <2>2. UNCHANGED <<node_count, edge_count, absent>>
    BY <1>1, <1>5, PlainRoles DEF Step, Plain, IndexNode, IndexEdge, EraseEdge, nodeVars,
       edgeVars, historyVars
  <2> QED
    BY <2>1, <2>2 DEF CountsRight
<1>6. CASE EraseNode(th)
  <2>1. ~ Count(th)
    BY <1>6 DEF EraseNode, Count, At
  <2>2. /\ CountedEdges' = CountedEdges /\ CountedNodes' = CountedNodes \cup {Key(th)}
        /\ Key(th) \in CountedNodes <=> PageOf(th) # 0
    BY <1>6, <2>1, EdgesCounted, NodesCounted
  <2>3. /\ UNCHANGED <<node_count, edge_count>> /\ Key(th) \in Node
        /\ absent' = IF PageOf(th) = 0 THEN absent + 1 ELSE absent
        /\ absent' < CountLimit - MaxNode
    BY <1>1, <1>6, EraseNodeG1 DEF EraseNode, edgeVars
  <2>4. absent' \in Nat /\ absent' < CountLimit
    BY <1>2, <2>3
  <2>5. Cardinality(CountedNodes') + CountLimit - absent' = cn + CountLimit - absent
    <3>1. CASE PageOf(th) = 0
      <4>1. Cardinality(CountedNodes') = cn + 1 /\ absent' = absent + 1
        BY <1>4, <2>2, <2>3, <3>1
      <4> QED
        BY <1>2, <4>1
    <3>2. CASE PageOf(th) # 0
      <4>1. CountedNodes' = CountedNodes /\ absent' = absent
        BY <2>2, <2>3, <3>2
      <4> QED
        BY <4>1 DEF cn
    <3> QED
      BY <3>1, <3>2
  <2> QED
    BY <1>2, <2>2, <2>3, <2>4, <2>5 DEF CountsRight, ce
<1>7. CASE Count(th) /\ OnEdge(th)
  <2>1. /\ edge_count' = Counted(th, edge_count) /\ node_count' = node_count
        /\ absent' = absent /\ ~ EraseNode(th)
    BY <1>7 DEF Count, EraseNode, At, historyVars
  <2>2. Op(th) \in {"create_edge", "delete_edge"} /\ Key(th) \in Edge
    BY <1>1, <1>7, CountG1 DEF OnEdge, EdgeOps
  <2>3. CountedNodes' = CountedNodes
    BY <1>7, <2>1, NodesCounted
  <2>4. CASE Op(th) = "create_edge"
    <3>1. Cardinality(CountedEdges') = ce + 1
      BY <1>4, <1>7, <2>2, <2>4, EdgesCounted
    <3>2. edge_count' = (ce + 1) % CountLimit
      BY <1>2, <2>1, <2>4 DEF Counted
    <3>3. ce + 1 \in Nat /\ ce + 1 < CountLimit /\ ce + 1 < 2 * CountLimit
      BY <1>2, <1>3, <3>1
    <3>4. edge_count' = ce + 1
      BY <3>2, <3>3, Wraps
    <3> QED
      BY <1>2, <2>1, <2>3, <3>1, <3>4 DEF CountsRight, cn
  <2>5. CASE Op(th) = "delete_edge"
    <3>1. Cardinality(CountedEdges') = ce - 1 /\ ce > 0
      BY <1>4, <1>7, <2>2, <2>5, EdgesCounted
    <3>2. edge_count' = (ce + CountLimit - 1) % CountLimit
      BY <1>2, <2>1, <2>5 DEF Counted
    <3>3. /\ ce + CountLimit - 1 \in Nat /\ ~ (ce + CountLimit - 1 < CountLimit)
          /\ ce + CountLimit - 1 < 2 * CountLimit
      BY <1>2, <3>1
    <3> DEFINE y == ce + CountLimit - 1
    <3>4. edge_count' = y % CountLimit /\ y \in Nat /\ ~ (y < CountLimit) /\ y < 2 * CountLimit
          /\ y - CountLimit = ce - 1
      BY <1>2, <3>2, <3>3
    <3> HIDE DEF y
    <3>5. edge_count' = ce - 1
      BY <3>4, Wraps
    <3> QED
      BY <1>2, <2>1, <2>3, <3>1, <3>5 DEF CountsRight, cn
  <2> QED
    BY <2>2, <2>4, <2>5
<1>8. CASE Count(th) /\ ~ OnEdge(th)
  <2>1. /\ node_count' = Counted(th, node_count) /\ edge_count' = edge_count
        /\ absent' = absent /\ ~ EraseNode(th)
    BY <1>8 DEF Count, EraseNode, At, historyVars
  <2>2. Op(th) \in {"create_node", "delete_node"} /\ Key(th) \in Node
    BY <1>1, <1>8, CountG1 DEF OnEdge, EdgeOps
  <2>3. CountedEdges' = CountedEdges
    BY <1>8, EdgesCounted
  <2> DEFINE x == cn + CountLimit - absent
  <2>4. /\ x \in Nat /\ x > 0 /\ x < 2 * CountLimit
        /\ node_count = x % CountLimit
    BY <1>2
  <2>5. CASE Op(th) = "create_node"
    <3>1. Cardinality(CountedNodes') = cn + 1
      BY <1>4, <1>8, <2>2, <2>5, NodesCounted
    <3>2. node_count' = ((x % CountLimit) + 1) % CountLimit
      BY <2>1, <2>4, <2>5 DEF Counted
    <3>3. x + 1 < 2 * CountLimit /\ x + 1 = (cn + 1) + CountLimit - absent
      BY <1>2, <1>3, <3>1
    <3> HIDE DEF x
    <3>4. node_count' = (x + 1) % CountLimit
      BY <2>4, <3>2, <3>3, WrapsUp
    <3> QED
      BY <1>2, <2>1, <2>3, <3>1, <3>3, <3>4 DEF CountsRight, ce
  <2>6. CASE Op(th) = "delete_node"
    <3>1. Cardinality(CountedNodes') = cn - 1 /\ cn > 0
      BY <1>4, <1>8, <2>2, <2>6, NodesCounted
    <3>2. node_count' = ((x % CountLimit) + CountLimit - 1) % CountLimit
      BY <2>1, <2>4, <2>6 DEF Counted
    <3>3. x - 1 = (cn - 1) + CountLimit - absent
      BY <1>2
    <3> HIDE DEF x
    <3>4. node_count' = (x - 1) % CountLimit
      BY <2>4, <3>2, WrapsDown
    <3> QED
      BY <1>2, <2>1, <2>3, <3>1, <3>3, <3>4 DEF CountsRight, ce
  <2> QED
    BY <2>2, <2>5, <2>6
<1> QED
  BY <1>5, <1>6, <1>7, <1>8

LEMMA G4Init == GSInit => G4
<1> SUFFICES ASSUME GSInit PROVE G4
  OBVIOUS
<1>1. CountedEdges = {} /\ CountedNodes = {}
  BY DEF GSInit, CountedEdges, CountedNodes, Edges, Nodes, Doing, Does
<1>2. Cardinality({}) = 0
  BY FS_EmptySet
<1>3. (0 + CountLimit - 0) % CountLimit = 0
  <2>1. CountLimit \in Nat /\ CountLimit < 2 * CountLimit
    OBVIOUS
  <2>2. CountLimit % CountLimit = CountLimit - CountLimit
    BY <2>1, Wraps
  <2> QED
    BY <2>1, <2>2
<1>4. CountsRight
  BY <1>1, <1>2, <1>3 DEF GSInit, CountsRight
<1> QED
  BY <1>4, G3Init DEF G4

LEMMA G4Begin ==
  ASSUME G4, NEW th \in Thread, NEW c \in Calls, Begin(th, c)
  PROVE  G4'
<1>1. G3' /\ G1 /\ G1' /\ Effects(th)
  BY G3Begin, BeginG1, BeginEffects DEF G4, G3, G2
<1>2. ASSUME ~ raced' PROVE CountsRight'
  <2>1. CountsRight
    BY <1>2 DEF Begin, G4
  <2>2. FirstStep(c) \in {"fetch", "lookup", "outgoing"}
    BY DEF Calls, FirstStep, Reads, Rewrites
  <2>3. pc'[th] \in {"fetch", "lookup", "outgoing"} /\ pc[th] = "idle"
    BY <1>1, <2>2, G1Facts DEF Begin
  <2>4. UNCHANGED <<node_page_index, edge_page_index, node_count, edge_count, absent>>
    BY DEF Begin, nodeVars, edgeVars
  <2>5. \A k : /\ ~ EdgeAdding(th, k) /\ ~ EdgeErased(th, k)
               /\ ~ NodeAdding(th, k) /\ ~ NodeErased(th, k)
    BY <2>3 DEF EdgeAdding, EdgeErased, NodeAdding, NodeErased, Does
  <2>6. \A k : /\ ~ EdgeAdding(th, k)' /\ ~ EdgeErased(th, k)'
               /\ ~ NodeAdding(th, k)' /\ ~ NodeErased(th, k)'
    BY <2>3 DEF EdgeAdding, EdgeErased, NodeAdding, NodeErased, Does
  <2>7. /\ \A e : e \in Edges' <=> e \in Edges
        /\ \A n : n \in Nodes' <=> n \in Nodes
    BY <2>4 DEF Edges, Nodes
  <2>8. \A e : e \in CountedEdges <=>
              \/ e \in Edges /\ ~ \E u \in Thread \ {th} : EdgeAdding(u, e)
              \/ \E u \in Thread \ {th} : EdgeErased(u, e)
    BY <1>1, <2>5, CountedIs
  <2>9. \A n : n \in CountedNodes <=>
              \/ n \in Nodes /\ ~ \E u \in Thread \ {th} : NodeAdding(u, n)
              \/ \E u \in Thread \ {th} : NodeErased(u, n)
    BY <1>1, <2>5, CountedIs
  <2>10. \A e : e \in CountedEdges' <=> e \in CountedEdges
    BY <1>1, <2>6, <2>7, <2>8, CountedNext
  <2>11. \A n : n \in CountedNodes' <=> n \in CountedNodes
    BY <1>1, <2>6, <2>7, <2>9, CountedNext
  <2>12. CountedEdges' = CountedEdges
    BY <2>10
  <2>13. CountedNodes' = CountedNodes
    BY <2>11
  <2> QED
    BY <2>1, <2>4, <2>12, <2>13 DEF CountsRight
<1> QED
  BY <1>1, <1>2 DEF G4

LEMMA G4Step ==
  ASSUME G4, NEW th \in Thread, Step(th)
  PROVE  G4'
<1>1. G3' /\ G2
  BY G3Step DEF G4, G3
<1>2. ~ raced' => CountsRight'
  BY <1>1, StepRaced, CountersStep DEF G4
<1> QED
  BY <1>1, <1>2 DEF G4

LEMMA G4Stutter ==
  ASSUME G4, UNCHANGED gsVars
  PROVE  G4'
<1>1. G3'
  BY G3Stutter DEF G4
<1>2. UNCHANGED <<pc, call, raced, absent, node_count, edge_count, node_page_index,
                  edge_page_index>>
  BY DEF gsVars, nodeVars, edgeVars, threadVars, historyVars
<1>3. CountedEdges' = CountedEdges /\ CountedNodes' = CountedNodes
  BY <1>2 DEF CountedEdges, CountedNodes, Edges, Nodes, Doing, Does, Op, Key
<1> QED
  BY <1>1, <1>2, <1>3 DEF G4, CountsRight

LEMMA G4Next == G4 /\ [GSNext]_gsVars => G4'
BY G4Begin, G4Step, G4Stutter DEF GSNext

(***************************************************************************)
(* Between calls, unless conflicting ones have overlapped, get_edge_count  *)
(* is the number of indexed edges, and get_node_count that of the indexed  *)
(* nodes less one, in the counter's width, for each delete_node that found *)
(* no node: what other calls were in the middle of never gets lost in the  *)
(* counts (graph_store.cpp:579, :610-623).                                 *)
(***************************************************************************)
THEOREM CountersRight == GSSpec => []CountersMatch
<1>1. ASSUME G4 PROVE CountersMatch
  <2> SUFFICES ASSUME AtRest, ~ raced
               PROVE  /\ edge_count = Cardinality(Edges)
                      /\ node_count = (Cardinality(Nodes) + CountLimit - absent) % CountLimit
    BY DEF CountersMatch
  <2>1. CountsRight
    BY <1>1 DEF G4
  <2>2. CountedEdges = Edges /\ CountedNodes = Nodes
    BY DEF AtRest, CountedEdges, CountedNodes, Doing, Does
  <2> QED
    BY <2>1, <2>2 DEF CountsRight
<1> QED
  BY <1>1, G4Init, G4Next, PTL DEF GSSpec
=============================================================================
