----------------------------- MODULE GraphStore -----------------------------
(***************************************************************************)
(* storage/graph_store.{h,cpp}, the operations without a transaction, over *)
(* a FilePageStore, called by several threads.  The store has no lock of   *)
(* its own: each index, the adjacency lists and the page store have a      *)
(* mutex each, the counters are atomic, and an operation is a sequence of  *)
(* such critical sections.  pc says which one a thread's call is about to  *)
(* enter.                                                                  *)
(*                                                                         *)
(* A page holds one record.  get_node and get_edge parse the page in the   *)
(* store's one buffer after read_page has unlocked, so what they find may  *)
(* be pieced together from every image the buffer held in the meantime:    *)
(* seen collects those.  The label of an edge and the times are left out;  *)
(* a record's value stands for its properties.                             *)
(***************************************************************************)
EXTENDS Naturals, FiniteSets

CONSTANTS
    Thread,
    MaxNode, MaxEdge,  \* bounds: identifiers handed out
    Value,             \* property lists callers store
    CountLimit,        \* the counters wrap here (2^64 in the code)
    MaxPage,
    Leftover,          \* what the pages of the file may hold at the start
    AfterRace          \* bound: whether calls begin once two have conflicted

ASSUME GraphAssumption ==
    /\ MaxNode \in Nat /\ MaxEdge \in Nat /\ MaxPage \in Nat /\ CountLimit \in Nat
    /\ MaxNode < CountLimit /\ MaxEdge < CountLimit

Node == 1 .. MaxNode
Edge == 1 .. MaxEdge
Id == Node \cup Edge \cup {0}

Image(kind, id, from, to, value) ==
    [kind |-> kind, id |-> id, from |-> from, to |-> to, value |-> value]

PageImage ==
    {Image("node", i, 0, 0, v) : i \in Id, v \in Value \cup {0}} \cup
    {Image("edge", i, f, t, v) : i \in Id, f, t \in Node \cup {0},
                                 v \in Value \cup {0}}

\* A page of zeros: its page_type is FREE.
Blank == Image("free", 0, 0, 0, 0)

ASSUME LeftoverAssumption == Leftover \subseteq PageImage \cup {Blank}

VARIABLES
    is_closed, next_page_id, allocated_pages, free_pages, page_buffer, file,
    file_size, held, faults, opens

Store == INSTANCE FilePageStore WITH
             Data <- PageImage, Zero <- Blank, Torn <- Blank, MaxFaults <- 0,
             MaxReopened <- 0, bytes <- file, reopened <- opens

VARIABLES
    next_node_id, next_edge_id, node_count, edge_count,
    node_page_index, edge_page_index,  \* page of a record, 0 if none
    outgoing_edges, incoming_edges,    \* of each node
    call,    \* the operation each thread is in, and its arguments
    pc,      \* its next critical section
    page,    \* local page_id
    rec,     \* local copy of the record parsed
    seen,    \* images the buffer has held since the thread's read_page
    raced,   \* history: two conflicting calls have overlapped
    absent   \* history: calls of delete_node that found no node

storeVars == <<is_closed, next_page_id, allocated_pages, free_pages, page_buffer,
               file, file_size, held, faults, opens>>
nodeVars == <<next_node_id, node_count, node_page_index>>
edgeVars == <<next_edge_id, edge_count, edge_page_index>>
adjVars == <<outgoing_edges, incoming_edges>>
threadVars == <<call, page, rec, seen>>
historyVars == <<raced, absent>>
gsVars == <<storeVars, nodeVars, edgeVars, adjVars, pc, threadVars, historyVars>>

NoCall == [op |-> "none", key |-> 0, from |-> 0, to |-> 0, value |-> 0]

\* The constructor, on a file that may hold an earlier process's pages.
GSInit ==
    /\ Store!FPInitOn(Leftover)
    /\ next_node_id = 1 /\ next_edge_id = 1 /\ node_count = 0 /\ edge_count = 0
    /\ node_page_index = [n \in Node |-> 0]
    /\ edge_page_index = [e \in Edge |-> 0]
    /\ outgoing_edges = [n \in Node |-> {}]
    /\ incoming_edges = [n \in Node |-> {}]
    /\ call = [th \in Thread |-> NoCall]
    /\ pc = [th \in Thread |-> "idle"]
    /\ page = [th \in Thread |-> 0]
    /\ rec = [th \in Thread |-> Blank]
    /\ seen = [th \in Thread |-> {}]
    /\ raced = FALSE /\ absent = 0

----------------------------------------------------------------------------
(***************************************************************************)
(* The calls, on identifiers handed out already, and which of them         *)
(* conflict: two that read pages when one goes on to write what it parsed; *)
(* delete_node with a call that adds an edge to the node, rewrites it or   *)
(* deletes it too; and a delete of what is still being created.            *)
(***************************************************************************)
Calls ==
    [op : {"create_node"}, key : {0}, from : {0}, to : {0}, value : Value] \cup
    [op : {"update_node"}, key : Node, from : {0}, to : {0}, value : Value] \cup
    [op : {"get_node", "delete_node"}, key : Node, from : {0}, to : {0},
     value : {0}] \cup
    [op : {"create_edge"}, key : {0}, from : Node, to : Node, value : Value] \cup
    [op : {"update_edge"}, key : Edge, from : {0}, to : {0}, value : Value] \cup
    [op : {"get_edge", "delete_edge"}, key : Edge, from : {0}, to : {0},
     value : {0}]

Rewrites == {"update_node", "update_edge", "delete_edge"}
Reads == {"get_node", "get_edge"} \cup Rewrites
EdgeOps == {"create_edge", "get_edge", "update_edge", "delete_edge"}

TouchesNode(c, n) ==
    \/ c.op = "create_edge" /\ n \in {c.from, c.to}
    \/ c.op \in {"update_node", "delete_node"} /\ c.key = n

Conflict(c, d) ==
    \/ c.op \in Rewrites /\ d.op \in Reads
    \/ c.op = "delete_edge" /\ d.op = "create_edge" /\ c.key = d.key
    \/ c.op = "delete_node" /\ d.op = "create_node" /\ c.key = d.key
    \/ c.op = "delete_node" /\ TouchesNode(d, c.key)

\* The first critical section of each operation.
FirstStep(c) ==
    CASE c.op \in {"create_node", "create_edge"} -> "fetch"
      [] c.op \in Reads -> "lookup"
      [] c.op = "delete_node" -> "outgoing"

Begin(th, c) ==
    /\ pc[th] = "idle"
    /\ AfterRace \/ ~ raced
    /\ c.key < IF c.op \in EdgeOps THEN next_edge_id ELSE next_node_id
    /\ call' = [call EXCEPT ![th] = c]
    /\ pc' = [pc EXCEPT ![th] = FirstStep(c)]
    /\ raced' = (raced \/ \E u \in Thread \ {th} :
                              Conflict(c, call[u]) \/ Conflict(call[u], c))
    /\ UNCHANGED <<storeVars, nodeVars, edgeVars, adjVars, page, rec, seen, absent>>

At(th, step) == pc[th] = step
Goto(th, step) == pc' = [pc EXCEPT ![th] = step]

\* The call returns; the thread's locals go out of scope.
Return(th) ==
    /\ pc' = [pc EXCEPT ![th] = "idle"]
    /\ call' = [call EXCEPT ![th] = NoCall]
    /\ page' = [page EXCEPT ![th] = 0]
    /\ rec' = [rec EXCEPT ![th] = Blank]
    /\ seen' = [seen EXCEPT ![th] = {}]

Op(th) == call[th].op
Key(th) == call[th].key
OnEdge(th) == Op(th) \in EdgeOps
PageOf(th) == IF OnEdge(th) THEN edge_page_index[Key(th)]
                            ELSE node_page_index[Key(th)]

(***************************************************************************)
(* get_next_node_id, get_next_edge_id; the record is made from it.         *)
(***************************************************************************)
FetchNodeId(th) ==
    /\ At(th, "fetch") /\ ~ OnEdge(th)
    /\ next_node_id \in Node
    /\ next_node_id' = next_node_id + 1
    /\ call' = [call EXCEPT ![th].key = next_node_id]
    /\ rec' = [rec EXCEPT ![th] = Image("node", next_node_id, 0, 0, 0)]
    /\ Goto(th, "allocate")
    /\ UNCHANGED <<storeVars, node_count, node_page_index, edgeVars, adjVars,
                   page, seen, historyVars>>

FetchEdgeId(th) ==
    /\ At(th, "fetch") /\ OnEdge(th)
    /\ next_edge_id \in Edge
    /\ next_edge_id' = next_edge_id + 1
    /\ call' = [call EXCEPT ![th].key = next_edge_id]
    /\ rec' = [rec EXCEPT ![th] =
                   Image("edge", next_edge_id, call[th].from, call[th].to, 0)]
    /\ Goto(th, "allocate")
    /\ UNCHANGED <<storeVars, nodeVars, edge_count, edge_page_index, adjVars,
                   page, seen, historyVars>>

(***************************************************************************)
(* store_node_record and store_edge_record: a new page for every version   *)
(* of a record (the old one is never freed), then the index.               *)
(***************************************************************************)
Allocate_InPlace(th) ==
    /\ At(th, "allocate")
    /\ IF Op(th) \in Rewrites
       THEN page' = [page EXCEPT ![th] = PageOf(th)] /\ UNCHANGED storeVars
       ELSE \E p \in Store!Page : /\ Store!AllocatePage(p)
                                  /\ page' = [page EXCEPT ![th] = p]
    /\ Goto(th, "write")
    /\ UNCHANGED <<nodeVars, edgeVars, adjVars, call, rec, seen, historyVars>>

Allocate(th) ==
    /\ At(th, "allocate")
    /\ \E p \in Store!Page : /\ Store!AllocatePage(p)
                             /\ page' = [page EXCEPT ![th] = p]
    /\ Goto(th, "write")
    /\ UNCHANGED <<nodeVars, edgeVars, adjVars, call, rec, seen, historyVars>>

Write_Lost(th) ==
    /\ At(th, "write")
    /\ Goto(th, "index")
    /\ UNCHANGED <<storeVars, nodeVars, edgeVars, adjVars, threadVars, historyVars>>

Write(th) ==
    /\ At(th, "write")
    /\ Store!WritePage(page[th], [rec[th] EXCEPT !.value = call[th].value])
    /\ Goto(th, "index")
    /\ UNCHANGED <<nodeVars, edgeVars, adjVars, threadVars, historyVars>>

IndexNode(th) ==
    /\ At(th, "index") /\ ~ OnEdge(th)
    /\ node_page_index' = [node_page_index EXCEPT ![Key(th)] = page[th]]
    /\ IF Op(th) = "create_node"
       THEN Goto(th, "count") /\ UNCHANGED threadVars
       ELSE Return(th)
    /\ UNCHANGED <<storeVars, next_node_id, node_count, edgeVars, adjVars,
                   historyVars>>

IndexEdge(th) ==
    /\ At(th, "index") /\ OnEdge(th)
    /\ edge_page_index' = [edge_page_index EXCEPT ![Key(th)] = page[th]]
    /\ IF Op(th) = "create_edge"
       THEN Goto(th, "adjacency") /\ UNCHANGED threadVars
       ELSE Return(th)
    /\ UNCHANGED <<storeVars, nodeVars, next_edge_id, edge_count, adjVars,
                   historyVars>>

(***************************************************************************)
(* get_node and get_edge, by themselves or for an update or delete_edge.   *)
(***************************************************************************)
Lookup(th) ==
    /\ At(th, "lookup")
    /\ IF PageOf(th) = 0
       THEN Return(th)
       ELSE /\ page' = [page EXCEPT ![th] = PageOf(th)]
            /\ Goto(th, "read")
            /\ UNCHANGED <<call, rec, seen>>
    /\ UNCHANGED <<storeVars, nodeVars, edgeVars, adjVars, historyVars>>

\* The buffer is cleared, then filled: other threads' spans show both.
Read(th) ==
    /\ At(th, "read")
    /\ Store!ReadPage(page[th])
    /\ seen' = [u \in Thread |->
                   IF u = th THEN {page_buffer'}
                   ELSE IF At(u, "parse") THEN seen[u] \cup {Blank, page_buffer'}
                   ELSE seen[u]]
    /\ Goto(th, "parse")
    /\ UNCHANGED <<nodeVars, edgeVars, adjVars, call, page, rec, historyVars>>

\* The page type and each field of the record may come from another image.
Parsed(S, kind) ==
    IF kind = "node" THEN {Image(kind, a.id, 0, 0, b.value) : a, b \in S}
    ELSE {Image(kind, a.id, b.from, b.to, c.value) : a, b, c \in S}

Parse(th) ==
    LET kind == IF OnEdge(th) THEN "edge" ELSE "node"
    IN  /\ At(th, "parse")
        /\ \/ /\ \E i \in seen[th] : i.kind # kind   \* CORRUPTION
              /\ Return(th)
           \/ /\ \E i \in seen[th] : i.kind = kind
              /\ CASE Op(th) \in {"get_node", "get_edge"} -> Return(th)
                   [] OTHER ->
                        /\ \E r \in Parsed(seen[th], kind) :
                               rec' = [rec EXCEPT ![th] = r]
                        /\ seen' = [seen EXCEPT ![th] = {}]
                        /\ page' = [page EXCEPT ![th] = 0]
                        /\ Goto(th, IF Op(th) = "delete_edge" THEN "adjacency"
                                                              ELSE "allocate")
                        /\ UNCHANGED call
        /\ UNCHANGED <<storeVars, nodeVars, edgeVars, adjVars, historyVars>>

(***************************************************************************)
(* update_adjacency_lists.                                                 *)
(***************************************************************************)
AddAdjacency(th) ==
    /\ At(th, "adjacency") /\ Op(th) = "create_edge"
    /\ outgoing_edges' = [outgoing_edges EXCEPT ![rec[th].from] = @ \cup {Key(th)}]
    /\ incoming_edges' = [incoming_edges EXCEPT ![rec[th].to] = @ \cup {Key(th)}]
    /\ Goto(th, "count")
    /\ UNCHANGED <<storeVars, nodeVars, edgeVars, threadVars, historyVars>>

Without(adjacency, n, e) ==
    [m \in Node |-> IF m = n THEN adjacency[m] \ {e} ELSE adjacency[m]]

RemoveAdjacency_OutOnly(th) ==
    /\ At(th, "adjacency") /\ Op(th) = "delete_edge"
    /\ outgoing_edges' = Without(outgoing_edges, rec[th].from, Key(th))
    /\ Goto(th, "erase")
    /\ UNCHANGED <<storeVars, nodeVars, edgeVars, incoming_edges, threadVars,
                   historyVars>>

RemoveAdjacency(th) ==
    /\ At(th, "adjacency") /\ Op(th) = "delete_edge"
    /\ outgoing_edges' = Without(outgoing_edges, rec[th].from, Key(th))
    /\ incoming_edges' = Without(incoming_edges, rec[th].to, Key(th))
    /\ Goto(th, "erase")
    /\ UNCHANGED <<storeVars, nodeVars, edgeVars, threadVars, historyVars>>

(***************************************************************************)
(* delete_node: look at the two lists, one after the other; if both are    *)
(* empty erase the index entry, whether there is one or not, then the      *)
(* lists as they are by then.                                              *)
(***************************************************************************)
CheckOutgoing(th) ==
    /\ At(th, "outgoing")
    /\ IF outgoing_edges[Key(th)] # {}
       THEN Return(th)
       ELSE Goto(th, "incoming") /\ UNCHANGED threadVars
    /\ UNCHANGED <<storeVars, nodeVars, edgeVars, adjVars, historyVars>>

CheckIncoming_Skipped(th) ==
    /\ At(th, "incoming")
    /\ Goto(th, "erase") /\ UNCHANGED threadVars
    /\ UNCHANGED <<storeVars, nodeVars, edgeVars, adjVars, historyVars>>

CheckIncoming(th) ==
    /\ At(th, "incoming")
    /\ IF incoming_edges[Key(th)] # {}
       THEN Return(th)
       ELSE Goto(th, "erase") /\ UNCHANGED threadVars
    /\ UNCHANGED <<storeVars, nodeVars, edgeVars, adjVars, historyVars>>

EraseNode(th) ==
    /\ At(th, "erase") /\ Op(th) = "delete_node"
    /\ node_page_index' = [node_page_index EXCEPT ![Key(th)] = 0]
    /\ absent' = IF PageOf(th) = 0 THEN absent + 1 ELSE absent
    /\ absent' < CountLimit - MaxNode
    /\ Goto(th, "erase_lists")
    /\ UNCHANGED <<storeVars, next_node_id, node_count, edgeVars, adjVars,
                   threadVars, raced>>

EraseLists(th) ==
    /\ At(th, "erase_lists")
    /\ outgoing_edges' = [outgoing_edges EXCEPT ![Key(th)] = {}]
    /\ incoming_edges' = [incoming_edges EXCEPT ![Key(th)] = {}]
    /\ Goto(th, "count")
    /\ UNCHANGED <<storeVars, nodeVars, edgeVars, threadVars, historyVars>>

EraseEdge(th) ==
    /\ At(th, "erase") /\ Op(th) = "delete_edge"
    /\ edge_page_index' = [edge_page_index EXCEPT ![Key(th)] = 0]
    /\ Goto(th, "count")
    /\ UNCHANGED <<storeVars, nodeVars, next_edge_id, edge_count, adjVars,
                   threadVars, historyVars>>

(***************************************************************************)
(* The counters wrap below zero.                                           *)
(***************************************************************************)
Counted_CreatesOnly(th, n) ==
    IF Op(th) \in {"create_node", "create_edge"} THEN (n + 1) % CountLimit ELSE n

Counted_Signed(th, n) ==
    IF Op(th) \in {"create_node", "create_edge"} THEN n + 1 ELSE n - 1

Counted(th, n) ==
    IF Op(th) \in {"create_node", "create_edge"} THEN (n + 1) % CountLimit
    ELSE (n + CountLimit - 1) % CountLimit

Count(th) ==
    /\ At(th, "count")
    /\ IF OnEdge(th) THEN edge_count' = Counted(th, edge_count) /\ UNCHANGED node_count
       ELSE node_count' = Counted(th, node_count) /\ UNCHANGED edge_count
    /\ Return(th)
    /\ UNCHANGED <<storeVars, next_node_id, node_page_index, next_edge_id,
                   edge_page_index, adjVars, historyVars>>

Step(th) ==
    \/ FetchNodeId(th) \/ FetchEdgeId(th)
    \/ Allocate(th) \/ Write(th) \/ IndexNode(th) \/ IndexEdge(th)
    \/ Lookup(th) \/ Read(th) \/ Parse(th)
    \/ AddAdjacency(th) \/ RemoveAdjacency(th)
    \/ CheckOutgoing(th) \/ CheckIncoming(th)
    \/ EraseNode(th) \/ EraseLists(th) \/ EraseEdge(th)
    \/ Count(th)

GSNext ==
    \/ \E th \in Thread, c \in Calls : Begin(th, c)
    \/ \E th \in Thread : Step(th)

GSSpec == GSInit /\ [][GSNext]_gsVars

----------------------------------------------------------------------------
(***************************************************************************)
(* Types of the store's members and of the calls in progress.              *)
(***************************************************************************)
GSTypeOK ==
    /\ next_node_id \in 1 .. MaxNode + 1 /\ next_edge_id \in 1 .. MaxEdge + 1
    /\ node_count \in 0 .. CountLimit - 1 /\ edge_count \in 0 .. CountLimit - 1
    /\ node_page_index \in [Node -> Store!Page \cup {0}]
    /\ edge_page_index \in [Edge -> Store!Page \cup {0}]
    /\ outgoing_edges \in [Node -> SUBSET Edge]
    /\ incoming_edges \in [Node -> SUBSET Edge]
    /\ page \in [Thread -> Store!Page \cup {0}]
    /\ rec \in [Thread -> PageImage \cup {Blank}]
    /\ seen \in [Thread -> SUBSET (PageImage \cup {Blank})]
    /\ raced \in BOOLEAN /\ absent \in 0 .. CountLimit
    /\ file \in [Store!Page -> PageImage \cup {Blank}]

(***************************************************************************)
(* Whatever calls overlap, no two records share a page, no thread writes a *)
(* page a record is in, and no two threads write the same page: every      *)
(* record gets a page of its own from allocate_page and updates are never  *)
(* in place (graph_store.cpp:360-381).                                     *)
(***************************************************************************)
PageUses ==
    {<<"node", n, node_page_index[n]>> : n \in {m \in Node : node_page_index[m] # 0}}
    \cup
    {<<"edge", e, edge_page_index[e]>> : e \in {d \in Edge : edge_page_index[d] # 0}}
    \cup
    {<<"write", th, page[th]>> : th \in {u \in Thread : pc[u] = "write"}}

PagesNotShared == \A a, b \in PageUses : a[3] = b[3] => a = b

(***************************************************************************)
(* Whatever calls overlap, the page an index points to holds a record of   *)
(* that index's kind, so CORRUPTION is only ever a racing buffer's         *)
(* (graph_store.cpp:242, :513); and unless conflicting calls have          *)
(* overlapped, the record is the one of the key.                           *)
(***************************************************************************)
NodeImage(n) == file[node_page_index[n]]
EdgeImage(e) == file[edge_page_index[e]]
Nodes == {n \in Node : node_page_index[n] # 0}
Edges == {e \in Edge : edge_page_index[e] # 0}

RecordsMatchKeys ==
    /\ \A n \in Nodes : NodeImage(n).kind = "node" /\ (raced \/ NodeImage(n).id = n)
    /\ \A e \in Edges : EdgeImage(e).kind = "edge" /\ (raced \/ EdgeImage(e).id = e)

(***************************************************************************)
(* Between calls, unless conflicting ones have overlapped, the lists of    *)
(* each node are the edges stored with that end, and the counters count    *)
(* the indexed records, except that each delete_node of an absent node     *)
(* took one away and wrapped at zero (graph_store.cpp:434-451, :579,       *)
(* :610-623).  Calls that do not conflict may interleave at will.          *)
(***************************************************************************)
AtRest == \A th \in Thread : pc[th] = "idle"

AdjacencyMatches ==
    AtRest /\ ~ raced =>
        \A n \in Node :
            /\ outgoing_edges[n] = {e \in Edges : EdgeImage(e).from = n}
            /\ incoming_edges[n] = {e \in Edges : EdgeImage(e).to = n}

CountersMatch ==
    AtRest /\ ~ raced =>
        /\ edge_count = Cardinality(Edges)
        /\ node_count = (Cardinality(Nodes) + CountLimit - absent) % CountLimit

(***************************************************************************)
(* delete_node never leaves an edge behind: unless conflicting calls have  *)
(* overlapped, a node that disappears has no edge but such as another      *)
(* thread is deleting (graph_store.cpp:598-608).                           *)
(***************************************************************************)
NoDanglingDelete ==
    [][\A n \in Node :
          n \in Nodes /\ node_page_index'[n] = 0 /\ ~ raced =>
              \A e \in Edges :
                  \/ n \notin {EdgeImage(e).from, EdgeImage(e).to}
                  \/ \E th \in Thread : Op(th) = "delete_edge" /\ Key(th) = e]_gsVars
=============================================================================
