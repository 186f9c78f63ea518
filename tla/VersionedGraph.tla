--------------------------- MODULE VersionedGraph ---------------------------
(***************************************************************************)
(* The transactional calls of storage/graph_store.cpp: each is the call of *)
(* the same name without a transaction, then a version written, or read,   *)
(* by the MVCCManager.  Node and edge identifiers are both keys of its     *)
(* chains, and nothing undoes the first half when a transaction aborts.    *)
(*                                                                         *)
(* The first half is one step (GraphStore models its own interleavings):   *)
(* of a record on a page only the transaction that wrote it is kept, and   *)
(* an edge is in the adjacency lists exactly while it has a page           *)
(* (GraphStore's AdjacencyMatches).  The counters and the log entry, to    *)
(* which no property here refers, are left out.  A call that finds no page *)
(* returns NOT_FOUND and changes nothing.  write_version is never refused  *)
(* its lock (WriteLocks), and nothing in src/ calls garbage_collect.       *)
(***************************************************************************)
EXTENDS MVCCManager

CONSTANT MaxId   \* bound: identifiers handed out, of nodes and of edges

ASSUME KeysAreIdentifiers == MaxId \in Nat \ {0} /\ Key = 1 .. MaxId

Kind == {"node", "edge"}

VARIABLES
    next_id,     \* next_node_id_ and next_edge_id_
    page,        \* who wrote the record on the page of a node or edge, 0: no page
    data,        \* the record in the version at each position
    op,          \* the call t is in, between its two halves
    overlapped   \* history: the records that two writers were at together

vgVars == <<next_id, page, data, op, overlapped>>
allVars == <<vars, vgVars>>

NoOp == [call |-> "none", kind |-> "node", key |-> 1]
OpOf(call, kind, id) == [call |-> call, kind |-> kind, key |-> id]

\* A tombstone's record has no properties and, an edge's, no ends.
NoRecord == [kind |-> "none", empty |-> TRUE]
RecordOf(o) == [kind |-> o.kind, empty |-> o.call = "delete"]

Writing(t) == op[t].call \in {"create", "update", "delete"}
Writers(kind, id) ==
    {t \in TxId : Writing(t) /\ op[t].kind = kind /\ op[t].key = id}

VGInit ==
    /\ Init
    /\ next_id = [kind \in Kind |-> 1]
    /\ page = [kind \in Kind |-> [id \in Key |-> 0]]
    /\ data = [pos \in 1 .. MaxWrites |-> NoRecord]
    /\ op = [t \in TxId |-> NoOp]
    /\ overlapped = {}

----------------------------------------------------------------------------
Free(t) == Running(t) /\ op[t] = NoOp

\* Enter the second half of a write of the record.
GoOn(t, call, kind, id) ==
    /\ op' = [op EXCEPT ![t] = OpOf(call, kind, id)]
    /\ overlapped' = IF Writers(kind, id) = {} THEN overlapped
                     ELSE overlapped \cup {<<kind, id>>}

Create(t, kind) ==
    LET id == next_id[kind]
    IN  /\ Free(t) /\ id <= MaxId
        /\ next_id' = [next_id EXCEPT ![kind] = id + 1]
        /\ page' = [page EXCEPT ![kind][id] = t]
        /\ GoOn(t, "create", kind, id)
        /\ UNCHANGED <<vars, data>>

\* The version without the page.
Update_VersionOnly(t, kind, id) ==
    /\ Free(t) /\ page[kind][id] # 0
    /\ GoOn(t, "update", kind, id)
    /\ UNCHANGED <<vars, next_id, page, data>>

Update(t, kind, id) ==
    /\ Free(t) /\ page[kind][id] # 0
    /\ page' = [page EXCEPT ![kind][id] = t]
    /\ GoOn(t, "update", kind, id)
    /\ UNCHANGED <<vars, next_id, data>>

(***************************************************************************)
(* delete_node leaves the page, delete_edge takes it, and the edge out of  *)
(* the adjacency lists, at once.                                           *)
(***************************************************************************)
Delete(t, kind, id) ==
    /\ Free(t) /\ page[kind][id] # 0
    /\ page' = IF kind = "node" THEN page ELSE [page EXCEPT ![kind][id] = 0]
    /\ GoOn(t, "delete", kind, id)
    /\ UNCHANGED <<vars, next_id, data>>

(***************************************************************************)
(* The second half: write_version, in MVCCManager's two steps.             *)
(***************************************************************************)
Lock(t) ==
    /\ Writing(t)
    /\ LockKey(t, op[t].key)
    /\ UNCHANGED vgVars

Push(t, deleted) ==
    /\ InstallVersion(t, op[t].key, deleted)
    /\ data' = [data EXCEPT ![pushes + 1] = RecordOf(op[t])]
    /\ op' = [op EXCEPT ![t] = NoOp]
    /\ UNCHANGED <<next_id, page, overlapped>>

\* No tombstone for an edge, whose page is gone.
WriteVersion_NoTombstone(t) ==
    /\ Writing(t)
    /\ Push(t, IF op[t].call = "delete" /\ op[t].kind = "node" THEN t ELSE 0)

WriteVersion(t) ==
    Writing(t) /\ Push(t, IF op[t].call = "delete" THEN t ELSE 0)

(***************************************************************************)
(* get_node and get_edge scan the chain of the identifier.  No visible     *)
(* version is NOT_FOUND; one of the other kind sends them to the page.     *)
(***************************************************************************)
Get(t, kind, id) ==
    /\ Free(t)
    /\ StartRead(t, id)
    /\ op' = [op EXCEPT ![t] = OpOf("get", kind, id)]
    /\ UNCHANGED <<next_id, page, data, overlapped>>

Scanned(t) == op[t].call = "get" /\ reading[t] = NoKey

Answer_PageIfHidden(t) ==
    IF result[t] # NotFound /\ data[result[t].pos].kind = op[t].kind
    THEN result[t].created_tx_id
    ELSE page[op[t].kind][op[t].key]

\* Who wrote what t is about to return, 0 for NOT_FOUND.
Answer(t) ==
    IF result[t] = NotFound THEN 0
    ELSE IF data[result[t].pos].kind = op[t].kind THEN result[t].created_tx_id
    ELSE page[op[t].kind][op[t].key]

Return(t) ==
    /\ Scanned(t)
    /\ op' = [op EXCEPT ![t] = NoOp]
    /\ UNCHANGED <<vars, next_id, page, data, overlapped>>

\* A client begins, commits and aborts between its calls.
VGTransactions ==
    /\ \/ FetchId
       \/ \E t \in TxId : Stamp(t) \/ Track(t) \/ Complete(t)
       \/ \E t \in TxId : op[t] = NoOp /\ (CommitMark(t) \/ AbortMark(t))
    /\ UNCHANGED <<mvVars, vgVars>>

VGNext ==
    \/ VGTransactions
    \/ \E t \in TxId : \/ Lock(t) \/ WriteVersion(t) \/ Return(t)
                       \/ (ReturnVersion(t) \/ SkipVersion(t) \/ ReturnNotFound(t))
                              /\ UNCHANGED vgVars
    \/ \E t \in TxId, kind \in Kind : Create(t, kind)
    \/ \E t \in TxId, kind \in Kind, id \in Key :
           Update(t, kind, id) \/ Delete(t, kind, id) \/ Get(t, kind, id)

VGSpec == VGInit /\ [][VGNext]_allVars

----------------------------------------------------------------------------
(***************************************************************************)
(* The identifier has been given to a node and to an edge.                 *)
(***************************************************************************)
Clash(id) == \A kind \in Kind : next_id[kind] > id

(***************************************************************************)
(* "tx2 should NOT see the node because tx1 hasn't committed yet"          *)
(* (tests/transaction/test_mvcc_graph.cpp:41): get_node and get_edge       *)
(* return what the caller wrote, or an earlier transaction that did        *)
(* commit, although each write is on the page before its writer commits.   *)
(* The one way round the versions is an identifier that is a node's and an *)
(* edge's (graph_store.cpp:126-140).                                       *)
(***************************************************************************)
AnswersCommitted ==
    \A t \in TxId :
        LET w == Answer(t)
        IN  Scanned(t) /\ ~ Clash(op[t].key) =>
                w \in {0, t} \/ (w < t /\ txn[w].state = "COMMITTED")

(***************************************************************************)
(* Page and chain agree on the last writer of a record: once its calls     *)
(* have returned, the page of a node or edge holds what the newest version *)
(* of it that is no tombstone holds, unless two writers were at it         *)
(* together; each call does its two halves apart (graph_store.cpp:62-88).  *)
(***************************************************************************)
RecordVersions(kind, id) ==
    {v \in versions[id] : data[v.pos] = [kind |-> kind, empty |-> FALSE]}

PageIsNewest ==
    \A kind \in Kind, id \in Key :
        /\ page[kind][id] # 0
        /\ Writers(kind, id) = {}
        /\ <<kind, id>> \notin overlapped
        => \E v \in RecordVersions(kind, id) :
               /\ IsNewest(v, RecordVersions(kind, id))
               /\ v.created_tx_id = page[kind][id]

(***************************************************************************)
(* Traversals follow the adjacency lists, which know no versions; reads    *)
(* follow the versions.  For a transaction that sees every writer of an    *)
(* edge, come in the order of their identifiers and one call at a time,    *)
(* the two agree: what is in the lists can be read, and what was deleted   *)
(* cannot.  Each condition is needed: without it a traversal returns an    *)
(* edge that is not committed yet, or misses one whose deletion never      *)
(* commits (graph_store.cpp:142-201).                                      *)
(***************************************************************************)
SeesWriters(t, c) ==
    /\ InOrder(c) /\ Unbroken(c) /\ SettledFor(c, t)
    /\ \A v \in c : v.created_tx_id <= t

ListsMatchReads ==
    \A t \in TxId, e \in Key :
        /\ Running(t) /\ SeesWriters(t, versions[e])
        /\ next_id["edge"] > e /\ ~ Clash(e)
        /\ Writers("edge", e) = {} /\ <<"edge", e>> \notin overlapped
        => (page["edge"][e] # 0 <=> ReadPos(e, t) # 0)
=============================================================================
