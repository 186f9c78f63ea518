------------------------ MODULE VersionedGraph_proofs ------------------------
(***************************************************************************)
(* What the transactional calls guarantee for any number of transactions,  *)
(* nodes, edges and writes.  A step of the graph is a step of MVCCManager, *)
(* or leaves it alone, so the manager's invariant is taken over; what is   *)
(* added ties the pages, the calls and the records to its chains.          *)
(***************************************************************************)
EXTENDS VersionedGraph, MVCCManager_proofs

USE MaxTxAssumption, MaxWritesAssumption, KeyAssumption, KeysAreIdentifiers

----------------------------------------------------------------------------
(***************************************************************************)
(* First layer: the types, and what a call in progress has in hand.  The   *)
(* manager's locks and scans are those of calls of running transactions.   *)
(***************************************************************************)
WriteCalls == {"create", "update", "delete"}
Op == {NoOp} \cup [call : WriteCalls \cup {"get"}, kind : Kind, key : Key]
Datum == [kind : Kind \cup {"none"}, empty : BOOLEAN]

VGTypes ==
    /\ next_id \in [Kind -> 1 .. MaxId + 1]
    /\ page \in [Kind -> [Key -> TxId \cup {0}]]
    /\ data \in [1 .. MaxWrites -> Datum]
    /\ op \in [TxId -> Op]

CallsMatch ==
    \A t \in TxId :
        /\ op[t] # NoOp => Running(t)
        /\ reading[t] # NoKey => op[t].call = "get" /\ op[t].key = reading[t]
        /\ \A k \in Key : key_lock[k] = t => Writing(t) /\ op[t].key = k

V1 == MVInv /\ PositionsDiffer /\ VGTypes /\ CallsMatch

LEMMA OpFields ==
  ASSUME VGTypes, NEW t \in TxId
  PROVE  /\ op[t] \in Op /\ op[t].kind \in Kind /\ op[t].key \in Key
         /\ op[t].call \in WriteCalls \cup {"get", "none"}
         /\ op[t] = NoOp <=> op[t].call = "none"
         /\ Writing(t) <=> op[t].call \in WriteCalls
<1>1. op[t] \in Op
  BY DEF VGTypes
<1>2. CASE op[t] = NoOp
  BY <1>1, <1>2 DEF NoOp, Kind, WriteCalls, Writing
<1>3. CASE op[t] \in [call : WriteCalls \cup {"get"}, kind : Kind, key : Key]
  BY <1>1, <1>3 DEF NoOp, Kind, WriteCalls, Writing
<1> QED
  BY <1>1, <1>2, <1>3 DEF Op

LEMMA NewOp ==
  ASSUME NEW c \in WriteCalls \cup {"get"}, NEW kind \in Kind, NEW id \in Key
  PROVE  /\ OpOf(c, kind, id) \in Op /\ OpOf(c, kind, id) # NoOp
         /\ OpOf(c, kind, id).call = c /\ OpOf(c, kind, id).kind = kind
         /\ OpOf(c, kind, id).key = id
  BY DEF OpOf, NoOp, Op, WriteCalls

LEMMA NoOpFields == NoOp \in Op /\ NoOp.call = "none" /\ ~ (NoOp.call \in WriteCalls)
  BY DEF NoOp, Op, WriteCalls

----------------------------------------------------------------------------
(***************************************************************************)
(* A step of the graph is one of the manager.                              *)
(***************************************************************************)
LEMMA StepIsManagers == V1 /\ [VGNext]_allVars => [Next]_vars
<1> SUFFICES ASSUME V1, [VGNext]_allVars PROVE [Next]_vars
  OBVIOUS
<1>1. CASE VGTransactions
  <2>1. \A t \in TxId : op[t] = NoOp => Idle(t)
    BY NoOpFields DEF V1, CallsMatch, Idle, Writing, NoOp
  <2> QED
    BY <1>1, <2>1 DEF VGTransactions, Transactions, Next
<1>2. ASSUME NEW t \in TxId, Lock(t) PROVE Next
  BY <1>2, OpFields DEF Lock, Next, V1
<1>3. ASSUME NEW t \in TxId, WriteVersion(t) PROVE Next
  BY <1>3, OpFields DEF WriteVersion, Push, Next, V1
<1>4. ASSUME NEW t \in TxId, ReturnVersion(t) \/ SkipVersion(t) \/ ReturnNotFound(t)
      PROVE  Next
  BY <1>4 DEF Next
<1>5. ASSUME NEW t \in TxId, NEW kind \in Kind, NEW id \in Key, Get(t, kind, id)
      PROVE  Next
  BY <1>5 DEF Get, Next
<1> QED
  BY <1>1, <1>2, <1>3, <1>4, <1>5
     DEF VGNext, Return, Create, Update, Delete, allVars

----------------------------------------------------------------------------
(***************************************************************************)
(* The three ways into the second half of a write, as one.                 *)
(***************************************************************************)
Enters(t, c, kind, id) ==
    /\ Free(t) /\ UNCHANGED <<vars, data>>
    /\ GoOn(t, c, kind, id)
    /\ c = "create" => /\ id = next_id[kind] /\ id <= MaxId
                       /\ next_id' = [next_id EXCEPT ![kind] = next_id[kind] + 1]
                       /\ page' = [page EXCEPT ![kind][id] = t]
    /\ c # "create" => next_id' = next_id /\ page[kind][id] # 0
    /\ c = "update" => page' = [page EXCEPT ![kind][id] = t]
    /\ c = "delete" => page' = IF kind = "node" THEN page
                               ELSE [page EXCEPT ![kind][id] = 0]

LEMMA CreateEnters ==
  ASSUME VGTypes, NEW t \in TxId, NEW kind \in Kind, Create(t, kind)
  PROVE  next_id[kind] \in Key /\ Enters(t, "create", kind, next_id[kind])
<1>1. next_id[kind] \in 1 .. MaxId + 1 /\ next_id[kind] <= MaxId
  BY DEF VGTypes, Create
<1> QED
  BY <1>1 DEF Create, Enters

LEMMA UpdateEnters ==
  ASSUME NEW t \in TxId, NEW kind \in Kind, NEW id \in Key, Update(t, kind, id)
  PROVE  Enters(t, "update", kind, id)
  BY DEF Update, Enters

LEMMA DeleteEnters ==
  ASSUME NEW t \in TxId, NEW kind \in Kind, NEW id \in Key, Delete(t, kind, id)
  PROVE  Enters(t, "delete", kind, id)
  BY DEF Delete, Enters

(***************************************************************************)
(* The steps, by what they touch.                                          *)
(***************************************************************************)
LEMMA Steps ==
  ASSUME VGTypes, [VGNext]_allVars,
         NEW P,
         VGTransactions => P,
         \A t \in TxId : Lock(t) => P,
         \A t \in TxId : WriteVersion(t) => P,
         \A t \in TxId : Return(t) => P,
         \A t \in TxId : (ReturnVersion(t) \/ SkipVersion(t) \/ ReturnNotFound(t))
                             /\ UNCHANGED vgVars => P,
         \A t \in TxId, kind \in Kind, id \in Key : Get(t, kind, id) => P,
         \A t \in TxId, c \in WriteCalls, kind \in Kind, id \in Key :
             Enters(t, c, kind, id) => P,
         UNCHANGED allVars => P
  PROVE  P
<1>1. ASSUME NEW t \in TxId, NEW kind \in Kind, Create(t, kind) PROVE P
  BY <1>1, CreateEnters DEF WriteCalls
<1>2. ASSUME NEW t \in TxId, NEW kind \in Kind, NEW id \in Key,
             Update(t, kind, id) \/ Delete(t, kind, id) \/ Get(t, kind, id)
      PROVE  P
  BY <1>2, UpdateEnters, DeleteEnters DEF WriteCalls
<1> QED
  BY <1>1, <1>2 DEF VGNext

LEMMA EntersTypes ==
  ASSUME VGTypes, NEW t \in TxId, NEW c \in WriteCalls, NEW kind \in Kind, NEW id \in Key,
         Enters(t, c, kind, id)
  PROVE  /\ VGTypes'
         /\ op'[t] = OpOf(c, kind, id) /\ \A u \in TxId : u # t => op'[u] = op[u]
         /\ \A k2 \in Kind, i2 \in Key : <<k2, i2>> # <<kind, id>> => page'[k2][i2] = page[k2][i2]
         /\ c = "create" \/ c = "update" => page'[kind][id] = t
         /\ c = "delete" /\ kind = "edge" => page'[kind][id] = 0
         /\ c = "delete" /\ kind = "node" => page'[kind][id] = page[kind][id]
<1>1. op' = [op EXCEPT ![t] = OpOf(c, kind, id)] /\ OpOf(c, kind, id) \in Op
  BY NewOp DEF Enters, GoOn
<1>2. next_id' \in [Kind -> 1 .. MaxId + 1]
  <2>1. next_id \in [Kind -> 1 .. MaxId + 1]
    BY DEF VGTypes
  <2>2. CASE c = "create"
    <3>1. next_id[kind] + 1 \in 1 .. MaxId + 1
      BY <2>1, <2>2 DEF Enters
    <3> QED
      BY <2>1, <2>2, <3>1 DEF Enters
  <2>3. CASE c # "create"
    BY <2>1, <2>3 DEF Enters
  <2> QED
    BY <2>2, <2>3
<1>3. ASSUME NEW x \in TxId \cup {0}
      PROVE  [page EXCEPT ![kind][id] = x] \in [Kind -> [Key -> TxId \cup {0}]]
  BY DEF VGTypes
<1>4. page' = page \/ \E x \in TxId \cup {0} : page' = [page EXCEPT ![kind][id] = x]
  BY DEF Enters, WriteCalls
<1>5. page' \in [Kind -> [Key -> TxId \cup {0}]]
  BY <1>3, <1>4 DEF VGTypes
<1>6. ASSUME NEW k2 \in Kind, NEW i2 \in Key, <<k2, i2>> # <<kind, id>>
      PROVE  page'[k2][i2] = page[k2][i2]
  <2>1. k2 # kind \/ i2 # id
    BY <1>6
  <2>2. ASSUME NEW x, page' = [page EXCEPT ![kind][id] = x]
        PROVE  page'[k2][i2] = page[k2][i2]
    <3>1. CASE k2 # kind
      BY <2>2, <3>1 DEF VGTypes
    <3>2. CASE k2 = kind /\ i2 # id
      BY <2>2, <3>2 DEF VGTypes
    <3> QED
      BY <2>1, <3>1, <3>2
  <2> QED
    BY <1>4, <2>2
<1>7. /\ c = "create" \/ c = "update" => page'[kind][id] = t
      /\ c = "delete" /\ kind = "edge" => page'[kind][id] = 0
      /\ c = "delete" /\ kind = "node" => page'[kind][id] = page[kind][id]
  BY DEF VGTypes, Enters
<1> QED
  BY <1>1, <1>2, <1>5, <1>6, <1>7 DEF VGTypes, Enters

----------------------------------------------------------------------------
LEMMA TypesStep ==
  ASSUME V1, [VGNext]_allVars
  PROVE  VGTypes'
<1>0. VGTypes /\ NoOp \in Op
  BY NoOpFields DEF V1
<1>1. ASSUME UNCHANGED vgVars PROVE VGTypes'
  BY <1>0, <1>1 DEF VGTypes, vgVars
<1>2. ASSUME NEW t \in TxId, WriteVersion(t) PROVE VGTypes'
  <2>1. pushes + 1 \in 1 .. MaxWrites
    BY <1>2 DEF WriteVersion, Push, InstallVersion, V1, MVInv, MVTypeOK
  <2>2. RecordOf(op[t]) \in Datum
    BY <1>0, OpFields DEF RecordOf, Datum
  <2> QED
    BY <1>0, <1>2, <2>1, <2>2 DEF WriteVersion, Push, VGTypes
<1>3. ASSUME NEW t \in TxId, Return(t) PROVE VGTypes'
  BY <1>0, <1>3 DEF Return, VGTypes
<1>4. ASSUME NEW t \in TxId, NEW kind \in Kind, NEW id \in Key, Get(t, kind, id)
      PROVE  VGTypes'
  BY <1>0, <1>4, NewOp DEF Get, VGTypes
<1>5. ASSUME NEW t \in TxId, NEW c \in WriteCalls, NEW kind \in Kind, NEW id \in Key,
             Enters(t, c, kind, id)
      PROVE  VGTypes'
  BY <1>0, <1>5, EntersTypes
<1> QED
  BY <1>0, <1>1, <1>2, <1>3, <1>4, <1>5, Steps DEF VGTransactions, Lock, allVars

LEMMA CallsStep ==
  ASSUME V1, [VGNext]_allVars
  PROVE  CallsMatch'
<1>0. VGTypes /\ CallsMatch /\ MVTypeOK /\ TMInv
  BY DEF V1, MVInv
<1>1. ASSUME VGTransactions PROVE CallsMatch'
  <2> SUFFICES ASSUME NEW t \in TxId, op[t] # NoOp PROVE Running(t)'
    BY <1>0, <1>1 DEF CallsMatch, VGTransactions, mvVars, vgVars, Writing
  <2>0. Running(t) /\ TMTypeOK
    BY <1>0 DEF CallsMatch, TMInv
  <2>1. CASE FetchId
    BY <1>0, <2>0, <2>1 DEF FetchId, Running, TMInv, TMTypeOK, NextIsUnborn, TxId
  <2>2. ASSUME NEW u \in TxId, Stamp(u) \/ Track(u) \/ Complete(u) PROVE Running(t)'
    BY <2>0, <2>2 DEF Stamp, Track, Complete, Running, TMTypeOK
  <2>3. ASSUME NEW u \in TxId, op[u] = NoOp, CommitMark(u) \/ AbortMark(u)
        PROVE  Running(t)'
    BY <2>0, <2>3 DEF CommitMark, AbortMark, Running, TMTypeOK
  <2> QED
    BY <1>1, <2>1, <2>2, <2>3 DEF VGTransactions
<1>2. ASSUME NEW t \in TxId, Lock(t) PROVE CallsMatch'
  BY <1>0, <1>2, OpFields DEF Lock, LockKey, tmVars, vgVars, Running, CallsMatch, Writing, MVTypeOK
<1>3. ASSUME NEW t \in TxId, WriteVersion(t) PROVE CallsMatch'
  <2>1. /\ UNCHANGED <<step, txn, reading>> /\ op[t].key \in Key /\ Writing(t)
        /\ key_lock[op[t].key] = t /\ key_lock' = [key_lock EXCEPT ![op[t].key] = 0]
        /\ op' = [op EXCEPT ![t] = NoOp]
    BY <1>0, <1>3, OpFields DEF WriteVersion, Push, InstallVersion, tmVars
  <2>2. op[t].call # "get"
    BY <2>1 DEF Writing
  <2>3. ASSUME NEW u \in TxId, u # t
        PROVE  /\ op'[u] # NoOp => Running(u)'
               /\ reading'[u] # NoKey => op'[u].call = "get" /\ op'[u].key = reading'[u]
               /\ \A k \in Key : key_lock'[k] = u => Writing(u)' /\ op'[u].key = k
    BY <1>0, <2>1, <2>3 DEF CallsMatch, VGTypes, MVTypeOK, Writing, Running, TxId
  <2>4. /\ op'[t] = NoOp /\ reading'[t] = NoKey
        /\ \A k \in Key : key_lock'[k] # t
    BY <1>0, <2>1, <2>2 DEF CallsMatch, VGTypes, MVTypeOK, TxId
  <2> QED
    BY <2>3, <2>4 DEF CallsMatch
<1>4. ASSUME NEW t \in TxId, Return(t) PROVE CallsMatch'
  BY <1>0, <1>4 DEF Return, Scanned, CallsMatch, VGTypes, Writing, Running, vars, tmVars, mvVars
<1>5. ASSUME NEW t \in TxId, ReturnVersion(t) \/ SkipVersion(t) \/ ReturnNotFound(t),
             UNCHANGED vgVars
      PROVE  CallsMatch'
  <2>1. /\ UNCHANGED <<step, txn, key_lock, op>>
        /\ \A u \in TxId : reading'[u] \in {reading[u], NoKey}
    BY <1>0, <1>5 DEF ReturnVersion, SkipVersion, ReturnNotFound, tmVars, vgVars, MVTypeOK
  <2> QED
    BY <1>0, <2>1 DEF CallsMatch, Writing, Running
<1>6. ASSUME NEW t \in TxId, NEW kind \in Kind, NEW id \in Key, Get(t, kind, id)
      PROVE  CallsMatch'
  <2>1. /\ UNCHANGED <<step, txn, key_lock>> /\ Running(t)
        /\ reading' = [reading EXCEPT ![t] = id]
        /\ op' = [op EXCEPT ![t] = OpOf("get", kind, id)]
        /\ \A k \in Key : key_lock[k] # t
    BY <1>6 DEF Get, StartRead, tmVars, Idle
  <2>2. op[t] = NoOp
    BY <1>6 DEF Get, Free
  <2>3. /\ op'[t] = OpOf("get", kind, id) /\ \A u \in TxId : u # t => op'[u] = op[u]
        /\ reading'[t] = id /\ \A u \in TxId : u # t => reading'[u] = reading[u]
    BY <1>0, <2>1 DEF VGTypes, MVTypeOK
  <2> QED
    BY <1>0, <2>1, <2>3, NewOp DEF CallsMatch, Writing, Running
<1>7. ASSUME NEW t \in TxId, NEW c \in WriteCalls, NEW kind \in Kind, NEW id \in Key,
             Enters(t, c, kind, id)
      PROVE  CallsMatch'
  <2>1. /\ UNCHANGED <<step, txn, key_lock, reading>> /\ Running(t) /\ op[t] = NoOp
        /\ op'[t] = OpOf(c, kind, id) /\ \A u \in TxId : u # t => op'[u] = op[u]
    BY <1>0, <1>7, EntersTypes DEF Enters, Free, vars, tmVars, mvVars
  <2>2. reading[t] = NoKey /\ \A k \in Key : key_lock[k] # t
    BY <1>0, <2>1, NoOpFields DEF CallsMatch, Writing, NoOp
  <2> QED
    BY <1>0, <2>1, <2>2 DEF CallsMatch, Writing, Running
<1>8. ASSUME UNCHANGED allVars PROVE CallsMatch'
  BY <1>0, <1>8 DEF allVars, vars, tmVars, mvVars, vgVars, CallsMatch, Writing, Running
<1> QED
  BY <1>0, <1>1, <1>2, <1>3, <1>4, <1>5, <1>6, <1>7, <1>8, Steps

LEMMA V1Init == VGInit => V1
<1> SUFFICES ASSUME VGInit PROVE V1
  OBVIOUS
<1>1. MVInv
  BY MVInvInit DEF VGInit
<1>2. VGTypes
  BY NoOpFields DEF VGInit, VGTypes, Kind, Datum, NoRecord
<1> QED
  BY <1>1, <1>2 DEF VGInit, Init, V1, PositionsDiffer, CallsMatch, TxId

LEMMA V1Step == V1 /\ [VGNext]_allVars => V1'
<1> SUFFICES ASSUME V1, [VGNext]_allVars PROVE V1'
  OBVIOUS
<1>1. [Next]_vars
  BY StepIsManagers
<1>2. MVInv' /\ PositionsDiffer'
  BY <1>1, MVInvStep, PositionsStep DEF V1
<1> QED
  BY <1>2, TypesStep, CallsStep DEF V1

LEMMA V1Always == VGSpec => []V1
  BY V1Init, V1Step, PTL DEF VGSpec

----------------------------------------------------------------------------
(***************************************************************************)
(* What write_version does to the chains and the records: its version is   *)
(* behind all others of its key, which keep position and creator.          *)
(***************************************************************************)
NewVersion(t) ==
    [pos |-> pushes + 1, created_tx_id |-> t,
     deleted_tx_id |-> IF op[t].call = "delete" THEN t ELSE 0]

SameWriter(v, w) == w.pos = v.pos /\ w.created_tx_id = v.created_tx_id

LEMMA Pushed ==
  ASSUME V1, NEW t \in TxId, WriteVersion(t)
  PROVE  /\ op[t].key \in Key /\ op[t].kind \in Kind /\ op[t].call \in WriteCalls
         /\ pushes \in Nat /\ pushes' = pushes + 1 /\ pushes + 1 \in 1 .. MaxWrites
         /\ NewVersion(t) \in versions'[op[t].key]
         /\ \A w \in versions'[op[t].key] :
                w = NewVersion(t) \/ \E v \in versions[op[t].key] : SameWriter(v, w)
         /\ \A v \in versions[op[t].key] : \E w \in versions'[op[t].key] : SameWriter(v, w)
         /\ \A j \in Key : j # op[t].key => versions'[j] = versions[j]
         /\ \A j \in Key : \A v \in versions[j] : v.pos \in 1 .. MaxWrites /\ v.pos <= pushes
         /\ data'[pushes + 1] = RecordOf(op[t])
         /\ \A p \in 1 .. MaxWrites : p <= pushes => data'[p] = data[p]
         /\ op'[t] = NoOp /\ \A u \in TxId : u # t => op'[u] = op[u]
         /\ UNCHANGED <<next_id, page, overlapped, reading, result>>
<1> DEFINE k == op[t].key
           d == IF op[t].call = "delete" THEN t ELSE 0
           marked == MarkDeleted(versions[k], t)
<1>1. k \in Key /\ op[t].kind \in Kind /\ op[t].call \in WriteCalls
  BY OpFields DEF V1, WriteVersion
<1>2. InstallVersion(t, k, d) /\ MVTypeOK /\ Appended
  BY DEF WriteVersion, Push, V1, MVInv
<1>3. /\ versions' = [versions EXCEPT ![k] = marked \cup {NewVersion(t)}]
      /\ pushes' = pushes + 1 /\ pushes < MaxWrites
      /\ UNCHANGED <<reading, result>>
  BY <1>2 DEF InstallVersion, NewVersion
<1>4. \A j \in Key : versions[j] \subseteq Version
  BY <1>2 DEF MVTypeOK
<1>5. pushes \in Nat /\ pushes + 1 \in 1 .. MaxWrites
  BY <1>2, <1>3 DEF MVTypeOK
<1>6. \A j \in Key : \A v \in versions[j] : v.pos \in 1 .. MaxWrites /\ v.pos <= pushes
  BY <1>2, <1>4 DEF Appended, Version
<1>7. ASSUME NEW w \in marked PROVE \E v \in versions[k] : SameWriter(v, w)
  <2>1. PICK v \in versions[k] : w = v \/ w = [v EXCEPT !.deleted_tx_id = t]
    BY Marked
  <2> QED
    BY <1>1, <1>4, <2>1 DEF SameWriter, Version
<1>8. ASSUME NEW v \in versions[k] PROVE \E w \in marked : SameWriter(v, w)
  <2>1. PICK w \in marked : w = v \/ w = [v EXCEPT !.deleted_tx_id = t]
    BY DEF MarkDeleted
  <2> QED
    BY <1>1, <1>4, <2>1 DEF SameWriter, Version
<1>9. /\ versions'[k] = marked \cup {NewVersion(t)}
      /\ \A j \in Key : j # k => versions'[j] = versions[j]
  BY <1>1, <1>2, <1>3 DEF MVTypeOK
<1>10. /\ data'[pushes + 1] = RecordOf(op[t])
       /\ \A p \in 1 .. MaxWrites : p <= pushes => data'[p] = data[p]
       /\ op'[t] = NoOp /\ \A u \in TxId : u # t => op'[u] = op[u]
       /\ UNCHANGED <<next_id, page, overlapped>>
  BY <1>5 DEF WriteVersion, Push, V1, VGTypes
<1> HIDE DEF marked, d
<1> QED
  BY <1>1, <1>3, <1>5, <1>6, <1>7, <1>8, <1>9, <1>10

----------------------------------------------------------------------------
(***************************************************************************)
(* Second layer: what is on a page, in a chain or in a reader's hand       *)
(* belongs to an identifier that was handed out for its kind.              *)
(***************************************************************************)
Issued(kind, id) == next_id[kind] > id

Holds(pos, id) == data[pos].kind \in Kind /\ Issued(data[pos].kind, id)

IdsIssued ==
    /\ \A kind \in Kind, id \in Key : page[kind][id] # 0 => Issued(kind, id)
    /\ \A t \in TxId : Writing(t) => Issued(op[t].kind, op[t].key)
    /\ \A id \in Key : \A v \in versions[id] : Holds(v.pos, id)

AnswerHeld ==
    \A t \in TxId :
        op[t].call = "get" /\ result[t] # NotFound =>
            result[t].pos <= pushes /\ Holds(result[t].pos, op[t].key)

V2 == V1 /\ IdsIssued /\ AnswerHeld

LEMMA IssuedStays ==
  ASSUME V1, V1', [VGNext]_allVars, NEW kind \in Kind, NEW id \in Key, Issued(kind, id)
  PROVE  Issued(kind, id)'
<1>0. VGTypes
  BY DEF V1
<1>1. CASE next_id' = next_id
  BY <1>1 DEF Issued
<1>2. ASSUME NEW t \in TxId, NEW c \in WriteCalls, NEW k2 \in Kind, NEW i2 \in Key,
             Enters(t, c, k2, i2)
      PROVE  Issued(kind, id)'
  <2>1. \A k \in Kind : next_id'[k] >= next_id[k] /\ next_id[k] \in Nat /\ next_id'[k] \in Nat
    BY <1>0, <1>2 DEF Enters, VGTypes
  <2> QED
    BY <2>1 DEF Issued
<1> QED
  BY <1>0, <1>1, <1>2, Steps
     DEF VGTransactions, Lock, WriteVersion, Push, Return, Get, vgVars, allVars

LEMMA IdsIssuedStep ==
  ASSUME V2, V1', [VGNext]_allVars
  PROVE  IdsIssued'
<1>0. V1 /\ VGTypes /\ VGTypes' /\ IdsIssued /\ MVTypeOK
  BY DEF V1, V2, MVInv
<1>1. \A kind \in Kind, id \in Key : Issued(kind, id) => Issued(kind, id)'
  BY <1>0, IssuedStays
<1>2. ASSUME UNCHANGED <<page, versions, data>>,
             \A t \in TxId : Writing(t)' => op'[t] = op[t]
      PROVE  IdsIssued'
  <2>1. ASSUME NEW t \in TxId, Writing(t)' PROVE Issued(op[t].kind, op[t].key)'
    <3>1. Writing(t)
      BY <1>2, <2>1 DEF Writing
    <3> QED
      BY <1>0, <1>1, <1>2, <2>1, <3>1, OpFields DEF IdsIssued, Issued
  <2>2. \A id \in Key : \A v \in versions[id] : Holds(v.pos, id)'
    BY <1>0, <1>1, <1>2 DEF IdsIssued, Holds
  <2> QED
    BY <1>0, <1>1, <1>2, <2>1, <2>2 DEF IdsIssued
<1>3. ASSUME NEW t \in TxId, WriteVersion(t) PROVE IdsIssued'
  <2>1. ASSUME NEW id \in Key, NEW w \in versions'[id] PROVE Holds(w.pos, id)'
    <3>1. CASE id = op[t].key /\ w = NewVersion(t)
      <4>1. w.pos = pushes + 1 /\ data'[w.pos].kind = op[t].kind /\ op[t].kind \in Kind
        <5>1. data'[pushes + 1] = RecordOf(op[t]) /\ op[t].kind \in Kind
          BY <1>0, <1>3, Pushed
        <5>2. w.pos = pushes + 1 /\ RecordOf(op[t]).kind = op[t].kind
          BY <3>1 DEF NewVersion, RecordOf
        <5> QED
          BY <5>1, <5>2
      <4>2. Issued(op[t].kind, op[t].key)
        BY <1>0, <1>3 DEF IdsIssued, WriteVersion
      <4> QED
        BY <1>1, <3>1, <4>1, <4>2 DEF Holds
    <3>2. ASSUME NEW v \in versions[id], w.pos = v.pos PROVE Holds(w.pos, id)'
      <4>1. data'[v.pos] = data[v.pos]
        BY <1>0, <1>3, Pushed
      <4> QED
        BY <1>0, <1>1, <3>2, <4>1 DEF IdsIssued, Holds
    <3> QED
      BY <1>0, <1>3, <2>1, <3>1, <3>2, Pushed DEF SameWriter
  <2>2. ASSUME NEW u \in TxId, Writing(u)' PROVE Issued(op[u].kind, op[u].key)'
    <3>1. u # t /\ op'[u] = op[u]
      BY <1>0, <1>3, <2>2, Pushed, NoOpFields DEF Writing, WriteCalls
    <3> QED
      BY <1>0, <1>1, <2>2, <3>1, OpFields DEF IdsIssued, Writing
  <2> QED
    BY <1>0, <1>1, <1>3, <2>1, <2>2, Pushed DEF IdsIssued
<1>4. ASSUME NEW t \in TxId, NEW c \in WriteCalls, NEW kind \in Kind, NEW id \in Key,
             Enters(t, c, kind, id)
      PROVE  IdsIssued'
  <2>1. Issued(kind, id)'
    <3>1. CASE c = "create"
      BY <1>0, <1>4, <3>1 DEF Enters, VGTypes, Issued
    <3>2. CASE c # "create"
      BY <1>0, <1>1, <1>4, <3>2 DEF Enters, IdsIssued
    <3> QED
      BY <3>1, <3>2
  <2>2. \A k2 \in Kind, i2 \in Key : page'[k2][i2] # 0 => Issued(k2, i2)'
    BY <1>0, <1>1, <1>4, <2>1, EntersTypes DEF IdsIssued
  <2>3. ASSUME NEW u \in TxId, Writing(u)' PROVE Issued(op[u].kind, op[u].key)'
    <3>1. CASE u = t
      BY <1>0, <1>4, <2>1, <3>1, EntersTypes, NewOp
    <3>2. CASE u # t
      BY <1>0, <1>1, <1>4, <2>3, <3>2, EntersTypes, OpFields DEF IdsIssued, Writing
    <3> QED
      BY <3>1, <3>2
  <2> QED
    BY <1>0, <1>1, <1>4, <2>2, <2>3 DEF IdsIssued, Holds, Enters, vars, mvVars
<1>5. ASSUME NEW t \in TxId, Return(t) PROVE IdsIssued'
  <2>1. UNCHANGED <<page, versions, data>> /\ \A u \in TxId : Writing(u)' => op'[u] = op[u]
    BY <1>0, <1>5, NoOpFields DEF Return, vars, mvVars, VGTypes, Writing, WriteCalls
  <2> QED
    BY <1>2, <2>1
<1>6. ASSUME NEW t \in TxId, NEW kind \in Kind, NEW id \in Key, Get(t, kind, id)
      PROVE  IdsIssued'
  <2>1. UNCHANGED <<page, versions, data>> /\ \A u \in TxId : Writing(u)' => op'[u] = op[u]
    BY <1>0, <1>6, NewOp DEF Get, StartRead, VGTypes, Writing, WriteCalls
  <2> QED
    BY <1>2, <2>1
<1> QED
  BY <1>0, <1>2, <1>3, <1>4, <1>5, <1>6, Steps
     DEF VGTransactions, Lock, LockKey, ReturnVersion, SkipVersion, ReturnNotFound,
         vgVars, allVars, vars, mvVars

LEMMA AnswerHeldStep ==
  ASSUME V2, V1', [VGNext]_allVars
  PROVE  AnswerHeld'
<1>0. V1 /\ VGTypes /\ IdsIssued /\ AnswerHeld /\ MVTypeOK /\ CallsMatch /\ Appended
  BY DEF V1, V2, MVInv
<1>1. \A kind \in Kind, id \in Key : Issued(kind, id) => Issued(kind, id)'
  BY <1>0, IssuedStays
<1>2. ASSUME \A u \in TxId : op'[u].call = "get" /\ result'[u] # NotFound =>
                 op'[u] = op[u] /\ result'[u] = result[u],
             pushes \in Nat, pushes' \in Nat, pushes <= pushes',
             \A p \in 1 .. MaxWrites : p <= pushes => data'[p] = data[p]
      PROVE  AnswerHeld'
  <2> SUFFICES ASSUME NEW u \in TxId, op'[u].call = "get", result'[u] # NotFound
               PROVE  result'[u].pos <= pushes' /\ Holds(result[u].pos, op[u].key)'
    BY DEF AnswerHeld
  <2>1. op'[u] = op[u] /\ result'[u] = result[u] /\ op[u].key \in Key
    BY <1>0, <1>2, OpFields
  <2>2. result[u].pos \in 1 .. MaxWrites
    BY <1>0, <2>1 DEF MVTypeOK, Version
  <2>3. result[u].pos <= pushes /\ Holds(result[u].pos, op[u].key)
    BY <1>0, <2>1 DEF AnswerHeld
  <2>4. data'[result[u].pos] = data[result[u].pos]
    BY <1>2, <2>2, <2>3
  <2> QED
    BY <1>1, <1>2, <2>1, <2>2, <2>3, <2>4 DEF Holds, Issued
<1>3. pushes \in Nat
  BY <1>0 DEF MVTypeOK
<1>4. ASSUME UNCHANGED <<result, data, pushes, op>> PROVE AnswerHeld'
  BY <1>2, <1>3, <1>4
<1>5. ASSUME NEW t \in TxId, WriteVersion(t) PROVE AnswerHeld'
  <2>1. op'[t].call # "get"
    BY <1>0, <1>5, Pushed, NoOpFields
  <2>2. \A u \in TxId : op'[u].call = "get" => op'[u] = op[u] /\ result'[u] = result[u]
    BY <1>0, <1>5, <2>1, Pushed
  <2>3. /\ pushes' \in Nat /\ pushes <= pushes'
        /\ \A p \in 1 .. MaxWrites : p <= pushes => data'[p] = data[p]
    BY <1>0, <1>3, <1>5, Pushed
  <2> QED
    BY <1>2, <1>3, <2>2, <2>3
<1>6. ASSUME NEW t \in TxId, Return(t) PROVE AnswerHeld'
  <2>1. UNCHANGED <<result, data, pushes>> /\ op' = [op EXCEPT ![t] = NoOp]
    BY <1>6 DEF Return, vars, mvVars
  <2>2. \A u \in TxId : op'[u].call = "get" => op'[u] = op[u]
    BY <1>0, <2>1, NoOpFields DEF VGTypes
  <2> QED
    BY <1>2, <1>3, <2>1, <2>2
<1>7. ASSUME NEW t \in TxId, NEW kind \in Kind, NEW id \in Key, Get(t, kind, id)
      PROVE  AnswerHeld'
  <2>1. /\ UNCHANGED <<data, pushes>> /\ op' = [op EXCEPT ![t] = OpOf("get", kind, id)]
        /\ result' = [result EXCEPT ![t] = NotFound]
    BY <1>7 DEF Get, StartRead
  <2>2. \A u \in TxId : result'[u] # NotFound => op'[u] = op[u] /\ result'[u] = result[u]
    BY <1>0, <2>1 DEF VGTypes, MVTypeOK
  <2> QED
    BY <1>2, <1>3, <2>1, <2>2
<1>8. ASSUME NEW t \in TxId, NEW c \in WriteCalls, NEW kind \in Kind, NEW id \in Key,
             Enters(t, c, kind, id)
      PROVE  AnswerHeld'
  <2>1. UNCHANGED <<result, data, pushes>>
    BY <1>8 DEF Enters, vars, mvVars
  <2>2. \A u \in TxId : op'[u].call = "get" => op'[u] = op[u]
    BY <1>0, <1>8, EntersTypes, NewOp DEF WriteCalls
  <2> QED
    BY <1>2, <1>3, <2>1, <2>2
<1>9. ASSUME NEW t \in TxId, ReturnVersion(t), UNCHANGED vgVars PROVE AnswerHeld'
  <2>1. PICK v : /\ Candidate(t, v) /\ result' = [result EXCEPT ![t] = v]
                 /\ UNCHANGED <<versions, pushes>>
    BY <1>9 DEF ReturnVersion
  <2>2. op[t].call = "get" /\ v \in versions[op[t].key] /\ op[t].key \in Key
    BY <1>0, <2>1, OpFields DEF Candidate, IsNewest, CallsMatch
  <2>3. v.pos <= pushes /\ Holds(v.pos, op[t].key)
    BY <1>0, <2>2 DEF Appended, IdsIssued
  <2>4. ASSUME NEW u \in TxId, op[u].call = "get", result'[u] # NotFound
        PROVE  result'[u].pos <= pushes /\ Holds(result'[u].pos, op[u].key)
    <3>1. CASE u = t
      BY <1>0, <2>1, <2>3, <3>1 DEF MVTypeOK
    <3>2. CASE u # t
      BY <1>0, <2>1, <2>4, <3>2 DEF MVTypeOK, AnswerHeld
    <3> QED
      BY <3>1, <3>2
  <2>5. UNCHANGED <<op, pushes, data, next_id>>
    BY <1>9, <2>1 DEF vgVars
  <2> QED
    BY <2>4, <2>5 DEF AnswerHeld, Holds, Issued
<1> QED
  BY <1>0, <1>4, <1>5, <1>6, <1>7, <1>8, <1>9, Steps
     DEF VGTransactions, Lock, LockKey, SkipVersion, ReturnNotFound,
         vgVars, allVars, vars, mvVars

LEMMA V2Init == VGInit => V2
<1> SUFFICES ASSUME VGInit PROVE V2
  OBVIOUS
<1>1. V1
  BY V1Init
<1>2. IdsIssued /\ AnswerHeld
  BY DEF VGInit, Init, IdsIssued, AnswerHeld, Writing, NoOp
<1> QED
  BY <1>1, <1>2 DEF V2

LEMMA V2Always == VGSpec => []V2
<1>1. V2 /\ V1' /\ [VGNext]_allVars => V2'
  BY IdsIssuedStep, AnswerHeldStep DEF V2
<1> QED
  BY <1>1, V2Init, V1Always, PTL DEF VGSpec

(***************************************************************************)
(* "tx2 should NOT see the node because tx1 hasn't committed yet"          *)
(* (tests/transaction/test_mvcc_graph.cpp:41), for any number of           *)
(* transactions: what get_node and get_edge return was written by the      *)
(* caller or committed, unless node and edge share the identifier.  If     *)
(* only one of the two exists, a version of the other kind cannot have     *)
(* been found, or the page asked for is not there.                         *)
(***************************************************************************)
THEOREM UncommittedUnseen == VGSpec => []AnswersCommitted
<1>1. ASSUME V2 PROVE AnswersCommitted
  <2> SUFFICES ASSUME NEW t \in TxId, Scanned(t), ~ Clash(op[t].key)
               PROVE  \/ Answer(t) \in {0, t}
                      \/ Answer(t) < t /\ txn[Answer(t)].state = "COMMITTED"
    BY DEF AnswersCommitted
  <2>1. /\ op[t].call = "get" /\ op[t].kind \in Kind /\ op[t].key \in Key
        /\ NoDirtyRead /\ IdsIssued /\ AnswerHeld
    BY <1>1, OpFields DEF V1, V2, MVInv, Scanned
  <2>2. CASE result[t] = NotFound
    BY <2>2 DEF Answer
  <2>3. CASE result[t] # NotFound /\ data[result[t].pos].kind = op[t].kind
    BY <2>1, <2>3 DEF Answer, NoDirtyRead
  <2>4. CASE result[t] # NotFound /\ data[result[t].pos].kind # op[t].kind
    <3>1. Holds(result[t].pos, op[t].key)
      BY <2>1, <2>4 DEF AnswerHeld
    <3>2. ~ Issued(op[t].kind, op[t].key)
      BY <2>1, <2>4, <3>1 DEF Holds, Issued, Clash, Kind
    <3>3. page[op[t].kind][op[t].key] = 0
      BY <2>1, <3>2 DEF IdsIssued
    <3> QED
      BY <2>4, <3>3 DEF Answer
  <2> QED
    BY <2>2, <2>3, <2>4
<1> QED
  BY <1>1, V2Always, PTL

----------------------------------------------------------------------------
(***************************************************************************)
(* Third layer: page and chain.  Where no two writers have been at a       *)
(* record together, its one writer has already left its mark on the page,  *)
(* and while nobody writes, or only deletes, the page shows the newest     *)
(* version that is no tombstone.                                           *)
(***************************************************************************)
NewestIs(kind, id) ==
    \E v \in RecordVersions(kind, id) :
        /\ IsNewest(v, RecordVersions(kind, id))
        /\ v.created_tx_id = page[kind][id]

OneWriter(kind, id) == \A t, u \in Writers(kind, id) : t = u

PageWritten(kind, id) ==
    \A t \in Writers(kind, id) :
        /\ op[t].call # "delete" => page[kind][id] = t
        /\ op[t].call = "delete" /\ kind = "edge" => page[kind][id] = 0

PageInChain(kind, id) ==
    page[kind][id] # 0 /\ (\A t \in Writers(kind, id) : op[t].call = "delete")
        => NewestIs(kind, id)

Books ==
    \A kind \in Kind, id \in Key :
        <<kind, id>> \notin overlapped =>
            OneWriter(kind, id) /\ PageWritten(kind, id) /\ PageInChain(kind, id)

(***************************************************************************)
(* An edge's page, and with it its place in the adjacency lists, is there  *)
(* exactly when the last version written is no tombstone.                  *)
(***************************************************************************)
EdgeChain(e) ==
    IF page["edge"][e] # 0
    THEN \E v \in versions[e] : IsNewest(v, versions[e]) /\ ~ IsTombstone(v)
    ELSE \A v \in versions[e] : IsNewest(v, versions[e]) => IsTombstone(v)

LastEdge ==
    \A e \in Key :
        /\ Issued("edge", e) /\ ~ Issued("node", e)
        /\ <<"edge", e>> \notin overlapped /\ Writers("edge", e) = {}
        => EdgeChain(e)

V3 == V2 /\ Books /\ LastEdge

----------------------------------------------------------------------------
(***************************************************************************)
(* Who is writing a record, before and after a step.                       *)
(***************************************************************************)
LEMMA WritersAre ==
  ASSUME VGTypes, NEW kind \in Kind, NEW id \in Key, NEW t \in TxId
  PROVE  t \in Writers(kind, id) <=>
             op[t].call \in WriteCalls /\ op[t].kind = kind /\ op[t].key = id
  BY OpFields DEF Writers

LEMMA WritersThen ==
  ASSUME VGTypes', NEW kind \in Kind, NEW id \in Key, NEW t \in TxId
  PROVE  t \in Writers(kind, id)' <=>
             op'[t].call \in WriteCalls /\ op'[t].kind = kind /\ op'[t].key = id
<1>1. op'[t] \in Op
  BY DEF VGTypes
<1>2. Writing(t)' <=> op'[t].call \in WriteCalls
  BY DEF Writing, WriteCalls
<1> QED
  BY <1>2 DEF Writers

LEMMA SameWriters ==
  ASSUME VGTypes, VGTypes', NEW kind \in Kind, NEW id \in Key,
         \A u \in TxId : op[u].call \in WriteCalls \/ op'[u].call \in WriteCalls
                             => op'[u] = op[u]
  PROVE  Writers(kind, id)' = Writers(kind, id)
<1>1. \A u \in TxId : u \in Writers(kind, id)' <=> u \in Writers(kind, id)
  BY WritersAre, WritersThen
<1>2. Writers(kind, id) \subseteq TxId /\ Writers(kind, id)' \subseteq TxId
  BY DEF Writers
<1> QED
  BY <1>1, <1>2

LEMMA WritersEnter ==
  ASSUME VGTypes, NEW t \in TxId, NEW c \in WriteCalls, NEW kind \in Kind, NEW id \in Key,
         Enters(t, c, kind, id), NEW k2 \in Kind, NEW i2 \in Key
  PROVE  /\ t \notin Writers(k2, i2)
         /\ Writers(k2, i2)' = IF k2 = kind /\ i2 = id THEN Writers(k2, i2) \cup {t}
                               ELSE Writers(k2, i2)
<1>1. /\ VGTypes' /\ op[t] = NoOp /\ op'[t] = OpOf(c, kind, id)
      /\ \A u \in TxId : u # t => op'[u] = op[u]
  BY EntersTypes DEF Enters, Free
<1>2. t \notin Writers(k2, i2)
  BY <1>1, WritersAre, NoOpFields
<1>3. t \in Writers(k2, i2)' <=> k2 = kind /\ i2 = id
  BY <1>1, WritersThen, NewOp
<1>4. \A u \in TxId : u # t => (u \in Writers(k2, i2)' <=> u \in Writers(k2, i2))
  BY <1>1, WritersAre, WritersThen
<1>5. Writers(k2, i2) \subseteq TxId /\ Writers(k2, i2)' \subseteq TxId
  BY DEF Writers
<1>6. CASE k2 = kind /\ i2 = id
  <2>1. \A u : u \in Writers(k2, i2)' <=> u \in Writers(k2, i2) \cup {t}
    BY <1>3, <1>4, <1>5, <1>6
  <2> QED
    BY <1>2, <1>6, <2>1
<1>7. CASE ~ (k2 = kind /\ i2 = id)
  <2>1. \A u : u \in Writers(k2, i2)' <=> u \in Writers(k2, i2)
    BY <1>2, <1>3, <1>4, <1>5, <1>7
  <2> QED
    BY <1>2, <1>7, <2>1
<1> QED
  BY <1>6, <1>7

LEMMA WritersLeave ==
  ASSUME V1, VGTypes', NEW t \in TxId, WriteVersion(t), NEW k2 \in Kind, NEW i2 \in Key
  PROVE  /\ Writers(k2, i2)' = Writers(k2, i2) \ {t}
         /\ t \in Writers(k2, i2) <=> k2 = op[t].kind /\ i2 = op[t].key
<1>1. /\ VGTypes /\ op'[t] = NoOp /\ op[t].call \in WriteCalls
      /\ \A u \in TxId : u # t => op'[u] = op[u]
  BY Pushed DEF V1
<1>2. t \notin Writers(k2, i2)'
  BY <1>1, WritersThen, NoOpFields
<1>3. \A u \in TxId : u # t => (u \in Writers(k2, i2)' <=> u \in Writers(k2, i2))
  BY <1>1, WritersAre, WritersThen
<1>4. Writers(k2, i2) \subseteq TxId /\ Writers(k2, i2)' \subseteq TxId
  BY DEF Writers
<1>5. t \in Writers(k2, i2) <=> k2 = op[t].kind /\ i2 = op[t].key
  BY <1>1, WritersAre
<1> QED
  BY <1>2, <1>3, <1>4, <1>5

----------------------------------------------------------------------------
(***************************************************************************)
(* A write and the newest version of a record.                             *)
(***************************************************************************)
\* The versions of a record after a write, other than the one written.
LEMMA RecordKept ==
  ASSUME V1, NEW t \in TxId, WriteVersion(t), NEW kind \in Kind, NEW id \in Key
  PROVE  /\ \A v \in RecordVersions(kind, id) :
                \E w \in RecordVersions(kind, id)' : SameWriter(v, w)
         /\ \A w \in RecordVersions(kind, id)' :
                \/ \E v \in RecordVersions(kind, id) : SameWriter(v, w)
                \/ /\ w = NewVersion(t) /\ id = op[t].key
                   /\ kind = op[t].kind /\ op[t].call # "delete"
<1> DEFINE Now == RecordVersions(kind, id)
           Then == RecordVersions(kind, id)'
<1>1. /\ \A v \in versions[id] : data'[v.pos] = data[v.pos]
      /\ \A v \in versions[id] : \E w \in versions'[id] : SameWriter(v, w)
  BY Pushed DEF SameWriter
<1>2. ASSUME NEW v \in Now PROVE \E w \in Then : SameWriter(v, w)
  <2>1. PICK w \in versions'[id] : SameWriter(v, w)
    BY <1>1 DEF RecordVersions
  <2> QED
    BY <1>1, <2>1 DEF RecordVersions, SameWriter
<1>3. ASSUME NEW w \in Then
      PROVE  \/ \E v \in Now : SameWriter(v, w)
             \/ /\ w = NewVersion(t) /\ id = op[t].key
                /\ kind = op[t].kind /\ op[t].call # "delete"
  <2>1. w \in versions'[id] /\ data'[w.pos] = [kind |-> kind, empty |-> FALSE]
    BY DEF RecordVersions
  <2>2. ASSUME NEW v \in versions[id], SameWriter(v, w) PROVE \E u \in Now : SameWriter(u, w)
    BY <1>1, <2>1, <2>2 DEF RecordVersions, SameWriter
  <2>3. CASE w = NewVersion(t) /\ id = op[t].key
    <3>1. data'[pushes + 1] = RecordOf(op[t]) /\ w.pos = pushes + 1
      BY <2>3, Pushed DEF NewVersion
    <3>2. RecordOf(op[t]) = [kind |-> kind, empty |-> FALSE]
      BY <2>1, <3>1
    <3>3. RecordOf(op[t]).kind = op[t].kind /\ RecordOf(op[t]).empty = (op[t].call = "delete")
      BY DEF RecordOf
    <3>4. RecordOf(op[t]).kind = kind /\ RecordOf(op[t]).empty = FALSE
      BY <3>2
    <3>5. kind = op[t].kind /\ op[t].call # "delete"
      BY <3>3, <3>4
    <3> QED
      BY <2>3, <3>5
  <2>4. (w = NewVersion(t) /\ id = op[t].key) \/ \E v \in versions[id] : SameWriter(v, w)
    BY <2>1, Pushed DEF SameWriter
  <2> QED
    BY <2>2, <2>3, <2>4
<1> QED
  BY <1>2, <1>3

LEMMA NewestKept ==
  ASSUME V1, NEW t \in TxId, WriteVersion(t), NEW kind \in Kind, NEW id \in Key,
         NewestIs(kind, id),
         ~ (kind = op[t].kind /\ id = op[t].key /\ op[t].call # "delete")
  PROVE  NewestIs(kind, id)'
<1>1. PICK v \in RecordVersions(kind, id) :
          IsNewest(v, RecordVersions(kind, id)) /\ v.created_tx_id = page[kind][id]
  BY DEF NewestIs
<1>2. PICK w \in RecordVersions(kind, id)' : SameWriter(v, w)
  BY RecordKept
<1>3. ASSUME NEW x \in RecordVersions(kind, id)' PROVE x.pos <= w.pos
  <2>1. PICK u \in RecordVersions(kind, id) : SameWriter(u, x)
    BY RecordKept
  <2> QED
    BY <1>1, <1>2, <2>1 DEF SameWriter, IsNewest
<1>4. page'[kind][id] = page[kind][id]
  BY Pushed
<1> QED
  BY <1>1, <1>2, <1>3, <1>4 DEF NewestIs, IsNewest, SameWriter

LEMMA NewestWritten ==
  ASSUME V1, NEW t \in TxId, WriteVersion(t), NEW kind \in Kind, NEW id \in Key,
         kind = op[t].kind, id = op[t].key, op[t].call # "delete", page[kind][id] = t
  PROVE  NewestIs(kind, id)'
<1> DEFINE new == NewVersion(t)
<1>1. new.pos = pushes + 1 /\ new.created_tx_id = t
  BY DEF NewVersion
<1>2. /\ new \in versions'[id] /\ data'[pushes + 1] = RecordOf(op[t])
      /\ page'[kind][id] = t /\ pushes \in Nat
  BY Pushed
<1>3. RecordOf(op[t]) = [kind |-> kind, empty |-> FALSE]
  BY DEF RecordOf
<1> HIDE DEF new
<1>4. new \in RecordVersions(kind, id)'
  BY <1>1, <1>2, <1>3 DEF RecordVersions
<1>5. ASSUME NEW x \in RecordVersions(kind, id)' PROVE x.pos <= new.pos
  <2>1. CASE x = new
    BY <1>1, <1>2, <2>1
  <2>2. ASSUME NEW u \in RecordVersions(kind, id), SameWriter(u, x) PROVE x.pos <= new.pos
    <3>1. u \in versions[id]
      BY DEF RecordVersions
    <3>2. u.pos <= pushes /\ u.pos \in 1 .. MaxWrites
      BY <3>1, Pushed
    <3> QED
      BY <1>1, <1>2, <2>2, <3>2 DEF SameWriter
  <2> QED
    BY <2>1, <2>2, RecordKept DEF new
<1> QED
  BY <1>1, <1>2, <1>4, <1>5 DEF NewestIs, IsNewest

----------------------------------------------------------------------------
\* Every step but those that write or begin to write.
Apart ==
    /\ UNCHANGED <<page, versions, data, overlapped, next_id>>
    /\ \A u \in TxId : op[u].call \in WriteCalls \/ op'[u].call \in WriteCalls => op'[u] = op[u]

LEMMA OtherSteps ==
  ASSUME V1, V1', [VGNext]_allVars
  PROVE  \/ Apart
         \/ \E t \in TxId : WriteVersion(t)
         \/ \E t \in TxId, c \in WriteCalls, kind \in Kind, id \in Key : Enters(t, c, kind, id)
<1>0. VGTypes /\ CallsMatch
  BY DEF V1
<1>1. ASSUME UNCHANGED <<vgVars, versions>> PROVE Apart
  BY <1>1 DEF vgVars, Apart
<1>2. ASSUME NEW t \in TxId, Return(t) PROVE Apart
  <2>1. op[t].call = "get" /\ op' = [op EXCEPT ![t] = NoOp]
    BY <1>2 DEF Return, Scanned
  <2> QED
    BY <1>0, <1>2, <2>1, NoOpFields DEF Return, Apart, VGTypes, WriteCalls, vars, mvVars
<1>3. ASSUME NEW t \in TxId, NEW kind \in Kind, NEW id \in Key, Get(t, kind, id) PROVE Apart
  <2>1. op[t] = NoOp /\ op' = [op EXCEPT ![t] = OpOf("get", kind, id)]
    BY <1>3 DEF Get, Free
  <2> QED
    BY <1>0, <1>3, <2>1, NoOpFields, NewOp DEF Get, StartRead, Apart, VGTypes, WriteCalls
<1> QED
  BY <1>0, <1>1, <1>2, <1>3, Steps
     DEF VGTransactions, Lock, LockKey, ReturnVersion, SkipVersion, ReturnNotFound,
         vgVars, allVars, vars, mvVars

LEMMA BooksStep ==
  ASSUME V3, V1', [VGNext]_allVars
  PROVE  Books'
<1>0. V1 /\ VGTypes /\ VGTypes' /\ Books
  BY DEF V1, V2, V3
<1> SUFFICES ASSUME NEW kind \in Kind, NEW id \in Key, <<kind, id>> \notin overlapped'
             PROVE  OneWriter(kind, id)' /\ PageWritten(kind, id)' /\ PageInChain(kind, id)'
  BY DEF Books
<1> DEFINE Now == Writers(kind, id)
           Then == Writers(kind, id)'
           Goal == OneWriter(kind, id)' /\ PageWritten(kind, id)' /\ PageInChain(kind, id)'
<1>1. Now \subseteq TxId /\ \A u \in Now : op[u].call \in WriteCalls
  BY <1>0, WritersAre DEF Writers
<1>2. ASSUME <<kind, id>> \notin overlapped
      PROVE  OneWriter(kind, id) /\ PageWritten(kind, id) /\ PageInChain(kind, id)
  BY <1>0, <1>2 DEF Books
<1>3. ASSUME Apart PROVE Goal
  <2>1. Then = Now /\ \A u \in Now : op'[u] = op[u]
    BY <1>0, <1>1, <1>3, SameWriters DEF Apart
  <2>2. page' = page /\ NewestIs(kind, id)' = NewestIs(kind, id)
    BY <1>3 DEF Apart, NewestIs, RecordVersions
  <2>3. <<kind, id>> \notin overlapped
    BY <1>3 DEF Apart
  <2> QED
    BY <1>2, <2>1, <2>2, <2>3 DEF OneWriter, PageWritten, PageInChain
<1>4. ASSUME NEW t \in TxId, WriteVersion(t) PROVE Goal
  <2>1. /\ Then = Now \ {t} /\ (t \in Now <=> kind = op[t].kind /\ id = op[t].key)
        /\ \A u \in TxId : u # t => op'[u] = op[u]
        /\ page' = page /\ <<kind, id>> \notin overlapped
        /\ op[t].call \in WriteCalls
    BY <1>0, <1>4, WritersLeave, Pushed
  <2>2. OneWriter(kind, id) /\ PageWritten(kind, id) /\ PageInChain(kind, id)
    BY <1>2, <2>1
  <2>3. OneWriter(kind, id)' /\ PageWritten(kind, id)'
    BY <1>1, <2>1, <2>2 DEF OneWriter, PageWritten
  <2>4. PageInChain(kind, id)'
    <3> SUFFICES ASSUME page[kind][id] # 0, \A u \in Then : op'[u].call = "delete"
                 PROVE  NewestIs(kind, id)'
      BY <2>1 DEF PageInChain
    <3>1. CASE t \in Now /\ op[t].call # "delete"
      BY <1>0, <1>4, <2>1, <2>2, <3>1, NewestWritten DEF PageWritten
    <3>2. CASE ~ (t \in Now /\ op[t].call # "delete")
      <4>1. \A u \in Now : op[u].call = "delete"
        BY <1>1, <2>1, <3>2
      <4>2. NewestIs(kind, id)
        BY <2>2, <4>1 DEF PageInChain
      <4> QED
        BY <1>0, <1>4, <2>1, <3>2, <4>2, NewestKept
    <3> QED
      BY <3>1, <3>2
  <2> QED
    BY <2>3, <2>4
<1>5. ASSUME NEW t \in TxId, NEW c \in WriteCalls, NEW k2 \in Kind, NEW i2 \in Key,
             Enters(t, c, k2, i2)
      PROVE  Goal
  <2>1. /\ t \notin Now
        /\ Then = IF kind = k2 /\ id = i2 THEN Now \cup {t} ELSE Now
    BY <1>0, <1>5, WritersEnter
  <2>2. /\ op'[t] = OpOf(c, k2, i2) /\ op'[t].call = c
        /\ \A u \in TxId : u # t => op'[u] = op[u]
    BY <1>0, <1>5, EntersTypes, NewOp
  <2>3. page'[kind][id] = page[kind][id] => NewestIs(kind, id)' = NewestIs(kind, id)
    BY <1>5 DEF Enters, vars, mvVars, NewestIs, RecordVersions
  <2>4. /\ <<kind, id>> \notin overlapped
        /\ kind = k2 /\ id = i2 => Now = {}
    BY <1>5 DEF Enters, GoOn
  <2>5. OneWriter(kind, id) /\ PageWritten(kind, id) /\ PageInChain(kind, id)
    BY <1>2, <2>4
  <2>6. CASE kind = k2 /\ id = i2
    <3>1. Now = {} /\ Then = {t}
      BY <2>1, <2>4, <2>6
    <3>2. /\ c # "delete" => page'[kind][id] = t
          /\ c = "delete" /\ kind = "edge" => page'[kind][id] = 0
          /\ c = "delete" /\ kind # "edge" => page'[kind][id] = page[kind][id]
      BY <1>0, <1>5, <2>6, EntersTypes DEF WriteCalls, Kind
    <3>3. OneWriter(kind, id)' /\ PageWritten(kind, id)'
      BY <2>2, <3>1, <3>2 DEF OneWriter, PageWritten
    <3>4. PageInChain(kind, id)'
      BY <2>2, <2>3, <2>5, <3>1, <3>2 DEF PageInChain
    <3> QED
      BY <3>3, <3>4
  <2>7. CASE ~ (kind = k2 /\ id = i2)
    <3>1. Then = Now /\ \A u \in Now : op'[u] = op[u]
      BY <1>1, <2>1, <2>2, <2>7
    <3>2. page'[kind][id] = page[kind][id]
      BY <1>0, <1>5, <2>7, EntersTypes
    <3> QED
      BY <2>3, <2>5, <3>1, <3>2 DEF OneWriter, PageWritten, PageInChain
  <2> QED
    BY <2>6, <2>7
<1> HIDE DEF Goal
<1>6. Goal
  BY <1>0, <1>3, <1>4, <1>5, OtherSteps
<1> QED
  BY <1>6 DEF Goal

LEMMA LastEdgeStep ==
  ASSUME V3, V1', [VGNext]_allVars
  PROVE  LastEdge'
<1>0. V1 /\ VGTypes /\ VGTypes' /\ Books /\ LastEdge /\ IdsIssued
  BY DEF V1, V2, V3
<1>1. "edge" \in Kind /\ "node" \in Kind
  BY DEF Kind
<1> SUFFICES ASSUME NEW e \in Key, Issued("edge", e)', ~ Issued("node", e)',
                    <<"edge", e>> \notin overlapped', Writers("edge", e)' = {}
             PROVE  EdgeChain(e)'
  BY DEF LastEdge
<1> DEFINE Goal == EdgeChain(e)'
<1>2. ~ Issued("node", e)
  BY <1>0, <1>1, IssuedStays
<1>3. ASSUME Apart PROVE Goal
  <2>1. Writers("edge", e)' = Writers("edge", e)
    BY <1>0, <1>1, <1>3, SameWriters DEF Apart
  <2>2. /\ Issued("edge", e)' = Issued("edge", e) /\ overlapped' = overlapped
        /\ EdgeChain(e)' = EdgeChain(e)
    BY <1>3 DEF Apart, Issued, EdgeChain
  <2> QED
    BY <1>0, <1>2, <2>1, <2>2 DEF LastEdge
<1>4. ASSUME NEW t \in TxId, WriteVersion(t) PROVE Goal
  <2>1. /\ Writers("edge", e)' = Writers("edge", e) \ {t}
        /\ t \in Writers("edge", e) <=> op[t].kind = "edge" /\ e = op[t].key
        /\ page' = page /\ next_id' = next_id /\ overlapped' = overlapped
        /\ op[t].key \in Key /\ op[t].kind \in Kind /\ op[t].call \in WriteCalls
    BY <1>0, <1>1, <1>4, WritersLeave, Pushed
  <2>2. CASE e # op[t].key
    <3>1. versions'[e] = versions[e]
      BY <1>0, <1>4, <2>2, Pushed
    <3>2. Issued("edge", e) /\ Writers("edge", e) = {} /\ <<"edge", e>> \notin overlapped
      BY <2>1, <2>2 DEF Issued
    <3>3. EdgeChain(e)
      BY <1>0, <1>2, <3>2 DEF LastEdge
    <3> QED
      BY <2>1, <3>1, <3>3 DEF EdgeChain
  <2>3. CASE e = op[t].key
    <3>1. op[t].kind = "edge"
      <4>1. Issued(op[t].kind, op[t].key)
        BY <1>0, <1>4 DEF IdsIssued, WriteVersion
      <4> QED
        BY <1>2, <2>1, <2>3, <4>1 DEF Kind
    <3>2. t \in Writers("edge", e)
      BY <2>1, <2>3, <3>1
    <3>3. PageWritten("edge", e)
      BY <1>0, <1>1, <2>1 DEF Books
    <3>4. /\ op[t].call # "delete" => page["edge"][e] = t
          /\ op[t].call = "delete" => page["edge"][e] = 0
      BY <3>2, <3>3 DEF PageWritten
    <3> DEFINE new == NewVersion(t)
    <3>5. /\ new.pos = pushes + 1 /\ pushes \in Nat /\ new \in versions'[e]
          /\ \A w \in versions'[e] : w = new \/ (w.pos \in Nat /\ w.pos <= pushes)
      <4>1. new.pos = pushes + 1 /\ pushes \in Nat /\ new \in versions'[e]
        BY <1>0, <1>4, <2>3, Pushed DEF NewVersion
      <4> HIDE DEF new
      <4>2. ASSUME NEW w \in versions'[e], w # new PROVE w.pos \in Nat /\ w.pos <= pushes
        <5>1. PICK v \in versions[e] : SameWriter(v, w)
          BY <1>0, <1>4, <2>3, <4>2, Pushed DEF new
        <5>2. v.pos \in 1 .. MaxWrites /\ v.pos <= pushes
          BY <1>0, <1>4, Pushed
        <5> QED
          BY <5>1, <5>2 DEF SameWriter
      <4> QED
        BY <4>1, <4>2
    <3>6. IsTombstone(new) <=> op[t].call = "delete"
      BY DEF NewVersion, IsTombstone, TxId
    <3> HIDE DEF new
    <3>7. IsNewest(new, versions'[e]) /\ \A w \in versions'[e] : IsNewest(w, versions'[e]) => w = new
      BY <3>5 DEF IsNewest
    <3>8. CASE op[t].call = "delete"
      BY <2>1, <3>4, <3>6, <3>7, <3>8 DEF EdgeChain
    <3>9. CASE op[t].call # "delete"
      <4>1. page'["edge"][e] # 0
        BY <2>1, <3>4, <3>9 DEF TxId
      <4> QED
        BY <3>5, <3>6, <3>7, <3>9, <4>1 DEF EdgeChain
    <3> QED
      BY <3>8, <3>9
  <2> QED
    BY <2>2, <2>3
<1>5. ASSUME NEW t \in TxId, NEW c \in WriteCalls, NEW k2 \in Kind, NEW i2 \in Key,
             Enters(t, c, k2, i2)
      PROVE  Goal
  <2>1. Writers("edge", e)' = IF k2 = "edge" /\ i2 = e THEN Writers("edge", e) \cup {t}
                              ELSE Writers("edge", e)
    BY <1>0, <1>1, <1>5, WritersEnter
  <2>2. ~ (k2 = "edge" /\ i2 = e) /\ Writers("edge", e) = {}
    BY <2>1
  <2>3. page'["edge"][e] = page["edge"][e] /\ versions' = versions
    <3>1. <<"edge", e>> # <<k2, i2>>
      BY <2>2
    <3> QED
      BY <1>0, <1>1, <1>5, <3>1, EntersTypes DEF Enters, vars, mvVars
  <2>4. Issued("edge", e)
    <3>1. CASE next_id' = next_id
      BY <3>1 DEF Issued
    <3>2. CASE c = "create"
      <4>1. i2 = next_id[k2] /\ next_id' = [next_id EXCEPT ![k2] = next_id[k2] + 1]
        BY <1>5, <3>2 DEF Enters
      <4>2. next_id \in [Kind -> 1 .. MaxId + 1]
        BY <1>0 DEF VGTypes
      <4>3. CASE k2 = "edge"
        BY <1>1, <2>2, <4>1, <4>2, <4>3 DEF Issued
      <4>4. CASE k2 # "edge"
        BY <1>1, <4>1, <4>2, <4>4 DEF Issued
      <4> QED
        BY <4>3, <4>4
    <3> QED
      BY <1>5, <3>1, <3>2 DEF Enters
  <2>5. <<"edge", e>> \notin overlapped
    BY <1>5 DEF Enters, GoOn
  <2>6. EdgeChain(e)
    BY <1>0, <1>2, <2>2, <2>4, <2>5 DEF LastEdge
  <2> QED
    BY <2>3, <2>6 DEF EdgeChain
<1> HIDE DEF Goal
<1>6. Goal
  BY <1>0, <1>3, <1>4, <1>5, OtherSteps
<1> QED
  BY <1>6 DEF Goal

LEMMA V3Init == VGInit => V3
<1> SUFFICES ASSUME VGInit PROVE V3
  OBVIOUS
<1>1. V2
  BY V2Init
<1>2. \A kind \in Kind, id \in Key : Writers(kind, id) = {} /\ page[kind][id] = 0
  BY DEF VGInit, Writers, Writing, NoOp
<1>3. Books
  BY <1>2 DEF Books, OneWriter, PageWritten, PageInChain
<1>4. LastEdge
  BY DEF VGInit, LastEdge, Issued, Kind
<1> QED
  BY <1>1, <1>3, <1>4 DEF V3

LEMMA V3Always == VGSpec => []V3
<1>1. V3 /\ V1' /\ V2' /\ [VGNext]_allVars => V3'
  BY BooksStep, LastEdgeStep DEF V3
<1> QED
  BY <1>1, V3Init, V1Always, V2Always, PTL DEF VGSpec

(***************************************************************************)
(* For every instance: once the calls on a record have returned, its page  *)
(* holds what its newest version that is no tombstone holds, unless two    *)
(* writers were at the record together (graph_store.cpp:62-88).            *)
(***************************************************************************)
THEOREM PageShowsNewest == VGSpec => []PageIsNewest
<1>1. ASSUME V3 PROVE PageIsNewest
  BY <1>1 DEF V3, Books, PageInChain, NewestIs, PageIsNewest
<1> QED
  BY <1>1, V3Always, PTL

(***************************************************************************)
(* For every instance: a transaction that sees every writer of an edge,    *)
(* come in the order of their identifiers and one call at a time, reads    *)
(* exactly the edges the adjacency lists have.  What read_version finds is *)
(* the last version written (ReadsLatestWhenSerial), and that one is a     *)
(* tombstone exactly when the edge has left the page and the lists         *)
(* (graph_store.cpp:142-201).                                              *)
(***************************************************************************)
THEOREM ListsAgree == VGSpec => []ListsMatchReads
<1>1. ASSUME V3 PROVE ListsMatchReads
  <2> SUFFICES ASSUME NEW t \in TxId, NEW e \in Key,
                      Running(t), SeesWriters(t, versions[e]),
                      next_id["edge"] > e, ~ Clash(e),
                      Writers("edge", e) = {}, <<"edge", e>> \notin overlapped
               PROVE  page["edge"][e] # 0 <=> ReadPos(e, t) # 0
    BY DEF ListsMatchReads
  <2>1. ReadsLatestWhenSerial /\ versions[e] \subseteq Version
    BY <1>1, SerialState DEF V3, V2, V1, MVInv, MVTypeOK
  <2>2. EdgeChain(e)
    BY <1>1 DEF V3, LastEdge, Issued, Clash, Kind
  <2> DEFINE upTo == {v \in versions[e] : v.created_tx_id <= t}
  <2>3. upTo = versions[e]
    BY DEF SeesWriters
  <2>4. IF \E v \in upTo : IsNewest(v, upTo) /\ ~ IsTombstone(v)
        THEN \E v \in upTo : IsNewest(v, upTo) /\ ReadPos(e, t) = v.pos
        ELSE ReadPos(e, t) = 0
    BY <2>1 DEF ReadsLatestWhenSerial, SeesWriters
  <2> HIDE DEF upTo
  <2>5. \A v \in versions[e] : v.pos # 0
    BY <2>1 DEF Version
  <2>6. CASE page["edge"][e] # 0
    BY <2>2, <2>3, <2>4, <2>5, <2>6 DEF EdgeChain
  <2>7. CASE page["edge"][e] = 0
    BY <2>2, <2>3, <2>4, <2>7 DEF EdgeChain
  <2> QED
    BY <2>6, <2>7
<1> QED
  BY <1>1, V3Always, PTL
=============================================================================
