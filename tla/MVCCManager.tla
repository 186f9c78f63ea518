---------------------------- MODULE MVCCManager ----------------------------
(***************************************************************************)
(* transaction/mvcc_manager.{h,cpp} over TransactionManager: one chain of  *)
(* versions per key, and the visibility rule by which readers pick one.    *)
(*                                                                         *)
(* A chain is a set of versions ordered by pos, the order of push_back.    *)
(* The payload of a version is not modelled: pos identifies it.  A         *)
(* tombstone is a version its creator wrote already deleted (graph_store   *)
(* delete_node passes deleted_tx_id = tx).                                 *)
(*                                                                         *)
(* write_version holds the key's exclusive lock throughout and mutex_      *)
(* exclusively while it changes the chain; read_version holds mutex_       *)
(* shared, so no chain changes under a reader, but each version it looks   *)
(* at consults the transaction tables anew, and those do change.           *)
(***************************************************************************)
EXTENDS TransactionManager

CONSTANTS
    Key,         \* logical keys (node or edge identifiers)
    NoKey,       \* no call in progress
    MaxWrites    \* bound: the number of versions ever pushed

ASSUME KeyAssumption == NoKey \notin Key
ASSUME MaxWritesAssumption == MaxWrites \in Nat

VARIABLES
    versions,    \* versions_, for each key its chain
    pushes,      \* number of push_backs so far, gives pos
    key_lock,    \* holder of the key's exclusive lock, 0 if none
    reading,     \* the key t's read_version is scanning, or NoKey
    left,        \* positions t's scan has still to look at
    result       \* what t's last read_version returned

mvVars == <<versions, pushes, key_lock, reading, left, result>>
vars == <<tmVars, mvVars>>

Version == [pos : 1 .. MaxWrites, created_tx_id : TxId,
            deleted_tx_id : TxId \cup {0}]

\* read_version's NOT_FOUND
NotFound == [pos |-> 0, created_tx_id |-> 0, deleted_tx_id |-> 0]

(***************************************************************************)
(* is_version_visible: the code decides by identifiers and by the commit   *)
(* status at the time of the call.                                         *)
(***************************************************************************)
DeletionSeen_NoOwnDelete(v, t) ==
    /\ v.deleted_tx_id # 0
    /\ IsTransactionCommitted(v.deleted_tx_id) /\ v.deleted_tx_id <= t

DeletionSeen_Uncommitted(v, t) ==
    v.deleted_tx_id # 0 /\ v.deleted_tx_id <= t

DeletionSeen(v, t) ==
    /\ v.deleted_tx_id # 0
    /\ \/ v.deleted_tx_id = t
       \/ IsTransactionCommitted(v.deleted_tx_id) /\ v.deleted_tx_id <= t

IsVersionVisible_Dirty(v, t) ==
    IF v.created_tx_id = t THEN v.deleted_tx_id # t
    ELSE v.created_tx_id <= t /\ ~ DeletionSeen(v, t)

IsVersionVisible(v, t) ==
    IF v.created_tx_id = t THEN v.deleted_tx_id # t
    ELSE /\ IsTransactionCommitted(v.created_tx_id)
         /\ v.created_tx_id <= t
         /\ ~ DeletionSeen(v, t)

(***************************************************************************)
(* v is the back of the chain c.                                           *)
(***************************************************************************)
IsNewest(v, c) == v \in c /\ \A u \in c : u.pos <= v.pos

IsTombstone(v) == v.deleted_tx_id = v.created_tx_id

Visible(c, t) == {v \in c : IsVersionVisible(v, t)}

Idle(t) == reading[t] = NoKey /\ \A k \in Key : key_lock[k] # t

MutexFree == \A t \in TxId : reading[t] = NoKey

----------------------------------------------------------------------------

Init ==
    /\ TMInit
    /\ versions = [k \in Key |-> {}]
    /\ pushes = 0
    /\ key_lock = [k \in Key |-> 0]
    /\ reading = [t \in TxId |-> NoKey]
    /\ left = [t \in TxId |-> {}]
    /\ result = [t \in TxId |-> NotFound]

(***************************************************************************)
(* write_version.  The lock manager grants the key to one writer at a      *)
(* time; then, alone under mutex_, the writer marks the newest version     *)
(* deleted if it is live and appends its own.  The guard's unlock of the   *)
(* key follows at once: until it does, only other writers wait.            *)
(***************************************************************************)
LockKey(t, k) ==
    /\ Running(t) /\ Idle(t)
    /\ key_lock[k] = 0
    /\ key_lock' = [key_lock EXCEPT ![k] = t]
    /\ UNCHANGED <<tmVars, versions, pushes, reading, left, result>>

MarkDeleted_Not(c, t) == c

MarkDeleted(c, t) ==
    {IF IsNewest(v, c) /\ v.deleted_tx_id = 0
        THEN [v EXCEPT !.deleted_tx_id = t] ELSE v : v \in c}

InstallVersion_NoCreator(t, k, deleted) ==
    /\ key_lock[k] = t
    /\ MutexFree
    /\ pushes < MaxWrites
    /\ versions' = [versions EXCEPT ![k] =
           MarkDeleted(@, t) \cup {[pos |-> pushes + 1, created_tx_id |-> 0,
                                    deleted_tx_id |-> deleted]}]
    /\ pushes' = pushes + 1
    /\ key_lock' = [key_lock EXCEPT ![k] = 0]
    /\ UNCHANGED <<tmVars, reading, left, result>>

InstallVersion(t, k, deleted) ==
    /\ key_lock[k] = t
    /\ MutexFree
    /\ pushes < MaxWrites
    /\ versions' = [versions EXCEPT ![k] =
           MarkDeleted(@, t) \cup {[pos |-> pushes + 1, created_tx_id |-> t,
                                    deleted_tx_id |-> deleted]}]
    /\ pushes' = pushes + 1
    /\ key_lock' = [key_lock EXCEPT ![k] = 0]
    /\ UNCHANGED <<tmVars, reading, left, result>>

(***************************************************************************)
(* read_version: take mutex_ shared, then look at the versions from the    *)
(* newest, one at a time, until one is visible or none is left.            *)
(***************************************************************************)
StartRead(t, k) ==
    /\ Running(t) /\ Idle(t)
    /\ reading' = [reading EXCEPT ![t] = k]
    /\ left' = [left EXCEPT ![t] = {v.pos : v \in versions[k]}]
    /\ result' = [result EXCEPT ![t] = NotFound]
    /\ UNCHANGED <<tmVars, versions, pushes, key_lock>>

Candidate(t, v) ==
    /\ reading[t] # NoKey
    /\ IsNewest(v, {u \in versions[reading[t]] : u.pos \in left[t]})

ReturnVersion(t) ==
    \E v \in UNION {versions[k] : k \in Key} :
        /\ Candidate(t, v)
        /\ IsVersionVisible(v, t)
        /\ result' = [result EXCEPT ![t] = v]
        /\ reading' = [reading EXCEPT ![t] = NoKey]
        /\ left' = [left EXCEPT ![t] = {}]
        /\ UNCHANGED <<tmVars, versions, pushes, key_lock>>

SkipVersion(t) ==
    \E v \in UNION {versions[k] : k \in Key} :
        /\ Candidate(t, v)
        /\ ~ IsVersionVisible(v, t)
        /\ left' = [left EXCEPT ![t] = @ \ {v.pos}]
        /\ UNCHANGED <<tmVars, versions, pushes, key_lock, reading, result>>

ReturnNotFound(t) ==
    /\ reading[t] # NoKey
    /\ left[t] = {}
    /\ reading' = [reading EXCEPT ![t] = NoKey]
    /\ UNCHANGED <<tmVars, versions, pushes, key_lock, left, result>>

(***************************************************************************)
(* garbage_collect.  Nothing in src/ calls it; its parameter's name is its *)
(* contract: no transaction below min_active_tx_id is unfinished.          *)
(***************************************************************************)
Collectable_Active(v, min_active_tx_id) ==
    v.deleted_tx_id # 0 /\ v.deleted_tx_id <= min_active_tx_id

Collectable(v, min_active_tx_id) ==
    v.deleted_tx_id # 0 /\ v.deleted_tx_id < min_active_tx_id

IsMinActive(m) == \A t \in TxId : Unfinished(t) => m <= t

GarbageCollect(m) ==
    /\ IsMinActive(m) /\ m <= next_transaction_id
    /\ MutexFree
    /\ versions' = [k \in Key |->
           {v \in versions[k] : ~ Collectable(v, m)}]
    /\ UNCHANGED <<tmVars, pushes, key_lock, reading, left, result>>

(***************************************************************************)
(* A client commits or aborts between its calls, never inside one.         *)
(***************************************************************************)
Transactions ==
    \/ FetchId
    \/ \E t \in TxId : Stamp(t) \/ Track(t) \/ Complete(t)
    \/ \E t \in TxId : Idle(t) /\ (CommitMark(t) \/ AbortMark(t))

Next ==
    \/ Transactions /\ UNCHANGED mvVars
    \/ \E t \in TxId : \/ ReturnVersion(t) \/ SkipVersion(t)
                       \/ ReturnNotFound(t)
    \/ \E t \in TxId, k \in Key :
           \/ LockKey(t, k) \/ StartRead(t, k)
           \/ InstallVersion(t, k, 0) \/ InstallVersion(t, k, t)
    \/ \E m \in 1 .. MaxTx + 1 : GarbageCollect(m)

Spec == Init /\ [][Next]_vars

----------------------------------------------------------------------------
(***************************************************************************)
(* Types of the chains and of the calls in progress.                       *)
(***************************************************************************)
TypeOK ==
    /\ TMTypeOK
    /\ versions \in [Key -> SUBSET Version]
    /\ pushes \in 0 .. MaxWrites
    /\ key_lock \in [Key -> TxId \cup {0}]
    /\ reading \in [TxId -> Key \cup {NoKey}]
    /\ left \in [TxId -> SUBSET (1 .. MaxWrites)]
    /\ result \in [TxId -> Version \cup {NotFound}]

(***************************************************************************)
(* Whoever created or deleted a version is in one of the two transaction   *)
(* tables: the default of is_transaction_committed, that an unknown        *)
(* identifier is old and committed (mvcc.cpp:90-92), never decides what a  *)
(* reader sees.                                                            *)
(***************************************************************************)
WritersKnown ==
    \A k \in Key : \A v \in versions[k] :
        \A w \in {v.created_tx_id, v.deleted_tx_id} \ {0} :
            OutcomeOf(w) # "unknown"

(***************************************************************************)
(* Only the back of a chain is ever live: write_version marks its          *)
(* predecessor before it appends (mvcc_manager.cpp:46-53), whatever        *)
(* garbage_collect removed in between.                                     *)
(***************************************************************************)
OnlyNewestLive ==
    \A k \in Key : \A v \in versions[k] :
        v.deleted_tx_id = 0 => IsNewest(v, versions[k])

(***************************************************************************)
(* No dirty reads: whatever commits and aborts race with the scan, what    *)
(* read_version returned (mvcc_manager.cpp:22-24) was written by the       *)
(* reader itself or by a transaction that did commit.                      *)
(***************************************************************************)
NoDirtyRead ==
    \A t \in TxId :
        LET w == result[t].created_tx_id
        IN  result[t] # NotFound =>
                w = t \/ (w < t /\ txn[w].state = "COMMITTED")

(***************************************************************************)
(* The position an uninterrupted read of k by t returns, 0 for NOT_FOUND.  *)
(***************************************************************************)
VisiblePos(k, t) == {v.pos : v \in Visible(versions[k], t)}

ReadPos(k, t) ==
    LET P == VisiblePos(k, t)
    IN  IF P = {} THEN 0 ELSE CHOOSE p \in P : \A q \in P : q <= p

(***************************************************************************)
(* Isolation: what t would read of k changes only when t writes k, when a  *)
(* transaction with a smaller identifier publishes its commit, or when     *)
(* garbage is collected.  Uncommitted writes, aborts and transactions that *)
(* began later never show (is_version_visible, mvcc_manager.cpp:85-107).   *)
(***************************************************************************)
Collecting == pushes' = pushes /\ versions' # versions

Isolation ==
    [][\A t \in TxId, k \in Key :
          Running(t) /\ Running(t)' /\ ReadPos(k, t)' # ReadPos(k, t) =>
              \/ key_lock[k] = t /\ pushes' # pushes
              \/ \E u \in TxId : /\ u < t
                                /\ OutcomeOf(u) = "running"
                                /\ OutcomeOf(u)' = "COMMITTED"
              \/ Collecting]_vars

(***************************************************************************)
(* garbage_collect changes what a running transaction t reads of k only by *)
(* removing a version whose recorded deleter aborted, or one of t's own    *)
(* that an older transaction has since overwritten: other versions with a  *)
(* committed deletion nobody reads (mvcc_manager.cpp:62-64).               *)
(***************************************************************************)
CollectsUnread ==
    [][Collecting =>
          \A t \in TxId, k \in Key :
              Running(t) /\ ReadPos(k, t)' # ReadPos(k, t) =>
                  \E v \in versions[k] :
                      /\ v \notin versions'[k]
                      /\ \/ txn[v.deleted_tx_id].state = "ABORTED"
                         \/ v.created_tx_id = t]_vars

(***************************************************************************)
(* The serial case, against a reference that ignores deletion marks.  When *)
(* the writers of k came in the order of their identifiers, all up to t    *)
(* committed and each overwritten version is still followed by the one     *)
(* that overwrote it, t reads the last of their versions, and nothing if   *)
(* that one is a tombstone (read_version, mvcc_manager.cpp:19-26).         *)
(***************************************************************************)
InOrder(c) == \A u, v \in c : u.pos < v.pos => u.created_tx_id <= v.created_tx_id

Follows(v, u, c) ==
    v \in c /\ u.pos < v.pos /\ \A w \in c : u.pos < w.pos => v.pos <= w.pos

Unbroken(c) ==
    \A u \in c : u.deleted_tx_id # 0 /\ ~ IsTombstone(u) =>
        \E v \in c : Follows(v, u, c) /\ v.created_tx_id = u.deleted_tx_id

SettledFor(c, t) ==
    \A v \in c : v.created_tx_id < t =>
                    txn[v.created_tx_id].state = "COMMITTED"
                    /\ v.created_tx_id \notin active_transactions

ReadsLatestWhenSerial ==
    \A t \in TxId, k \in Key :
        LET upTo == {v \in versions[k] : v.created_tx_id <= t}
        IN  /\ Running(t)
            /\ InOrder(versions[k]) /\ Unbroken(versions[k])
            /\ SettledFor(versions[k], t)
            => IF \E v \in upTo : IsNewest(v, upTo) /\ ~ IsTombstone(v)
               THEN \E v \in upTo : IsNewest(v, upTo)
                                     /\ ReadPos(k, t) = v.pos
               ELSE ReadPos(k, t) = 0
=============================================================================
