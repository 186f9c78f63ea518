------------------------- MODULE TransactionManager -------------------------
(***************************************************************************)
(* transaction/mvcc.{h,cpp}: transaction identifiers, timestamps and the   *)
(* two tables from which every reader learns whether a writer committed.   *)
(*                                                                         *)
(* begin_transaction, commit_transaction and abort_transaction are not     *)
(* atomic: the identifier and the timestamps come from atomics outside     *)
(* transactions_mutex_, the Transaction object is the caller's, and only   *)
(* the table updates are under the mutex.  step[t] is the position of the  *)
(* thread that drives transaction t inside those three functions.          *)
(*                                                                         *)
(* Every table lives in memory: a process restart is Init.                 *)
(***************************************************************************)
EXTENDS Integers

CONSTANT MaxTx     \* bound: the number of transactions a behaviour begins

ASSUME MaxTxAssumption == MaxTx \in Nat \ {0}

TxId == 1 .. MaxTx

VARIABLES
    next_transaction_id,     \* std::atomic, the next identifier to hand out
    current_timestamp,       \* std::atomic, one clock for starts and commits
    txn,                     \* the Transaction objects
    active_transactions,     \* keys of the active_transactions_ map
    completed_transactions,  \* completed_transactions_, "none" where absent
    step                     \* where transaction t's thread is

tmVars == <<next_transaction_id, current_timestamp, txn,
            active_transactions, completed_transactions, step>>

TransactionState == {"ACTIVE", "COMMITTED", "ABORTED"}

Step == {"unborn",     \* identifier not handed out
         "fetched",    \* begin: identifier taken
         "stamped",    \* begin: start timestamp taken, not yet tracked
         "returned",   \* no begin, commit or abort of t is in progress
         "finishing"}  \* commit/abort: state set, tables not yet updated

(***************************************************************************)
(* t's begin_transaction has returned: t has run and may have written.     *)
(***************************************************************************)
HasBegun(t) == step[t] \in {"returned", "finishing"}

(***************************************************************************)
(* t is usable by its client: not finished, and no call in progress.       *)
(***************************************************************************)
Running(t) == step[t] = "returned" /\ txn[t].state = "ACTIVE"

(***************************************************************************)
(* t has its identifier and its commit or abort has not yet returned.      *)
(***************************************************************************)
Unfinished(t) ==
    step[t] \in {"fetched", "stamped", "finishing"} \/ Running(t)

(***************************************************************************)
(* is_transaction_committed: an identifier in neither table is assumed to  *)
(* be old and committed.                                                   *)
(***************************************************************************)
IsTransactionCommitted(t) ==
    /\ t \notin active_transactions
    /\ completed_transactions[t] \in {"none", "COMMITTED"}

----------------------------------------------------------------------------

TMInit ==
    /\ next_transaction_id = 1
    /\ current_timestamp = 1
    /\ txn = [t \in TxId |-> [state |-> "ACTIVE",
                              start_timestamp |-> 0, commit_timestamp |-> 0]]
    /\ active_transactions = {}
    /\ completed_transactions = [t \in TxId |-> "none"]
    /\ step = [t \in TxId |-> "unborn"]

(***************************************************************************)
(* get_current_timestamp: fetch_add, the value taken is the old one.       *)
(***************************************************************************)
AdvanceClock_Load == UNCHANGED current_timestamp

AdvanceClock == current_timestamp' = current_timestamp + 1

(***************************************************************************)
(* begin_transaction, in its three steps.                                  *)
(***************************************************************************)
FetchId ==
    /\ next_transaction_id <= MaxTx
    /\ next_transaction_id' = next_transaction_id + 1
    /\ step' = [step EXCEPT ![next_transaction_id] = "fetched"]
    /\ UNCHANGED <<current_timestamp, txn, active_transactions,
                   completed_transactions>>

Stamp(t) ==
    /\ step[t] = "fetched"
    /\ txn' = [txn EXCEPT ![t].start_timestamp = current_timestamp]
    /\ AdvanceClock
    /\ step' = [step EXCEPT ![t] = "stamped"]
    /\ UNCHANGED <<next_transaction_id, active_transactions,
                   completed_transactions>>

Track_Not(t) ==
    /\ step[t] = "stamped"
    /\ step' = [step EXCEPT ![t] = "returned"]
    /\ UNCHANGED <<next_transaction_id, current_timestamp, txn,
                   active_transactions, completed_transactions>>

Track(t) ==
    /\ step[t] = "stamped"
    /\ active_transactions' = active_transactions \cup {t}
    /\ step' = [step EXCEPT ![t] = "returned"]
    /\ UNCHANGED <<next_transaction_id, current_timestamp, txn,
                   completed_transactions>>

(***************************************************************************)
(* commit_transaction and abort_transaction up to their critical section.  *)
(* A client may call either again on a finished handle: the state check,   *)
(* and nothing else, stops it.                                             *)
(***************************************************************************)
MayFinish_Again(t) == step[t] = "returned"

MayFinish(t) == step[t] = "returned" /\ txn[t].state = "ACTIVE"

CommitMark(t) ==
    /\ MayFinish(t)
    /\ txn' = [txn EXCEPT ![t].commit_timestamp = current_timestamp,
                          ![t].state = "COMMITTED"]
    /\ AdvanceClock
    /\ step' = [step EXCEPT ![t] = "finishing"]
    /\ UNCHANGED <<next_transaction_id, active_transactions,
                   completed_transactions>>

AbortMark(t) ==
    /\ MayFinish(t)
    /\ txn' = [txn EXCEPT ![t].state = "ABORTED"]
    /\ step' = [step EXCEPT ![t] = "finishing"]
    /\ UNCHANGED <<next_transaction_id, current_timestamp,
                   active_transactions, completed_transactions>>

(***************************************************************************)
(* The critical section both end with: move t from active to completed.    *)
(***************************************************************************)
Complete_NotErased(t) ==
    /\ step[t] = "finishing"
    /\ completed_transactions' =
           [completed_transactions EXCEPT ![t] = txn[t].state]
    /\ step' = [step EXCEPT ![t] = "returned"]
    /\ UNCHANGED <<next_transaction_id, current_timestamp, txn,
                   active_transactions>>

Complete(t) ==
    /\ step[t] = "finishing"
    /\ active_transactions' = active_transactions \ {t}
    /\ completed_transactions' =
           [completed_transactions EXCEPT ![t] = txn[t].state]
    /\ step' = [step EXCEPT ![t] = "returned"]
    /\ UNCHANGED <<next_transaction_id, current_timestamp, txn>>

TMNext ==
    \/ FetchId
    \/ \E t \in TxId : \/ Stamp(t) \/ Track(t)
                       \/ CommitMark(t) \/ AbortMark(t) \/ Complete(t)

TMSpec == TMInit /\ [][TMNext]_tmVars

----------------------------------------------------------------------------
(***************************************************************************)
(* Types of the counters, the Transaction objects and the two tables.      *)
(***************************************************************************)
TMTypeOK ==
    /\ next_transaction_id \in 1 .. MaxTx + 1
    /\ current_timestamp \in Nat \ {0}
    /\ txn \in [TxId -> [state : TransactionState,
                         start_timestamp : Nat, commit_timestamp : Nat]]
    /\ active_transactions \in SUBSET TxId
    /\ completed_transactions \in
           [TxId -> {"none", "COMMITTED", "ABORTED"}]
    /\ step \in [TxId -> Step]

(***************************************************************************)
(* The tables and the threads agree: an identifier in neither table has    *)
(* not run, so "not found, assume it's old and committed" (mvcc.cpp:90)    *)
(* is never said of a transaction that could have written something.       *)
(***************************************************************************)
RowMatches(t) ==
    /\ t \in active_transactions <=> step[t] = "finishing" \/ Running(t)
    /\ completed_transactions[t] =
           IF step[t] = "returned" /\ txn[t].state # "ACTIVE"
           THEN txn[t].state ELSE "none"
    /\ step[t] \in {"unborn", "fetched", "stamped"} =>
           txn[t].state = "ACTIVE"
    /\ step[t] = "finishing" => txn[t].state # "ACTIVE"

TablesMatch == \A t \in TxId : RowMatches(t)

(***************************************************************************)
(* Timestamps taken by concurrent begins and commits (mvcc.cpp:14,30) are  *)
(* all different and a transaction commits after it started, so they order *)
(* starts and commits totally.                                             *)
(***************************************************************************)
TimestampsUnique ==
    \A t, u \in TxId :
        LET s == txn[t].start_timestamp
            c == txn[t].commit_timestamp
        IN  /\ txn[t].state = "COMMITTED" => s < c
            /\ t # u /\ s # 0 => s # txn[u].start_timestamp
            /\ t # u /\ c # 0 => c # txn[u].commit_timestamp
            /\ s # 0 => s # txn[u].commit_timestamp

(***************************************************************************)
(* The outcome of t as the tables show it, and the manager implements the  *)
(* abstract TransactionOutcome: the begin, commit and abort of mvcc.cpp,   *)
(* interleaved in any way, publish one outcome per transaction, at once    *)
(* and for good.                                                           *)
(***************************************************************************)
OutcomeOf(t) ==
    IF t \in active_transactions THEN "running"
    ELSE IF completed_transactions[t] # "none" THEN completed_transactions[t]
    ELSE "unknown"

Outcome == INSTANCE TransactionOutcome
               WITH Tx <- TxId, outcome <- [t \in TxId |-> OutcomeOf(t)]

OutcomeSpec == Outcome!Spec
=============================================================================
