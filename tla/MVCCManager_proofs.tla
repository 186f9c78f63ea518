------------------------- MODULE MVCCManager_proofs -------------------------
(***************************************************************************)
(* What TransactionManager and MVCCManager guarantee for any keys and any  *)
(* number of transactions and writes.                                      *)
(***************************************************************************)
EXTENDS MVCCManager, WellFoundedInduction, TLAPS

(***************************************************************************)
(* The inductive invariant: the types and the agreement between the        *)
(* tables, the Transaction objects and the threads.  An identifier not yet *)
(* handed out has not been stepped, so FetchId finds it unborn.            *)
(***************************************************************************)
NextIsUnborn ==
    \A t \in TxId : t >= next_transaction_id => step[t] = "unborn"

TMInv == TMTypeOK /\ TablesMatch /\ NextIsUnborn

USE DEF TxId, TransactionState, Step

LEMMA TMInvInit == TMInit => TMInv
  BY MaxTxAssumption
     DEF TMInit, TMInv, TMTypeOK, TablesMatch, RowMatches, NextIsUnborn, Running

(***************************************************************************)
(* One step per statement of begin, commit and abort (mvcc.cpp:11-58).     *)
(***************************************************************************)
LEMMA TMInvStep == TMInv /\ [TMNext]_tmVars => TMInv'
<1> SUFFICES ASSUME TMInv, [TMNext]_tmVars PROVE TMInv'
  OBVIOUS
<1> USE MaxTxAssumption
<1> DEFINE Same(u) == /\ step'[u] = step[u]
                      /\ txn'[u].state = txn[u].state
                      /\ completed_transactions'[u] = completed_transactions[u]
                      /\ u \in active_transactions' <=> u \in active_transactions
<1>0. ASSUME NEW u \in TxId, Same(u) PROVE RowMatches(u)'
  BY <1>0 DEF TMInv, TablesMatch, RowMatches, Running
<1>1. CASE FetchId
  <2>1. TMTypeOK'
    BY <1>1 DEF TMInv, TMTypeOK, FetchId
  <2>2. ASSUME NEW u \in TxId PROVE RowMatches(u)'
    BY <1>1 DEF FetchId, TMInv, TMTypeOK, NextIsUnborn, TablesMatch,
                RowMatches, Running
  <2>3. NextIsUnborn'
    BY <1>1 DEF FetchId, TMInv, TMTypeOK, NextIsUnborn
  <2> QED
    BY <2>1, <2>2, <2>3 DEF TMInv, TablesMatch
<1>2. ASSUME NEW t \in TxId,
             Stamp(t) \/ Track(t) \/ CommitMark(t) \/ AbortMark(t) \/ Complete(t)
      PROVE  TMInv'
  <2> USE DEF Stamp, Track, CommitMark, AbortMark, Complete, MayFinish,
              Running, AdvanceClock
  <2>1. TMTypeOK'
    <3>1. /\ next_transaction_id' = next_transaction_id
          /\ active_transactions' \in SUBSET TxId
      BY <1>2 DEF TMInv, TMTypeOK
    <3>4. current_timestamp' \in Nat \ {0}
      BY <1>2 DEF TMInv, TMTypeOK
    <3>5. step' \in [TxId -> Step]
      BY <1>2 DEF TMInv, TMTypeOK
    <3>2. txn' \in [TxId -> [state : TransactionState,
                             start_timestamp : Nat, commit_timestamp : Nat]]
      <4> DEFINE Rec == [state : TransactionState,
                         start_timestamp : Nat, commit_timestamp : Nat]
      <4>1. txn \in [TxId -> Rec] /\ current_timestamp \in Nat
        BY DEF TMInv, TMTypeOK
      <4>2. \E r \in Rec : txn' = [txn EXCEPT ![t] = r]
        <5>1. CASE Stamp(t)
          <6>1. [txn[t] EXCEPT !.start_timestamp = current_timestamp] \in Rec
            BY <4>1
          <6> QED
            BY <5>1, <6>1, <4>1
        <5>2. CASE CommitMark(t)
          <6>1. [txn[t] EXCEPT !.commit_timestamp = current_timestamp,
                               !.state = "COMMITTED"] \in Rec
            BY <4>1
          <6> QED
            BY <5>2, <6>1, <4>1
        <5>3. CASE AbortMark(t)
          <6>1. [txn[t] EXCEPT !.state = "ABORTED"] \in Rec
            BY <4>1
          <6> QED
            BY <5>3, <6>1, <4>1
        <5>4. CASE Track(t) \/ Complete(t)
          BY <5>4, <4>1
        <5> QED
          BY <1>2, <5>1, <5>2, <5>3, <5>4
      <4> HIDE DEF Rec
      <4>3. txn' \in [TxId -> Rec]
        BY <4>1, <4>2
      <4> QED
        BY <4>3 DEF Rec
    <3>3. completed_transactions' \in [TxId -> {"none", "COMMITTED", "ABORTED"}]
      BY <1>2 DEF TMInv, TMTypeOK, TablesMatch, RowMatches
    <3> QED
      BY <3>1, <3>2, <3>3, <3>4, <3>5 DEF TMInv, TMTypeOK
  <2>2. RowMatches(t)'
    BY <1>2 DEF TMInv, TMTypeOK, TablesMatch, RowMatches
  <2>3. ASSUME NEW u \in TxId, u # t PROVE RowMatches(u)'
    <3>1. Same(u)
      BY <1>2, <2>3 DEF TMInv, TMTypeOK
    <3> QED
      BY <3>1, <1>0
  <2>4. NextIsUnborn'
    BY <1>2 DEF TMInv, TMTypeOK, NextIsUnborn
  <2> QED
    BY <2>1, <2>2, <2>3, <2>4 DEF TMInv, TablesMatch
<1>3. CASE UNCHANGED tmVars
  BY <1>3 DEF tmVars, TMInv, TMTypeOK, TablesMatch, RowMatches, NextIsUnborn,
              Running
<1> QED
  BY <1>1, <1>2, <1>3 DEF TMNext

(***************************************************************************)
(* Type correctness, and the two tables always agree with the transaction  *)
(* objects: an identifier in neither table has not run (mvcc.cpp:76-93).   *)
(***************************************************************************)
THEOREM TMInvariant == TMSpec => [](TMTypeOK /\ TablesMatch)
<1>1. TMSpec => []TMInv
  BY TMInvInit, TMInvStep, PTL DEF TMSpec
<1> QED
  BY <1>1, PTL DEF TMInv

(***************************************************************************)
(* Timestamps: everything taken so far lies below the clock, so the next   *)
(* one taken is new.                                                       *)
(***************************************************************************)
BelowClock(t) ==
    /\ txn[t].start_timestamp < current_timestamp
    /\ txn[t].commit_timestamp < current_timestamp

StampInv == TimestampsUnique /\ \A t \in TxId : BelowClock(t)

LEMMA StampStep == TMInv /\ StampInv /\ [TMNext]_tmVars => StampInv'
<1> SUFFICES ASSUME TMInv, StampInv, [TMNext]_tmVars PROVE StampInv'
  OBVIOUS
<1> USE MaxTxAssumption
<1> DEFINE S(u) == txn[u].start_timestamp
           C(u) == txn[u].commit_timestamp
<1>1. \A u \in TxId : /\ S(u) \in Nat /\ C(u) \in Nat
                       /\ current_timestamp \in Nat \ {0}
                       /\ S(u) < current_timestamp /\ C(u) < current_timestamp
  BY DEF TMInv, TMTypeOK, StampInv, BelowClock
<1>2. ASSUME txn' = txn, current_timestamp' = current_timestamp
      PROVE  StampInv'
  BY <1>2 DEF StampInv, TimestampsUnique, BelowClock
<1>3. CASE FetchId \/ \E t \in TxId : Track(t) \/ Complete(t)
  BY <1>3, <1>2 DEF FetchId, Track, Complete
<1>4. ASSUME NEW t \in TxId, Stamp(t) PROVE StampInv'
  <2>1. /\ S(t)' = current_timestamp /\ C(t)' = C(t)
        /\ txn'[t].state = txn[t].state
        /\ current_timestamp' = current_timestamp + 1
        /\ txn[t].state = "ACTIVE"
    BY <1>4 DEF Stamp, AdvanceClock, TMInv, TMTypeOK,
                TablesMatch, RowMatches
  <2>2. \A u \in TxId \ {t} : txn'[u] = txn[u]
    BY <1>4 DEF Stamp, TMInv, TMTypeOK
  <2> QED
    BY <1>1, <2>1, <2>2 DEF StampInv, TimestampsUnique, BelowClock
<1>5. ASSUME NEW t \in TxId, CommitMark(t) PROVE StampInv'
  <2>1. /\ C(t)' = current_timestamp /\ S(t)' = S(t)
        /\ txn'[t].state = "COMMITTED"
        /\ current_timestamp' = current_timestamp + 1
    BY <1>5 DEF CommitMark, AdvanceClock, TMInv, TMTypeOK
  <2>2. \A u \in TxId \ {t} : txn'[u] = txn[u]
    BY <1>5 DEF CommitMark, TMInv, TMTypeOK
  <2> QED
    BY <1>1, <2>1, <2>2 DEF StampInv, TimestampsUnique, BelowClock
<1>6. ASSUME NEW t \in TxId, AbortMark(t) PROVE StampInv'
  <2>1. /\ C(t)' = C(t) /\ S(t)' = S(t)
        /\ txn'[t].state = "ABORTED"
        /\ current_timestamp' = current_timestamp
    BY <1>6 DEF AbortMark, TMInv, TMTypeOK
  <2>2. \A u \in TxId \ {t} : txn'[u] = txn[u]
    BY <1>6 DEF AbortMark, TMInv, TMTypeOK
  <2> QED
    BY <1>1, <2>1, <2>2 DEF StampInv, TimestampsUnique, BelowClock
<1>7. CASE UNCHANGED tmVars
  BY <1>7, <1>2 DEF tmVars
<1> QED
  BY <1>3, <1>4, <1>5, <1>6, <1>7 DEF TMNext

(***************************************************************************)
(* However begins and commits interleave, no two of them take the same     *)
(* timestamp, and a commit's is above its start's (mvcc.cpp:14,30,60-62).  *)
(***************************************************************************)
THEOREM TimestampOrder == TMSpec => []TimestampsUnique
<1>1. TMInit => StampInv
  BY MaxTxAssumption DEF TMInit, StampInv, TimestampsUnique, BelowClock
<1>2. TMSpec => []TMInv
  BY TMInvInit, TMInvStep, PTL DEF TMSpec
<1> QED
  BY <1>1, <1>2, StampStep, PTL DEF TMSpec, StampInv

(***************************************************************************)
(* The tables implement the abstract outcome: initially, and at each step. *)
(* Only Track and Complete change what the tables say, of one transaction. *)
(***************************************************************************)
LEMMA OutcomeInit == TMInit => Outcome!Init
  BY DEF TMInit, Outcome!Init, OutcomeOf

LEMMA OutcomeStep ==
  TMInv /\ [TMNext]_tmVars =>
      [Outcome!Next]_([t \in TxId |-> OutcomeOf(t)])
<1> SUFFICES ASSUME TMInv, [TMNext]_tmVars
             PROVE  \/ Outcome!Next
                    \/ [t \in TxId |-> OutcomeOf(t)]'
                           = [t \in TxId |-> OutcomeOf(t)]
  OBVIOUS
<1>1. ASSUME active_transactions' = active_transactions,
             completed_transactions' = completed_transactions
      PROVE  [t \in TxId |-> OutcomeOf(t)]' = [t \in TxId |-> OutcomeOf(t)]
  BY <1>1 DEF OutcomeOf
<1>2. CASE FetchId \/ \E t \in TxId : Stamp(t) \/ CommitMark(t) \/ AbortMark(t)
  BY <1>2, <1>1 DEF FetchId, Stamp, CommitMark, AbortMark
<1>3. ASSUME NEW t \in TxId, Track(t) PROVE Outcome!Begin(t)
  <2>1. OutcomeOf(t) = "unknown" /\ OutcomeOf(t)' = "running"
    BY <1>3 DEF Track, OutcomeOf, TMInv, TablesMatch, RowMatches, Running
  <2>2. \A u \in TxId \ {t} : OutcomeOf(u)' = OutcomeOf(u)
    BY <1>3 DEF Track, OutcomeOf
  <2> QED
    BY <2>1, <2>2 DEF Outcome!Begin
<1>4. ASSUME NEW t \in TxId, Complete(t) PROVE Outcome!Decide(t)
  <2>1. /\ OutcomeOf(t) = "running" /\ OutcomeOf(t)' = txn[t].state
        /\ txn[t].state \in {"COMMITTED", "ABORTED"}
    BY <1>4 DEF Complete, OutcomeOf, TMInv, TMTypeOK, TablesMatch, RowMatches
  <2>2. \A u \in TxId \ {t} : OutcomeOf(u)' = OutcomeOf(u)
    BY <1>4 DEF Complete, OutcomeOf, TMInv, TMTypeOK
  <2> QED
    BY <2>1, <2>2 DEF Outcome!Decide
<1>5. CASE UNCHANGED tmVars
  BY <1>5, <1>1 DEF tmVars
<1> QED
  BY <1>2, <1>3, <1>4, <1>5 DEF TMNext, Outcome!Next

(***************************************************************************)
(* TransactionManager implements TransactionOutcome: whatever interleaving *)
(* of begins, commits, aborts and repeated calls on a finished handle, the *)
(* tables give each transaction one outcome, in one step, for good.        *)
(***************************************************************************)
THEOREM ImplementsOutcome == TMSpec => OutcomeSpec
<1>1. TMSpec => []TMInv
  BY TMInvInit, TMInvStep, PTL DEF TMSpec
<1> QED
  BY <1>1, OutcomeInit, OutcomeStep, PTL DEF TMSpec, OutcomeSpec, Outcome!Spec

----------------------------------------------------------------------------
(***************************************************************************)
(* The inductive invariant: the transaction tables' own, the types, and    *)
(*  - LockHolders: who is inside write_version is running, since a client  *)
(*    finishes its transaction only between calls; so it is in the table   *)
(*    of active transactions when its version appears;                     *)
(*  - Appended: a new version goes behind all others;                      *)
(* with the three properties proved.                                       *)
(***************************************************************************)
LockHolders == \A k \in Key : key_lock[k] # 0 => Running(key_lock[k])

Appended == \A k \in Key : \A v \in versions[k] : v.pos <= pushes

MVTypeOK ==
    /\ versions \in [Key -> SUBSET Version]
    /\ pushes \in 0 .. MaxWrites
    /\ key_lock \in [Key -> TxId \cup {0}]
    /\ reading \in [TxId -> Key \cup {NoKey}]
    /\ left \in [TxId -> SUBSET (1 .. MaxWrites)]
    /\ result \in [TxId -> Version \cup {NotFound}]

MVInv ==
    /\ TMInv
    /\ MVTypeOK
    /\ LockHolders
    /\ Appended
    /\ WritersKnown
    /\ OnlyNewestLive
    /\ NoDirtyRead

USE MaxTxAssumption, MaxWritesAssumption, KeyAssumption

LEMMA NextIsTMStep == [Next]_vars => [TMNext]_tmVars
  BY DEF Next, Transactions, TMNext, vars, LockKey, StartRead, InstallVersion,
         ReturnVersion, SkipVersion, ReturnNotFound, GarbageCollect

(***************************************************************************)
(* What marking does to a chain: each version is kept, but the newest, if  *)
(* live, gets its deleter (mvcc_manager.cpp:46-52).                        *)
(***************************************************************************)
LEMMA Marked ==
  ASSUME NEW c, NEW t, NEW w \in MarkDeleted(c, t)
  PROVE  \/ w \in c /\ ~ (IsNewest(w, c) /\ w.deleted_tx_id = 0)
         \/ \E v \in c : /\ IsNewest(v, c) /\ v.deleted_tx_id = 0
                         /\ w = [v EXCEPT !.deleted_tx_id = t]
  BY DEF MarkDeleted

LEMMA MVInvInit == Init => MVInv
<1> SUFFICES ASSUME Init PROVE MVInv
  OBVIOUS
<1>1. TMInv
  BY TMInvInit DEF Init
<1>2. MVTypeOK
  BY DEF Init, MVTypeOK
<1> QED
  BY <1>1, <1>2 DEF Init, MVInv, LockHolders, Appended, WritersKnown,
                    OnlyNewestLive, NoDirtyRead

(***************************************************************************)
(* Finished transactions keep their outcome, and nobody who is in a table  *)
(* becomes unknown.                                                        *)
(***************************************************************************)
LEMMA OutcomesStay ==
  ASSUME TMInv, [TMNext]_tmVars, NEW w \in TxId
  PROVE  /\ txn[w].state = "COMMITTED" => txn'[w].state = "COMMITTED"
         /\ OutcomeOf(w) # "unknown" => OutcomeOf(w)' # "unknown"
<1> DEFINE Goal == /\ txn[w].state = "COMMITTED" => txn'[w].state = "COMMITTED"
                   /\ OutcomeOf(w) # "unknown" => OutcomeOf(w)' # "unknown"
<1>1. CASE FetchId
  BY <1>1 DEF FetchId, OutcomeOf
<1>2. ASSUME NEW t \in TxId, Stamp(t) \/ Track(t) PROVE Goal
  <2>1. CASE Stamp(t)
    <3>1. /\ txn'[w].state = txn[w].state
          /\ active_transactions' = active_transactions
          /\ completed_transactions' = completed_transactions
      BY <2>1 DEF Stamp, TMInv, TMTypeOK
    <3> QED
      BY <3>1 DEF OutcomeOf
  <2>2. CASE Track(t)
    BY <2>2 DEF Track, OutcomeOf, TMInv, TMTypeOK
  <2> QED
    BY <1>2, <2>1, <2>2
<1>3. ASSUME NEW t \in TxId, CommitMark(t) \/ AbortMark(t) PROVE Goal
  BY <1>3 DEF CommitMark, AbortMark, MayFinish, OutcomeOf, TMInv, TMTypeOK
<1>4. ASSUME NEW t \in TxId, Complete(t) PROVE Goal
  <2>1. /\ txn' = txn
        /\ active_transactions' = active_transactions \ {t}
        /\ completed_transactions'[t] = txn[t].state
        /\ w # t => completed_transactions'[w] = completed_transactions[w]
    BY <1>4 DEF Complete, TMInv, TMTypeOK
  <2>2. txn[t].state \notin {"none", "unknown"}
    BY DEF TMInv, TMTypeOK, TransactionState
  <2> QED
    BY <2>1, <2>2 DEF OutcomeOf
<1>5. CASE UNCHANGED tmVars
  BY <1>5 DEF tmVars, OutcomeOf
<1> QED
  BY <1>1, <1>2, <1>3, <1>4, <1>5 DEF TMNext

(***************************************************************************)
(* Who is running is in the table of active transactions.                  *)
(***************************************************************************)
LEMMA RunningIsKnown ==
  ASSUME TMInv, NEW t \in TxId, Running(t)
  PROVE  OutcomeOf(t) = "running"
  BY DEF TMInv, TablesMatch, RowMatches, OutcomeOf

(***************************************************************************)
(* A writer not unknown to the tables, whom is_transaction_committed calls *)
(* committed, did commit.                                                  *)
(***************************************************************************)
LEMMA CommittedIsTrue ==
  ASSUME TMInv, NEW w \in TxId, OutcomeOf(w) # "unknown",
         IsTransactionCommitted(w)
  PROVE  txn[w].state = "COMMITTED"
  BY DEF TMInv, TablesMatch, RowMatches, OutcomeOf, IsTransactionCommitted

(***************************************************************************)
(* A transaction step leaves the chains alone: the versions in them and    *)
(* the answers given keep known, or committed, writers.                    *)
(***************************************************************************)
LEMMA TransactionStep ==
  ASSUME MVInv, Transactions, UNCHANGED mvVars PROVE MVInv'
<1>0. TMInv /\ MVTypeOK
  BY DEF MVInv
<1>1. [TMNext]_tmVars
  BY DEF Transactions, TMNext
<1>2. TMInv'
  BY <1>0, <1>1, TMInvStep
<1>3. MVTypeOK' /\ Appended' /\ OnlyNewestLive'
  BY DEF mvVars, MVInv, MVTypeOK, Appended, OnlyNewestLive, IsNewest
<1>4. LockHolders'
  <2> SUFFICES ASSUME NEW k \in Key, key_lock'[k] # 0
               PROVE  Running(key_lock[k])'
    BY DEF LockHolders, mvVars
  <2>1. key_lock' = key_lock /\ key_lock[k] \in TxId /\ Running(key_lock[k])
    BY DEF MVInv, MVTypeOK, LockHolders, mvVars
  <2>2. CASE FetchId
    BY <1>0, <2>1, <2>2 DEF FetchId, Running, TMInv, TMTypeOK, NextIsUnborn, TxId
  <2>3. ASSUME NEW t \in TxId, Stamp(t) \/ Track(t) \/ Complete(t)
        PROVE  Running(key_lock[k])'
    BY <1>0, <2>1, <2>3 DEF Stamp, Track, Complete, Running, TMInv, TMTypeOK
  <2>4. ASSUME NEW t \in TxId, Idle(t), CommitMark(t) \/ AbortMark(t)
        PROVE  Running(key_lock[k])'
    BY <1>0, <2>1, <2>4 DEF CommitMark, AbortMark, Idle, Running, TMInv, TMTypeOK
  <2> QED
    BY <2>2, <2>3, <2>4 DEF Transactions
<1>5. WritersKnown'
  <2> SUFFICES ASSUME NEW k \in Key, NEW v \in versions[k],
                      NEW w \in {v.created_tx_id, v.deleted_tx_id} \ {0}
               PROVE  OutcomeOf(w)' # "unknown"
    BY DEF WritersKnown, mvVars
  <2>1. w \in TxId
    BY DEF MVInv, MVTypeOK, Version
  <2> QED
    BY <1>0, <1>1, <2>1, OutcomesStay DEF MVInv, WritersKnown
<1>6. NoDirtyRead'
  <2> SUFFICES ASSUME NEW t \in TxId, result[t] # NotFound,
                      result[t].created_tx_id # t
               PROVE  /\ result[t].created_tx_id < t
                      /\ txn'[result[t].created_tx_id].state = "COMMITTED"
    BY DEF NoDirtyRead, mvVars
  <2>1. result[t].created_tx_id \in TxId
    BY DEF MVInv, MVTypeOK, Version
  <2> QED
    BY <1>0, <1>1, <2>1, OutcomesStay DEF MVInv, NoDirtyRead
<1> QED
  BY <1>2, <1>3, <1>4, <1>5, <1>6 DEF MVInv

(***************************************************************************)
(* A call on the manager leaves the transaction tables alone.              *)
(***************************************************************************)
LEMMA TablesKept ==
  ASSUME MVInv, UNCHANGED tmVars
  PROVE  /\ TMInv'
         /\ \A t : Running(t)' = Running(t) /\ OutcomeOf(t)' = OutcomeOf(t)
<1>1. TMInv'
  BY TMInvStep DEF MVInv
<1>2. ASSUME NEW t PROVE Running(t)' = Running(t) /\ OutcomeOf(t)' = OutcomeOf(t)
  BY DEF tmVars, Running, OutcomeOf
<1> QED
  BY <1>1, <1>2

(***************************************************************************)
(* read_version, in all its steps, changes no chain; what it returns was   *)
(* visible when it was looked at.                                          *)
(***************************************************************************)
LEMMA ReadStep ==
  ASSUME MVInv, NEW t \in TxId,
         \/ \E k \in Key : StartRead(t, k)
         \/ ReturnVersion(t) \/ SkipVersion(t) \/ ReturnNotFound(t)
  PROVE  MVInv'
<1>1. /\ UNCHANGED <<tmVars, versions, pushes, key_lock>>
  BY DEF StartRead, ReturnVersion, SkipVersion, ReturnNotFound
<1>2. TMInv' /\ LockHolders' /\ WritersKnown'
  BY <1>1, TablesKept DEF MVInv, LockHolders, WritersKnown
<1>3. Appended' /\ OnlyNewestLive'
  BY <1>1 DEF MVInv, Appended, OnlyNewestLive, IsNewest
<1>4. MVTypeOK'
  <2>0. MVTypeOK
    BY DEF MVInv
  <2>1. ASSUME NEW k \in Key, StartRead(t, k) PROVE MVTypeOK'
    <3>1. {v.pos : v \in versions[k]} \in SUBSET (1 .. MaxWrites)
      BY <2>0 DEF MVTypeOK, Version
    <3> QED
      BY <2>0, <2>1, <3>1 DEF StartRead, MVTypeOK
  <2>2. CASE ReturnVersion(t)
    <3>1. PICK v \in UNION {versions[k] : k \in Key} :
              /\ result' = [result EXCEPT ![t] = v]
              /\ reading' = [reading EXCEPT ![t] = NoKey]
              /\ left' = [left EXCEPT ![t] = {}]
      BY <2>2 DEF ReturnVersion
    <3>2. v \in Version
      BY <2>0 DEF MVTypeOK
    <3> QED
      BY <1>1, <2>0, <3>1, <3>2 DEF MVTypeOK
  <2>3. CASE SkipVersion(t)
    BY <1>1, <2>0, <2>3 DEF SkipVersion, MVTypeOK
  <2>4. CASE ReturnNotFound(t)
    BY <1>1, <2>0, <2>4 DEF ReturnNotFound, MVTypeOK
  <2> QED
    BY <2>1, <2>2, <2>3, <2>4
<1>5. NoDirtyRead'
  <2>0. txn' = txn /\ MVTypeOK /\ NoDirtyRead
    BY <1>1 DEF tmVars, MVInv
  <2>1. CASE ReturnVersion(t)
    <3>1. PICK v \in UNION {versions[k] : k \in Key} :
              IsVersionVisible(v, t) /\ result' = [result EXCEPT ![t] = v]
      BY <2>1 DEF ReturnVersion
    <3>4. PICK k \in Key : v \in versions[k]
      OBVIOUS
    <3>2. v \in Version
      BY <2>0 DEF MVTypeOK
    <3>3. ASSUME v.created_tx_id # t
          PROVE  /\ v.created_tx_id < t
                 /\ txn[v.created_tx_id].state = "COMMITTED"
      <4>1. v.created_tx_id \in TxId /\ v.created_tx_id # 0
        BY <3>2 DEF Version, TxId
      <4>2. OutcomeOf(v.created_tx_id) # "unknown"
        BY <3>4, <4>1 DEF MVInv, WritersKnown
      <4>3. IsTransactionCommitted(v.created_tx_id) /\ v.created_tx_id <= t
        BY <3>1, <3>3 DEF IsVersionVisible
      <4> QED
        BY <3>3, <4>1, <4>2, <4>3, CommittedIsTrue DEF MVInv, TxId
    <3> QED
      BY <2>0, <3>1, <3>3 DEF NoDirtyRead, MVTypeOK
  <2>2. CASE result' = result
    BY <2>0, <2>2 DEF NoDirtyRead
  <2>3. CASE \E k \in Key : StartRead(t, k)
    BY <2>0, <2>3 DEF StartRead, NoDirtyRead, MVTypeOK
  <2> QED
    BY <2>1, <2>2, <2>3 DEF SkipVersion, ReturnNotFound
<1> QED
  BY <1>2, <1>3, <1>4, <1>5 DEF MVInv

(***************************************************************************)
(* write_version: taking the key's lock, then appending.                   *)
(***************************************************************************)
LEMMA LockStep ==
  ASSUME MVInv, NEW t \in TxId, NEW k \in Key, LockKey(t, k) PROVE MVInv'
<1>1. /\ UNCHANGED <<tmVars, versions, pushes, reading, left, result>>
      /\ key_lock' = [key_lock EXCEPT ![k] = t] /\ Running(t)
  BY DEF LockKey
<1>2. TMInv' /\ WritersKnown'
  BY <1>1, TablesKept DEF MVInv, WritersKnown
<1>3. MVTypeOK' /\ Appended' /\ OnlyNewestLive'
  BY <1>1 DEF MVInv, MVTypeOK, Appended, OnlyNewestLive, IsNewest
<1>4. LockHolders'
  BY <1>1, TablesKept DEF MVInv, MVTypeOK, LockHolders
<1>5. NoDirtyRead'
  BY <1>1 DEF tmVars, MVInv, NoDirtyRead
<1> QED
  BY <1>2, <1>3, <1>4, <1>5 DEF MVInv

LEMMA InstallStep ==
  ASSUME MVInv, NEW t \in TxId, NEW k \in Key, NEW d \in {0, t},
         InstallVersion(t, k, d)
  PROVE  MVInv'
<1> DEFINE new == [pos |-> pushes + 1, created_tx_id |-> t, deleted_tx_id |-> d]
           marked == MarkDeleted(versions[k], t)
<1>0. /\ MVTypeOK /\ t # 0 /\ new \in Version
      /\ versions[k] \subseteq Version /\ Running(t)
  BY DEF MVInv, MVTypeOK, InstallVersion, LockHolders, Version, TxId
<1>1. /\ UNCHANGED <<tmVars, reading, left, result>>
      /\ versions' = [versions EXCEPT ![k] = marked \cup {new}]
      /\ pushes' = pushes + 1 /\ pushes < MaxWrites
      /\ key_lock' = [key_lock EXCEPT ![k] = 0]
  BY DEF InstallVersion
<1>2. TMInv'
  BY <1>1, TablesKept
<1>3. ASSUME NEW w \in marked
      PROVE  \E v \in versions[k] :
                 /\ w.pos = v.pos /\ w.created_tx_id = v.created_tx_id
                 /\ w.deleted_tx_id \in {v.deleted_tx_id, t} \ {0}
                 /\ w \in Version
  <2>1. CASE w \in versions[k] /\ ~ (IsNewest(w, versions[k]) /\ w.deleted_tx_id = 0)
    BY <1>0, <2>1 DEF MVInv, OnlyNewestLive
  <2>2. ASSUME NEW v \in versions[k], w = [v EXCEPT !.deleted_tx_id = t]
        PROVE  /\ w.pos = v.pos /\ w.created_tx_id = v.created_tx_id
               /\ w.deleted_tx_id \in {v.deleted_tx_id, t} \ {0}
               /\ w \in Version
    BY <1>0, <2>2 DEF Version
  <2> QED
    BY <2>1, <2>2, Marked
<1>4. ASSUME NEW j \in Key, j # k PROVE versions'[j] = versions[j]
  BY <1>0, <1>1, <1>4 DEF MVTypeOK
<1>5. versions'[k] = marked \cup {new}
  BY <1>0, <1>1 DEF MVTypeOK
<1> HIDE DEF marked
<1>6. MVTypeOK'
  <2>1. marked \cup {new} \in SUBSET Version
    BY <1>0, <1>3
  <2>2. versions' \in [Key -> SUBSET Version]
    BY <1>0, <1>1, <2>1 DEF MVTypeOK
  <2>3. pushes' \in 0 .. MaxWrites /\ key_lock' \in [Key -> TxId \cup {0}]
    BY <1>0, <1>1 DEF MVTypeOK
  <2> QED
    BY <1>0, <1>1, <2>2, <2>3 DEF MVTypeOK
<1>7. LockHolders'
  BY <1>0, <1>1, TablesKept DEF MVInv, MVTypeOK, LockHolders
<1>8. Appended'
  <2>1. ASSUME NEW v \in versions'[k] PROVE v.pos <= pushes'
    BY <1>0, <1>1, <1>3, <1>5, <2>1 DEF MVInv, MVTypeOK, Appended, Version
  <2>2. ASSUME NEW j \in Key, j # k, NEW v \in versions'[j] PROVE v.pos <= pushes'
    BY <1>0, <1>1, <1>4, <2>2 DEF MVInv, MVTypeOK, Appended, Version
  <2> QED
    BY <2>1, <2>2 DEF Appended
<1>9. WritersKnown'
  <2>1. OutcomeOf(t) = "running"
    BY <1>0, RunningIsKnown DEF MVInv
  <2>2. ASSUME NEW v \in versions'[k],
               NEW w \in {v.created_tx_id, v.deleted_tx_id} \ {0}
        PROVE  OutcomeOf(w) # "unknown"
    <3>1. CASE v = new
      BY <2>1, <3>1
    <3>2. CASE v \in marked
      BY <1>3, <2>1, <3>2 DEF MVInv, WritersKnown
    <3> QED
      BY <1>5, <3>1, <3>2
  <2>3. ASSUME NEW j \in Key, j # k, NEW v \in versions'[j],
               NEW w \in {v.created_tx_id, v.deleted_tx_id} \ {0}
        PROVE  OutcomeOf(w) # "unknown"
    BY <1>4, <2>3 DEF MVInv, WritersKnown
  <2> QED
    BY <1>1, <2>2, <2>3, TablesKept DEF WritersKnown
<1>10. OnlyNewestLive'
  <2>1. ASSUME NEW v \in versions'[k], v.deleted_tx_id = 0
        PROVE  IsNewest(v, versions'[k])
    <3>1. v = new
      BY <1>3, <1>5, <2>1
    <3>2. \A u \in marked : u.pos <= pushes + 1
      BY <1>0, <1>3 DEF MVInv, MVTypeOK, Appended, Version
    <3> QED
      BY <1>0, <1>5, <3>1, <3>2 DEF IsNewest, MVTypeOK
  <2>2. ASSUME NEW j \in Key, j # k, NEW v \in versions'[j], v.deleted_tx_id = 0
        PROVE  IsNewest(v, versions'[j])
    BY <1>4, <2>2 DEF MVInv, OnlyNewestLive
  <2> QED
    BY <2>1, <2>2 DEF OnlyNewestLive, IsNewest
<1>11. NoDirtyRead'
  BY <1>1 DEF tmVars, MVInv, NoDirtyRead
<1> QED
  BY <1>2, <1>6, <1>7, <1>8, <1>9, <1>10, <1>11 DEF MVInv

(***************************************************************************)
(* garbage_collect only removes versions.                                  *)
(***************************************************************************)
LEMMA CollectStep ==
  ASSUME MVInv, NEW m, GarbageCollect(m) PROVE MVInv'
<1>1. /\ UNCHANGED <<tmVars, pushes, key_lock, reading, left, result>>
      /\ versions' \in [Key -> SUBSET Version]
      /\ \A k \in Key : versions'[k] \subseteq versions[k]
  BY DEF GarbageCollect, MVInv, MVTypeOK
<1>2. TMInv' /\ LockHolders'
  BY <1>1, TablesKept DEF MVInv, LockHolders
<1>3. MVTypeOK' /\ Appended'
  BY <1>1 DEF MVInv, MVTypeOK, Appended
<1>4. WritersKnown'
  BY <1>1, TablesKept DEF MVInv, WritersKnown
<1>5. OnlyNewestLive'
  BY <1>1 DEF MVInv, OnlyNewestLive, IsNewest
<1>6. NoDirtyRead'
  BY <1>1 DEF tmVars, MVInv, NoDirtyRead
<1> QED
  BY <1>2, <1>3, <1>4, <1>5, <1>6 DEF MVInv

LEMMA MVInvStep == MVInv /\ [Next]_vars => MVInv'
<1> SUFFICES ASSUME MVInv, [Next]_vars PROVE MVInv'
  OBVIOUS
<1>1. CASE Transactions /\ UNCHANGED mvVars
  BY <1>1, TransactionStep
<1>2. ASSUME NEW t \in TxId,
             ReturnVersion(t) \/ SkipVersion(t) \/ ReturnNotFound(t)
      PROVE  MVInv'
  BY <1>2, ReadStep
<1>3. ASSUME NEW t \in TxId, NEW k \in Key, StartRead(t, k) PROVE MVInv'
  BY <1>3, ReadStep
<1>4. ASSUME NEW t \in TxId, NEW k \in Key, LockKey(t, k) PROVE MVInv'
  BY <1>4, LockStep
<1>5. ASSUME NEW t \in TxId, NEW k \in Key,
             InstallVersion(t, k, 0) \/ InstallVersion(t, k, t)
      PROVE  MVInv'
  BY <1>5, InstallStep
<1>6. ASSUME NEW m, GarbageCollect(m) PROVE MVInv'
  BY <1>6, CollectStep
<1>7. CASE UNCHANGED vars
  <2>1. UNCHANGED tmVars /\ UNCHANGED mvVars
    BY <1>7 DEF vars
  <2>2. TMInv' /\ LockHolders' /\ WritersKnown'
    BY <2>1, TablesKept DEF mvVars, MVInv, LockHolders, WritersKnown
  <2> QED
    BY <2>1, <2>2 DEF tmVars, mvVars, MVInv, MVTypeOK, Appended,
                      OnlyNewestLive, IsNewest, NoDirtyRead
<1> QED
  BY <1>1, <1>2, <1>3, <1>4, <1>5, <1>6, <1>7 DEF Next

LEMMA MVInvariant == Spec => []MVInv
  BY MVInvInit, MVInvStep, PTL DEF Spec

(***************************************************************************)
(* Type correctness of the manager.                                        *)
(***************************************************************************)
THEOREM TypeCorrect == Spec => []TypeOK
<1>1. MVInv => TypeOK
  BY DEF MVInv, TMInv, MVTypeOK, TypeOK
<1> QED
  BY <1>1, MVInvariant, PTL

(***************************************************************************)
(* No dirty reads: for any number of transactions, keys and writes, and    *)
(* any commits racing with the scan, what read_version returned is the     *)
(* reader's own write or that of an older transaction that committed.      *)
(***************************************************************************)
THEOREM DirtyReadFree == Spec => []NoDirtyRead
<1>1. MVInv => NoDirtyRead
  BY DEF MVInv
<1> QED
  BY <1>1, MVInvariant, PTL

(***************************************************************************)
(* At most the newest version of a chain is live, whatever is collected.   *)
(***************************************************************************)
THEOREM NewestLive == Spec => []OnlyNewestLive
<1>1. MVInv => OnlyNewestLive
  BY DEF MVInv
<1> QED
  BY <1>1, MVInvariant, PTL

(***************************************************************************)
(* The "assume it's old and committed" default of is_transaction_committed *)
(* (mvcc.cpp:90-92) never decides the visibility of a version.             *)
(***************************************************************************)
THEOREM DefaultUnused == Spec => []WritersKnown
<1>1. MVInv => WritersKnown
  BY DEF MVInv
<1> QED
  BY <1>1, MVInvariant, PTL

----------------------------------------------------------------------------
(***************************************************************************)
(* Isolation of the readers.  What t reads of k is determined by the set   *)
(* of positions visible to it, so each case below shows that this set is   *)
(* the same before and after the step.                                     *)
(***************************************************************************)
LEMMA SameVisibleSameRead ==
  ASSUME NEW k, NEW t, VisiblePos(k, t)' = VisiblePos(k, t)
  PROVE  ReadPos(k, t)' = ReadPos(k, t)
  BY DEF ReadPos

(***************************************************************************)
(* How the tables may change what they say of one transaction.             *)
(***************************************************************************)
LEMMA OutcomeMoves ==
  ASSUME TMInv, [TMNext]_tmVars, NEW w \in TxId
  PROVE  \/ OutcomeOf(w)' = OutcomeOf(w)
         \/ OutcomeOf(w) = "unknown"
         \/ OutcomeOf(w) = "running" /\ OutcomeOf(w)' \in {"COMMITTED", "ABORTED"}
<1>1. CASE [t \in TxId |-> OutcomeOf(t)]' = [t \in TxId |-> OutcomeOf(t)]
  <2>1. [t \in TxId |-> OutcomeOf(t)]'[w] = OutcomeOf(w)'
    OBVIOUS
  <2>2. [t \in TxId |-> OutcomeOf(t)][w] = OutcomeOf(w)
    OBVIOUS
  <2> QED
    BY <1>1, <2>1, <2>2
<1>2. CASE Outcome!Next
  BY <1>2 DEF Outcome!Next, Outcome!Begin, Outcome!Decide
<1> QED
  BY <1>1, <1>2, OutcomeStep

(***************************************************************************)
(* Of a transaction in the tables, is_transaction_committed says whether   *)
(* its outcome is COMMITTED.                                               *)
(***************************************************************************)
LEMMA KnownCommitted ==
  ASSUME TMInv, NEW w \in TxId, OutcomeOf(w) # "unknown"
  PROVE  IsTransactionCommitted(w) <=> OutcomeOf(w) = "COMMITTED"
  BY DEF TMInv, TMTypeOK, OutcomeOf, IsTransactionCommitted

(***************************************************************************)
(* Begins, aborts and the commits of younger transactions hide nothing     *)
(* from a running t and show nothing new to it.                            *)
(***************************************************************************)
LEMMA TransactionIsolated ==
  ASSUME MVInv, MVInv', [TMNext]_tmVars, UNCHANGED versions,
         NEW t \in TxId, NEW k \in Key, Running(t), Running(t)',
         \A u \in TxId : u < t => ~ (/\ OutcomeOf(u) = "running"
                                     /\ OutcomeOf(u)' = "COMMITTED")
  PROVE  VisiblePos(k, t)' = VisiblePos(k, t)
<1>1. ASSUME NEW w \in TxId, w <= t, OutcomeOf(w) # "unknown"
      PROVE  IsTransactionCommitted(w)' <=> IsTransactionCommitted(w)
  <2>1. OutcomeOf(w)' # "unknown"
    BY <1>1, OutcomesStay DEF MVInv
  <2>2. IsTransactionCommitted(w) <=> OutcomeOf(w) = "COMMITTED"
    BY <1>1, KnownCommitted DEF MVInv
  <2>5. IsTransactionCommitted(w)' <=> OutcomeOf(w)' = "COMMITTED"
    BY <2>1 DEF MVInv, TMInv, TMTypeOK, OutcomeOf, IsTransactionCommitted
  <2>3. CASE w = t
    <3>1. OutcomeOf(w) = "running"
      BY <2>3, RunningIsKnown DEF MVInv
    <3>2. OutcomeOf(w)' = "running"
      BY <2>3 DEF MVInv, TMInv, TablesMatch, RowMatches, OutcomeOf
    <3> QED
      BY <2>2, <2>5, <3>1, <3>2
  <2>4. CASE w < t
    BY <1>1, <2>2, <2>5, <2>4, OutcomeMoves DEF MVInv
  <2> QED
    BY <1>1, <2>3, <2>4 DEF TxId
<1>2. ASSUME NEW v \in versions[k]
      PROVE  IsVersionVisible(v, t)' <=> IsVersionVisible(v, t)
  <2>1. /\ v.created_tx_id \in TxId
        /\ v.deleted_tx_id \in TxId \cup {0}
        /\ OutcomeOf(v.created_tx_id) # "unknown"
        /\ v.deleted_tx_id # 0 => OutcomeOf(v.deleted_tx_id) # "unknown"
    BY DEF MVInv, MVTypeOK, Version, WritersKnown, TxId
  <2>2. DeletionSeen(v, t)' <=> DeletionSeen(v, t)
    BY <1>1, <2>1 DEF DeletionSeen
  <2> QED
    BY <1>1, <2>1, <2>2 DEF IsVersionVisible
<1> QED
  BY <1>2 DEF VisiblePos, Visible

(***************************************************************************)
(* The version another transaction u appends is invisible to t, and its    *)
(* mark hides nothing: u is running, so not committed.                     *)
(***************************************************************************)
LEMMA WriteIsolated ==
  ASSUME MVInv, NEW t \in TxId, NEW u \in TxId, u # t, NEW k \in Key,
         NEW d \in {0, u}, InstallVersion(u, k, d)
  PROVE  VisiblePos(k, t)' = VisiblePos(k, t)
<1> DEFINE new == [pos |-> pushes + 1, created_tx_id |-> u, deleted_tx_id |-> d]
           marked == MarkDeleted(versions[k], u)
<1>0. /\ ~ IsTransactionCommitted(u) /\ u # 0
      /\ versions[k] \subseteq Version
  <2>1. Running(u)
    BY DEF InstallVersion, MVInv, LockHolders, TxId
  <2> QED
    BY <2>1 DEF MVInv, MVTypeOK, TMInv, TablesMatch, RowMatches,
                IsTransactionCommitted, TxId
<1>1. /\ UNCHANGED tmVars
      /\ versions'[k] = marked \cup {new}
  BY DEF InstallVersion, MVInv, MVTypeOK
<1>2. ~ IsVersionVisible(new, t)
  BY <1>0 DEF IsVersionVisible
<1>3. ASSUME NEW v \in versions[k], v.deleted_tx_id = 0
      PROVE  IsVersionVisible([v EXCEPT !.deleted_tx_id = u], t)
                 <=> IsVersionVisible(v, t)
  <2>1. v \in Version
    BY <1>0
  <2> DEFINE w == [v EXCEPT !.deleted_tx_id = u]
  <2>2. w.created_tx_id = v.created_tx_id /\ w.deleted_tx_id = u
    BY <2>1 DEF Version
  <2>3. ~ DeletionSeen(w, t) /\ ~ DeletionSeen(v, t)
    BY <1>0, <1>3, <2>2 DEF DeletionSeen
  <2>4. v.deleted_tx_id # t /\ u # t
    BY <1>3 DEF TxId
  <2> HIDE DEF w
  <2>5. IsVersionVisible(w, t) <=> IsVersionVisible(v, t)
    BY <2>2, <2>3, <2>4 DEF IsVersionVisible
  <2> QED
    BY <2>5 DEF w
<1>4. VisiblePos(k, t)' = {v.pos : v \in Visible(marked \cup {new}, t)}
  BY <1>1 DEF VisiblePos, Visible, IsVersionVisible, DeletionSeen,
              IsTransactionCommitted, tmVars
<1>5. ASSUME NEW w \in marked, IsVersionVisible(w, t)
      PROVE  \E v \in versions[k] : w.pos = v.pos /\ IsVersionVisible(v, t)
  <2>1. CASE w \in versions[k]
    BY <1>5, <2>1
  <2>2. ASSUME NEW v \in versions[k], v.deleted_tx_id = 0,
               w = [v EXCEPT !.deleted_tx_id = u]
        PROVE  w.pos = v.pos /\ IsVersionVisible(v, t)
    BY <1>0, <1>3, <1>5, <2>2 DEF Version
  <2> QED
    BY <2>1, <2>2, Marked
<1>6. ASSUME NEW v \in versions[k], IsVersionVisible(v, t)
      PROVE  \E w \in marked : w.pos = v.pos /\ IsVersionVisible(w, t)
  <2>1. CASE IsNewest(v, versions[k]) /\ v.deleted_tx_id = 0
    <3>1. [v EXCEPT !.deleted_tx_id = u] \in marked
      BY <2>1 DEF MarkDeleted
    <3>2. [v EXCEPT !.deleted_tx_id = u].pos = v.pos
      BY <1>0 DEF Version
    <3> QED
      BY <1>3, <1>6, <2>1, <3>1, <3>2
  <2>2. CASE ~ (IsNewest(v, versions[k]) /\ v.deleted_tx_id = 0)
    BY <1>6, <2>2 DEF MarkDeleted
  <2> QED
    BY <2>1, <2>2
<1> HIDE DEF marked, new
<1>7. {v.pos : v \in Visible(marked \cup {new}, t)}
         = {v.pos : v \in Visible(versions[k], t)}
  BY <1>2, <1>5, <1>6 DEF Visible
<1> QED
  BY <1>4, <1>7 DEF VisiblePos

(***************************************************************************)
(* The steps of Isolation: all but the three it names leave what t sees of *)
(* k alone.                                                                *)
(***************************************************************************)
LEMMA IsolationStep ==
  ASSUME MVInv, MVInv', [Next]_vars,
         NEW t \in TxId, NEW k \in Key, Running(t), Running(t)',
         ~ (key_lock[k] = t /\ pushes' # pushes),
         ~ \E u \in TxId : /\ u < t
                           /\ OutcomeOf(u) = "running"
                           /\ OutcomeOf(u)' = "COMMITTED",
         ~ Collecting
  PROVE  VisiblePos(k, t)' = VisiblePos(k, t)
<1>0. [TMNext]_tmVars
  BY NextIsTMStep
<1>1. CASE UNCHANGED versions
  BY <1>0, <1>1, TransactionIsolated
<1>2. ASSUME NEW u \in TxId, NEW j \in Key, NEW d \in {0, u},
             InstallVersion(u, j, d)
      PROVE  VisiblePos(k, t)' = VisiblePos(k, t)
  <2>1. pushes' # pushes /\ key_lock[j] = u
    BY <1>2 DEF InstallVersion, MVInv, MVTypeOK
  <2>2. CASE j = k
    <3>1. u # t
      BY <2>1, <2>2
    <3> QED
      BY <1>2, <2>2, <3>1, WriteIsolated
  <2>3. CASE j # k
    <3>1. versions'[k] = versions[k] /\ UNCHANGED tmVars
      BY <1>2, <2>3 DEF InstallVersion, MVInv, MVTypeOK
    <3> QED
      BY <3>1 DEF VisiblePos, Visible, IsVersionVisible, DeletionSeen,
                  IsTransactionCommitted, tmVars
  <2> QED
    BY <2>2, <2>3
<1>3. ASSUME NEW m, GarbageCollect(m) PROVE UNCHANGED versions
  BY <1>3 DEF GarbageCollect, Collecting
<1> QED
  BY <1>1, <1>2, <1>3
     DEF Next, vars, mvVars, LockKey, StartRead, ReturnVersion, SkipVersion,
         ReturnNotFound

(***************************************************************************)
(* Isolation, for every instance: uncommitted writes, aborts and younger   *)
(* transactions never change what a running transaction reads.             *)
(***************************************************************************)
THEOREM ReadersIsolated == Spec => Isolation
<1> DEFINE IsolatedStep == \A t \in TxId, k \in Key :
          Running(t) /\ Running(t)' /\ ReadPos(k, t)' # ReadPos(k, t) =>
              \/ key_lock[k] = t /\ pushes' # pushes
              \/ \E u \in TxId : /\ u < t
                                /\ OutcomeOf(u) = "running"
                                /\ OutcomeOf(u)' = "COMMITTED"
              \/ Collecting
<1>1. MVInv /\ MVInv' /\ [Next]_vars => IsolatedStep
  BY IsolationStep, SameVisibleSameRead
<1> QED
  BY <1>1, MVInvariant, PTL DEF Spec, Isolation

----------------------------------------------------------------------------
(***************************************************************************)
(* garbage_collect.                                                        *)
(***************************************************************************)
\* A version that is collected and that t could read: its deleter never
\* committed, or it is t's own.
LEMMA CollectedIsDead ==
  ASSUME MVInv, NEW m \in Nat, GarbageCollect(m), NEW t \in TxId, Running(t),
         NEW k \in Key, NEW v \in versions[k], v \notin versions'[k],
         IsVersionVisible(v, t)
  PROVE  txn[v.deleted_tx_id].state = "ABORTED" \/ v.created_tx_id = t
<1> SUFFICES ASSUME v.created_tx_id # t
             PROVE  txn[v.deleted_tx_id].state = "ABORTED"
  OBVIOUS
<1> DEFINE d == v.deleted_tx_id
<1>1. v \in Version
  BY DEF MVInv, MVTypeOK
<1>2. Collectable(v, m) /\ IsMinActive(m)
  BY DEF GarbageCollect
<1>3. d \in TxId /\ d < m /\ m <= t
  BY <1>1, <1>2 DEF Collectable, IsMinActive, Unfinished, Version
<1>4. ~ Unfinished(d)
  BY <1>2, <1>3 DEF IsMinActive, TxId, GarbageCollect
<1>5. ~ IsTransactionCommitted(d)
  BY <1>3, <1>1 DEF IsVersionVisible, DeletionSeen, TxId, Version
<1>6. OutcomeOf(d) # "unknown"
  BY <1>3 DEF MVInv, WritersKnown, TxId
<1> HIDE DEF d
<1>7. RowMatches(d) /\ TMTypeOK
  BY <1>3 DEF MVInv, TMInv, TablesMatch
<1>8. d \notin active_transactions
  BY <1>3, <1>4, <1>7 DEF RowMatches, Unfinished
<1>9. completed_transactions[d] = "ABORTED"
  BY <1>3, <1>5, <1>7, <1>8 DEF IsTransactionCommitted, TMTypeOK
<1> QED
  BY <1>7, <1>9 DEF RowMatches, d

(***************************************************************************)
(* For every instance: collecting below the oldest unfinished transaction  *)
(* changes what a running transaction reads only by taking a version that  *)
(* an aborted transaction had marked deleted, or one of the reader's own   *)
(* (mvcc_manager.cpp:62-64).                                               *)
(***************************************************************************)
THEOREM CollectionUnread == Spec => CollectsUnread
<1> DEFINE Collects == Collecting =>
          \A t \in TxId, k \in Key :
              Running(t) /\ ReadPos(k, t)' # ReadPos(k, t) =>
                  \E v \in versions[k] :
                      /\ v \notin versions'[k]
                      /\ \/ txn[v.deleted_tx_id].state = "ABORTED"
                         \/ v.created_tx_id = t
<1>1. ASSUME MVInv, [Next]_vars PROVE Collects
  <2> SUFFICES ASSUME Collecting, NEW t \in TxId, NEW k \in Key, Running(t),
                      ReadPos(k, t)' # ReadPos(k, t)
               PROVE  \E v \in versions[k] :
                          /\ v \notin versions'[k]
                          /\ \/ txn[v.deleted_tx_id].state = "ABORTED"
                             \/ v.created_tx_id = t
    OBVIOUS
  <2>1. PICK m \in 1 .. MaxTx + 1 : GarbageCollect(m)
    <3>1. ASSUME NEW u \in TxId, NEW j \in Key, NEW d, InstallVersion(u, j, d) PROVE FALSE
      BY <1>1, <3>1 DEF InstallVersion, Collecting, MVInv, MVTypeOK
    <3> QED
      BY <1>1, <3>1 DEF Next, vars, mvVars, Collecting, LockKey, StartRead, ReturnVersion,
         SkipVersion, ReturnNotFound
  <2>2. UNCHANGED tmVars /\ versions'[k] \subseteq versions[k]
    BY <2>1 DEF GarbageCollect
  <2>3. VisiblePos(k, t)' = {v.pos : v \in Visible(versions'[k], t)}
    BY <2>2 DEF VisiblePos, Visible, IsVersionVisible, DeletionSeen,
                IsTransactionCommitted, tmVars
  <2>4. VisiblePos(k, t)' # VisiblePos(k, t)
    BY SameVisibleSameRead
  <2>5. PICK v \in versions[k] : IsVersionVisible(v, t) /\ v \notin versions'[k]
    BY <2>2, <2>3, <2>4 DEF VisiblePos, Visible
  <2> QED
    BY <1>1, <2>1, <2>5, CollectedIsDead
<1> QED
  BY <1>1, MVInvariant, PTL DEF Spec, CollectsUnread

----------------------------------------------------------------------------
(***************************************************************************)
(* The serial case.  Two things more: the positions of a chain differ, and *)
(* where there are versions there is a newest one.                         *)
(***************************************************************************)
PositionsDiffer == \A k \in Key : \A u, v \in versions[k] : u.pos = v.pos => u = v

LEMMA PositionsStep ==
  ASSUME MVInv, PositionsDiffer, [Next]_vars
  PROVE  PositionsDiffer'
<1>1. CASE UNCHANGED versions
  BY <1>1 DEF PositionsDiffer
<1>2. ASSUME NEW m, GarbageCollect(m) PROVE PositionsDiffer'
  BY <1>2 DEF GarbageCollect, PositionsDiffer
<1>3. ASSUME NEW t \in TxId, NEW k \in Key, NEW d, InstallVersion(t, k, d)
      PROVE  PositionsDiffer'
  <2> DEFINE new == [pos |-> pushes + 1, created_tx_id |-> t, deleted_tx_id |-> d]
             marked == MarkDeleted(versions[k], t)
  <2>1. /\ versions'[k] = marked \cup {new}
        /\ \A j \in Key : j # k => versions'[j] = versions[j]
    BY <1>3 DEF InstallVersion, MVInv, MVTypeOK
  <2>2. /\ versions[k] \subseteq Version /\ pushes \in Nat
        /\ \A v \in versions[k] : v.pos <= pushes
    BY DEF MVInv, MVTypeOK, Appended
  <2>3. ASSUME NEW w \in marked
        PROVE  \E v \in versions[k] :
                   /\ w.pos = v.pos
                   /\ w = IF IsNewest(v, versions[k]) /\ v.deleted_tx_id = 0
                          THEN [v EXCEPT !.deleted_tx_id = t] ELSE v
    <3>1. PICK v \in versions[k] :
              w = IF IsNewest(v, versions[k]) /\ v.deleted_tx_id = 0
                  THEN [v EXCEPT !.deleted_tx_id = t] ELSE v
      BY DEF MarkDeleted
    <3>2. w.pos = v.pos
      BY <2>2, <3>1 DEF Version
    <3> QED
      BY <3>1, <3>2
  <2>4. ASSUME NEW w \in marked, NEW x \in marked, w.pos = x.pos PROVE w = x
    <3>1. PICK v \in versions[k] :
                   /\ w.pos = v.pos
                   /\ w = IF IsNewest(v, versions[k]) /\ v.deleted_tx_id = 0
                          THEN [v EXCEPT !.deleted_tx_id = t] ELSE v
      BY <2>3
    <3>2. PICK u \in versions[k] :
                   /\ x.pos = u.pos
                   /\ x = IF IsNewest(u, versions[k]) /\ u.deleted_tx_id = 0
                          THEN [u EXCEPT !.deleted_tx_id = t] ELSE u
      BY <2>3
    <3>3. u = v
      BY <2>4, <3>1, <3>2 DEF PositionsDiffer
    <3> QED
      BY <3>1, <3>2, <3>3
  <2>5. \A w \in marked : w.pos # new.pos
    BY <2>2, <2>3 DEF Version
  <2> HIDE DEF marked, new
  <2> QED
    BY <2>1, <2>4, <2>5 DEF PositionsDiffer
<1> QED
  BY <1>1, <1>2, <1>3 DEF Next, vars, mvVars, LockKey, StartRead, ReturnVersion,
     SkipVersion, ReturnNotFound

LEMMA MaxExists ==
  ASSUME NEW n \in Nat, NEW P \in SUBSET (1 .. n), P # {}
  PROVE  \E p \in P : \A q \in P : q <= p
<1> DEFINE Less == OpToRel(<, Nat)
           Below == {n - p : p \in P}
<1>0. IsWellFoundedOn(Less, Nat)
  BY NatLessThanWellFounded, Zenon
<1>1. \A x, y \in Nat : x < y => <<x, y>> \in Less
  BY DEF OpToRel
<1>2. \A p \in P : p \in Nat /\ n - p \in Nat
  OBVIOUS
<1>3. Below \subseteq Nat
  BY <1>2
<1>4. Below # {}
  <2>1. PICK p \in P : TRUE
    OBVIOUS
  <2>2. n - p \in Below
    OBVIOUS
  <2> QED
    BY <2>2
<1> HIDE DEF Less
<1>5. PICK x \in Below : \A y \in Below : ~ (<<y, x>> \in Less)
  <2> HIDE DEF Below
  <2> QED
    BY <1>0, <1>3, <1>4, WFMin
<1>6. PICK p \in P : x = n - p
  BY <1>5
<1>7. ASSUME NEW q \in P PROVE q <= p
  <2>1. n - q \in Below /\ n - q \in Nat /\ x \in Nat
    BY <1>2, <1>3
  <2>2. ~ (n - q < x)
    BY <1>1, <1>5, <2>1
  <2>3. p \in Nat /\ q \in Nat
    BY <1>2
  <2> HIDE DEF Below
  <2> QED
    BY <1>6, <2>1, <2>2, <2>3
<1> QED
  BY <1>7

\* The transactions the hypothesis calls settled are committed to a reader.
LEMMA SettledIsCommitted ==
  ASSUME MVInv, NEW t \in TxId, NEW k \in Key, SettledFor(versions[k], t),
         NEW v \in versions[k], v.created_tx_id < t
  PROVE  IsTransactionCommitted(v.created_tx_id)
<1>1. v.created_tx_id \in TxId
  BY DEF MVInv, MVTypeOK, Version
<1>2. RowMatches(v.created_tx_id)
  BY <1>1 DEF MVInv, TMInv, TablesMatch
<1> QED
  BY <1>2 DEF SettledFor, RowMatches, IsTransactionCommitted

\* The newest version up to t: nothing behind it overwrote it, and it was
\* behind whatever else there is.
LEMMA SerialRead ==
  ASSUME MVInv, PositionsDiffer, NEW t \in TxId, NEW k \in Key,
         InOrder(versions[k]), Unbroken(versions[k]), SettledFor(versions[k], t),
         NEW w \in versions[k], w.created_tx_id <= t,
         \A v \in versions[k] : v.created_tx_id <= t => v.pos <= w.pos
  PROVE  IF IsTombstone(w) THEN \A v \in versions[k] : ~ IsVersionVisible(v, t)
                           ELSE IsVersionVisible(w, t)
<1>1. \A v \in versions[k] :
          /\ v.pos \in Nat /\ v.created_tx_id \in Nat \ {0} /\ v.deleted_tx_id \in Nat
          /\ v.created_tx_id \in TxId
  BY DEF MVInv, MVTypeOK, Version, TxId
<1>2. \A v \in versions[k] : v.created_tx_id < t => IsTransactionCommitted(v.created_tx_id)
  BY SettledIsCommitted
<1>3. t \in Nat
  BY DEF TxId
<1>4. CASE ~ IsTombstone(w)
  <2>1. ~ (w.deleted_tx_id # 0 /\ w.deleted_tx_id <= t)
    <3> SUFFICES ASSUME w.deleted_tx_id # 0, w.deleted_tx_id <= t PROVE FALSE
      OBVIOUS
    <3>1. PICK v \in versions[k] : w.pos < v.pos /\ v.created_tx_id = w.deleted_tx_id
      BY <1>4 DEF Unbroken, Follows
    <3> QED
      BY <1>1, <3>1
  <2>2. ~ DeletionSeen(w, t)
    BY <1>1, <1>3, <2>1 DEF DeletionSeen
  <2>3. w.created_tx_id # t => IsTransactionCommitted(w.created_tx_id)
    BY <1>1, <1>2, <1>3
  <2> QED
    BY <1>3, <1>4, <2>1, <2>2, <2>3 DEF IsVersionVisible, IsTombstone
<1>5. CASE IsTombstone(w)
  <2> SUFFICES ASSUME NEW v \in versions[k], v.created_tx_id <= t, IsVersionVisible(v, t)
               PROVE  FALSE
    BY <1>1, <1>3, <1>5 DEF IsVersionVisible
  <2>1. ASSUME NEW u \in versions[k], IsTombstone(u), u.created_tx_id <= t
        PROVE  ~ IsVersionVisible(u, t)
    <3>1. u.created_tx_id # t => IsTransactionCommitted(u.created_tx_id)
      BY <1>1, <1>2, <1>3, <2>1
    <3> QED
      BY <1>1, <2>1, <3>1 DEF IsVersionVisible, IsTombstone, DeletionSeen
  <2>2. ~ IsTombstone(v) /\ v # w /\ v.pos <= w.pos
    BY <1>5, <2>1
  <2>3. v.pos < w.pos
    BY <1>1, <2>2 DEF PositionsDiffer
  <2>4. v.deleted_tx_id # 0
    BY <1>1, <2>3 DEF MVInv, OnlyNewestLive, IsNewest
  <2>5. PICK u \in versions[k] : /\ u.created_tx_id = v.deleted_tx_id
                                 /\ v.pos < u.pos /\ u.pos <= w.pos
    BY <2>2, <2>3, <2>4 DEF Unbroken, Follows
  <2>6. v.created_tx_id <= u.created_tx_id /\ u.created_tx_id <= t
    <3>1. u.created_tx_id <= w.created_tx_id
      <4>1. CASE u.pos = w.pos
        BY <1>1, <4>1 DEF PositionsDiffer
      <4>2. CASE u.pos < w.pos
        BY <4>2 DEF InOrder
      <4> QED
        BY <1>1, <2>5, <4>1, <4>2
    <3> QED
      BY <1>1, <1>3, <2>5, <3>1 DEF InOrder
  <2>7. u.created_tx_id # t => IsTransactionCommitted(u.created_tx_id)
    BY <1>1, <1>2, <1>3, <2>6
  <2>8. v.created_tx_id # v.deleted_tx_id
    BY <2>2 DEF IsTombstone
  <2>9. v.created_tx_id # t
    BY <1>1, <1>3, <2>5, <2>6, <2>8
  <2>10. DeletionSeen(v, t)
    BY <2>4, <2>5, <2>6, <2>7 DEF DeletionSeen
  <2> QED
    BY <2>9, <2>10 DEF IsVersionVisible
<1> QED
  BY <1>4, <1>5

\* In a state: what the visibility rule finds is the last version up to t.
LEMMA SerialState ==
  ASSUME MVInv, PositionsDiffer
  PROVE  ReadsLatestWhenSerial
<1> SUFFICES ASSUME NEW t \in TxId, NEW k \in Key, Running(t), InOrder(versions[k]),
                    Unbroken(versions[k]), SettledFor(versions[k], t)
             PROVE  LET upTo == {v \in versions[k] : v.created_tx_id <= t}
                    IN  IF \E v \in upTo : IsNewest(v, upTo) /\ ~ IsTombstone(v)
                        THEN \E v \in upTo : IsNewest(v, upTo) /\ ReadPos(k, t) = v.pos
                        ELSE ReadPos(k, t) = 0
  BY DEF ReadsLatestWhenSerial
<1> DEFINE upTo == {v \in versions[k] : v.created_tx_id <= t}
<1>1. versions[k] \subseteq Version /\ VisiblePos(k, t) \subseteq Nat
  BY DEF MVInv, MVTypeOK, VisiblePos, Visible, Version
<1>2. \A v \in versions[k] : IsVersionVisible(v, t) => v.created_tx_id <= t
  BY DEF IsVersionVisible, TxId
<1>3. ASSUME NEW w \in upTo, IsNewest(w, upTo)
      PROVE  IF IsTombstone(w) THEN VisiblePos(k, t) = {} ELSE ReadPos(k, t) = w.pos
  <2>1. \A v \in versions[k] : v.created_tx_id <= t => v.pos <= w.pos
    BY <1>3 DEF IsNewest
  <2>2. CASE IsTombstone(w)
    BY <2>1, <2>2, SerialRead DEF VisiblePos, Visible
  <2>3. CASE ~ IsTombstone(w)
    <3>1. IsVersionVisible(w, t)
      BY <2>1, <2>3, SerialRead
    <3>2. w.pos \in VisiblePos(k, t) /\ \A q \in VisiblePos(k, t) : q <= w.pos
      BY <1>2, <2>1, <3>1 DEF VisiblePos, Visible
    <3>3. ASSUME NEW p \in VisiblePos(k, t), \A q \in VisiblePos(k, t) : q <= p
          PROVE  p = w.pos
      BY <1>1, <3>2, <3>3
    <3> QED
      BY <2>3, <3>2, <3>3 DEF ReadPos
  <2> QED
    BY <2>2, <2>3
<1>4. CASE \E w \in upTo : IsNewest(w, upTo)
  <2>1. VisiblePos(k, t) = {} => ReadPos(k, t) = 0
    BY DEF ReadPos
  <2> QED
    BY <1>3, <1>4, <2>1
<1>5. CASE ~ \E w \in upTo : IsNewest(w, upTo)
  <2>1. upTo = {}
    <3> SUFFICES ASSUME upTo # {} PROVE FALSE
      OBVIOUS
    <3> DEFINE P == {v.pos : v \in upTo}
    <3>0. P \subseteq 1 .. MaxWrites
      BY <1>1 DEF Version
    <3>1. MaxWrites \in Nat /\ P \in SUBSET (1 .. MaxWrites) /\ P # {}
      <4>1. PICK v \in upTo : TRUE
        OBVIOUS
      <4>2. v.pos \in P
        OBVIOUS
      <4> HIDE DEF P
      <4> QED
        BY <3>0, <4>2, MaxWritesAssumption
    <3>2. PICK p \in P : \A q \in P : q <= p
      <4> HIDE DEF P
      <4> QED
        BY <3>1, MaxExists
    <3>3. PICK w \in upTo : w.pos = p
      OBVIOUS
    <3>4. IsNewest(w, upTo)
      BY <3>2, <3>3 DEF IsNewest
    <3> QED
      BY <1>5, <3>4
  <2>2. VisiblePos(k, t) = {}
    BY <1>2, <2>1 DEF VisiblePos, Visible
  <2> QED
    BY <2>1, <2>2 DEF ReadPos
<1> QED
  BY <1>4, <1>5

(***************************************************************************)
(* For every instance: when the writers of a key came in the order of      *)
(* their identifiers, all up to t committed and nothing collected from     *)
(* between a version and the one that overwrote it, read_version finds the *)
(* last version written up to t, and nothing when that is a tombstone: the *)
(* deletion marks add nothing to the order (mvcc_manager.cpp:19-26).       *)
(***************************************************************************)
THEOREM SerialReadsLatest == Spec => []ReadsLatestWhenSerial
<1>1. Init => PositionsDiffer
  BY DEF Init, PositionsDiffer
<1> QED
  BY <1>1, MVInvariant, PositionsStep, SerialState, PTL DEF Spec
=============================================================================
