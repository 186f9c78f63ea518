------------------------- MODULE LockManager_proofs -------------------------
(***************************************************************************)
(* Theorems about LockManager, for any transactions and resources.         *)
(*                                                                         *)
(* The waits-for graph is out of date, but not for a sleeper: a release    *)
(* wakes everybody, so since it went to sleep locks were only added.  Its  *)
(* edges are therefore some of its present conflicts (EdgesHold), and a    *)
(* set of sleepers closed under edges would have been found by the search  *)
(* of the last of them (NoClosedSleepers).                                 *)
(***************************************************************************)
EXTENDS WriteLocks, TLAPS

Sleepers == {t \in Tx : pc[t] = "sleeping"}

EdgesHold ==
    \A t \in Sleepers : /\ waits_for_graph[t] # {}
                        /\ waits_for_graph[t] \subseteq Conflicting(t)

ClosedIn(D, graph) == \A t \in D : graph[t] \subseteq D

NoClosedSleepers ==
    \A D \in (SUBSET Sleepers) \ {{}} : ~ ClosedIn(D, waits_for_graph)

LMInv == LMTypeOK /\ Exclusion /\ EdgesHold /\ NoClosedSleepers

----------------------------------------------------------------------------
(***************************************************************************)
(* Types.                                                                  *)
(***************************************************************************)
LEMMA TypeInit == LMInit => LMTypeOK
  BY DEF LMInit, LMTypeOK, InLock

LEMMA ConflictingInTx ==
  ASSUME LMTypeOK, NEW t \in Tx, InLock(t)
  PROVE  Conflicting(t) \subseteq Tx
<1>1. request[t] \in Arguments
  BY DEF LMTypeOK
<1> QED
  BY <1>1 DEF LMTypeOK, Conflicting, Arguments, LockRequest

LEMMA TypeStep == LMTypeOK /\ [LMNext]_lmVars => LMTypeOK'
<1> SUFFICES ASSUME LMTypeOK, [LMNext]_lmVars PROVE LMTypeOK'
  OBVIOUS
<1>1. ASSUME NEW t \in Tx, NEW r \in Resource, NEW m \in LockMode, Call(t, r, m)
      PROVE  LMTypeOK'
  <2>1. [resource |-> r, mode |-> m] \in Arguments
    BY DEF Arguments
  <2>2. [resource |-> r, mode |-> m] # NoRequest
    BY <2>1, NoRequestAssumption DEF Arguments, LockMode
  <2> QED
    BY <1>1, <2>1, <2>2 DEF Call, LMTypeOK, InLock
<1>2. ASSUME NEW t \in Tx, Sleep(t) PROVE LMTypeOK'
  <2>1. Conflicting(t) \subseteq Tx
    BY <1>2, ConflictingInTx DEF Sleep, InLock
  <2> QED
    BY <1>2, <2>1 DEF Sleep, WithEdges, LMTypeOK, InLock
<1>3. ASSUME NEW t \in Tx, Deny(t) PROVE LMTypeOK'
  BY <1>3 DEF Deny, LMTypeOK, InLock
<1>4. ASSUME NEW t \in Tx, Grant(t) PROVE LMTypeOK'
  <2>1. request[t] \in Arguments
    BY <1>4 DEF Grant, LMTypeOK, InLock
  <2>2. request[t].resource \in Resource /\ request[t].mode \in LockMode
    BY <2>1 DEF Arguments
  <2>3. [tx |-> t, mode |-> request[t].mode] \in LockRequest
    BY <2>2 DEF LockRequest
  <2>4. lock_table' \in [Resource -> SUBSET LockRequest]
    BY <1>4, <2>2, <2>3 DEF Grant, LMTypeOK
  <2> QED
    BY <1>4, <2>4 DEF Grant, LMTypeOK, InLock
<1>5. ASSUME NEW t \in Tx, SpuriousWakeup(t) PROVE LMTypeOK'
  BY <1>5 DEF SpuriousWakeup, LMTypeOK, InLock
<1>6. ASSUME NEW t \in Tx, UnlockAll(t) PROVE LMTypeOK'
  <2>1. lock_table' \in [Resource -> SUBSET LockRequest]
    BY <1>6 DEF UnlockAll, Without, LMTypeOK
  <2> QED
    BY <1>6, <2>1 DEF UnlockAll, NotifyAll, LMTypeOK, InLock
<1>7. ASSUME NEW t \in Tx, NEW r \in Resource, Unlock(t, r) PROVE LMTypeOK'
  <2>1. lock_table' \in [Resource -> SUBSET LockRequest]
    BY <1>7 DEF Unlock, Without, LMTypeOK
  <2> QED
    BY <1>7, <2>1 DEF Unlock, NotifyAll, LMTypeOK, InLock
<1>8. CASE UNCHANGED lmVars
  BY <1>8 DEF lmVars, LMTypeOK, InLock
<1> QED
  BY <1>1, <1>2, <1>3, <1>4, <1>5, <1>6, <1>7, <1>8 DEF LMNext

----------------------------------------------------------------------------
(***************************************************************************)
(* A grant conflicts with nobody's lock; every other step only removes.    *)
(***************************************************************************)
LEMMA ExclusionStep ==
  LMTypeOK /\ Exclusion /\ [LMNext]_lmVars => Exclusion'
<1> SUFFICES ASSUME LMTypeOK, Exclusion, [LMNext]_lmVars PROVE Exclusion'
  OBVIOUS
<1>1. ASSUME NEW t \in Tx, Grant(t) PROVE Exclusion'
  <2> DEFINE new == [tx |-> t, mode |-> request[t].mode]
             at == request[t].resource
  <2>1. request[t] \in Arguments
    BY <1>1 DEF Grant, LMTypeOK, InLock
  <2>2. at \in Resource
    BY <2>1 DEF Arguments
  <2>3. \A q \in lock_table[at] :
            q.tx # t => q.mode # "EXCLUSIVE" /\ new.mode # "EXCLUSIVE"
    BY <1>1 DEF Grant, HasConflict, Conflicting
  <2>4. \A r \in Resource : lock_table'[r] =
            IF r = at THEN lock_table[r] \cup {new} ELSE lock_table[r]
    BY <1>1, <2>2 DEF Grant, LMTypeOK
  <2>5. new.tx = t
    OBVIOUS
  <2> HIDE DEF new, at
  <2> SUFFICES ASSUME NEW r \in Resource,
                      NEW p \in lock_table'[r], NEW q \in lock_table'[r],
                      p.mode = "EXCLUSIVE"
               PROVE  q.tx = p.tx
    BY DEF Exclusion
  <2>6. CASE p \in lock_table[r] /\ q \in lock_table[r]
    BY <2>6 DEF Exclusion
  <2>7. CASE r = at /\ p = new /\ q \in lock_table[at]
    BY <2>3, <2>5, <2>7
  <2>8. CASE r = at /\ p \in lock_table[at] /\ q = new
    BY <2>3, <2>5, <2>8
  <2>9. CASE p = new /\ q = new
    BY <2>9
  <2> QED
    BY <2>4, <2>6, <2>7, <2>8, <2>9
<1>2. ASSUME NEW t \in Tx, UnlockAll(t) PROVE Exclusion'
  BY <1>2 DEF UnlockAll, Without, Exclusion
<1>3. ASSUME NEW t \in Tx, NEW r \in Resource, Unlock(t, r) PROVE Exclusion'
  <2>1. \A s \in Resource : lock_table'[s] \subseteq lock_table[s]
    BY <1>3 DEF Unlock, Without, LMTypeOK
  <2> QED
    BY <2>1 DEF Exclusion
<1>4. CASE UNCHANGED lock_table
  BY <1>4 DEF Exclusion
<1> QED
  BY <1>1, <1>2, <1>3, <1>4 DEF LMNext, lmVars, Call, Sleep, Deny, SpuriousWakeup

(***************************************************************************)
(* A sleeper's edges stay among its conflicts: locks are only added while  *)
(* it sleeps, and whatever removes one wakes it.                           *)
(***************************************************************************)
LEMMA ReleaseWakes ==
  ASSUME LMTypeOK, NEW t \in Tx,
         UnlockAll(t) \/ \E r \in Resource : Unlock(t, r)
  PROVE  Sleepers' = {}
  BY DEF UnlockAll, Unlock, NotifyAll, Sleepers, LMTypeOK

LEMMA SleeperKept ==
  ASSUME LMTypeOK, [LMNext]_lmVars, NEW u \in Sleepers, u \in Sleepers'
  PROVE  /\ waits_for_graph'[u] = waits_for_graph[u]
         /\ Conflicting(u) \subseteq Conflicting(u)'
<1> DEFINE Kept == /\ waits_for_graph'[u] = waits_for_graph[u]
                   /\ Conflicting(u) \subseteq Conflicting(u)'
<1>0. u \in Tx /\ pc[u] = "sleeping" /\ pc'[u] = "sleeping"
  BY DEF Sleepers
<1>a. request[u] \in Arguments
  BY <1>0 DEF LMTypeOK, InLock
<1>b. request[u].resource \in Resource
  BY <1>a DEF Arguments
<1>1. ASSUME NEW t \in Tx, NEW r \in Resource, NEW m \in LockMode, Call(t, r, m)
      PROVE  Kept
  BY <1>0, <1>1 DEF Call, LMTypeOK, Conflicting
<1>2. ASSUME NEW t \in Tx, Sleep(t) PROVE Kept
  BY <1>0, <1>2 DEF Sleep, WithEdges, LMTypeOK, Conflicting
<1>3. ASSUME NEW t \in Tx, Deny(t) PROVE Kept
  BY <1>0, <1>3 DEF Deny, LMTypeOK, Conflicting
<1>4. ASSUME NEW t \in Tx, Grant(t) PROVE Kept
  <2>1. request'[u] = request[u] /\ waits_for_graph'[u] = waits_for_graph[u]
    BY <1>0, <1>4 DEF Grant, LMTypeOK
  <2>2. lock_table[request[u].resource] \subseteq lock_table'[request[u].resource]
    BY <1>b, <1>4 DEF Grant, LMTypeOK
  <2> QED
    BY <2>1, <2>2 DEF Conflicting
<1>5. ASSUME NEW t \in Tx, SpuriousWakeup(t) PROVE Kept
  BY <1>5 DEF SpuriousWakeup, Conflicting
<1>6. ASSUME NEW t \in Tx, UnlockAll(t) \/ \E r \in Resource : Unlock(t, r)
      PROVE  Kept
  BY <1>6, ReleaseWakes
<1>7. CASE UNCHANGED lmVars
  BY <1>7 DEF lmVars, Conflicting
<1> QED
  BY <1>1, <1>2, <1>3, <1>4, <1>5, <1>6, <1>7 DEF LMNext

LEMMA NewSleeper ==
  ASSUME LMTypeOK, [LMNext]_lmVars, NEW u \in Sleepers', u \notin Sleepers
  PROVE  u \in Tx /\ Sleep(u)
<1>0. u \in Tx /\ pc[u] # "sleeping" /\ pc'[u] = "sleeping"
  BY DEF Sleepers
<1>1. \A t \in Tx : Sleep(t) => u = t
  BY <1>0 DEF Sleep, LMTypeOK
<1>2. \A t \in Tx : ~ (UnlockAll(t) \/ \E r \in Resource : Unlock(t, r))
  BY ReleaseWakes DEF Sleepers
<1>3. \A t \in Tx : ~ (Deny(t) \/ Grant(t) \/ SpuriousWakeup(t))
  BY <1>0 DEF Deny, Grant, SpuriousWakeup, LMTypeOK
<1>4. \A t \in Tx, r \in Resource, m \in LockMode : ~ Call(t, r, m)
  BY <1>0 DEF Call, LMTypeOK
<1> QED
  BY <1>0, <1>1, <1>2, <1>3, <1>4 DEF LMNext, lmVars

LEMMA EdgesStep ==
  LMTypeOK /\ EdgesHold /\ [LMNext]_lmVars => EdgesHold'
<1> SUFFICES ASSUME LMTypeOK, EdgesHold, [LMNext]_lmVars, NEW u \in Sleepers'
             PROVE  /\ waits_for_graph'[u] # {}
                    /\ waits_for_graph'[u] \subseteq Conflicting(u)'
  BY DEF EdgesHold
<1>1. CASE u \in Sleepers
  BY <1>1, SleeperKept DEF EdgesHold
<1>2. CASE u \notin Sleepers
  <2>1. u \in Tx /\ Sleep(u)
    BY <1>2, NewSleeper
  <2>2. waits_for_graph'[u] = Conflicting(u) /\ Conflicting(u)' = Conflicting(u)
    BY <2>1 DEF Sleep, WithEdges, LMTypeOK, Conflicting
  <2>3. Conflicting(u) # {}
    BY <2>1 DEF Sleep, HasConflict
  <2> QED
    BY <2>2, <2>3
<1> QED
  BY <1>1, <1>2

----------------------------------------------------------------------------
(***************************************************************************)
(* If t's going to sleep closed a set of sleepers, the transactions that   *)
(* it reaches are in that set, each has an edge, and every edge leads to   *)
(* another of them: the search would have found a cycle.                   *)
(***************************************************************************)
LEMMA ReachableClosed ==
  ASSUME NEW graph \in [Tx -> SUBSET Tx], NEW t \in Tx
  PROVE  /\ t \in ReachableFrom(t, graph)
         /\ ClosedIn(ReachableFrom(t, graph), graph)
         /\ \A D \in SUBSET Tx :
                t \in D /\ ClosedIn(D, graph) => ReachableFrom(t, graph) \subseteq D
<1>1. t \in ReachableFrom(t, graph)
  BY DEF ReachableFrom
<1>2. ASSUME NEW c \in ReachableFrom(t, graph), NEW d \in graph[c]
      PROVE  d \in ReachableFrom(t, graph)
  <2>1. c \in Tx /\ d \in Tx
    BY DEF ReachableFrom
  <2>2. ASSUME NEW S \in SUBSET Tx, t \in S, \A s \in S : graph[s] \subseteq S
        PROVE  d \in S
    BY <2>2 DEF ReachableFrom
  <2> QED
    BY <2>1, <2>2 DEF ReachableFrom
<1>3. \A D \in SUBSET Tx :
         t \in D /\ ClosedIn(D, graph) => ReachableFrom(t, graph) \subseteq D
  BY DEF ReachableFrom, ClosedIn
<1> QED
  BY <1>1, <1>2, <1>3 DEF ClosedIn

LEMMA ClosedIsDetected ==
  ASSUME NEW graph \in [Tx -> SUBSET Tx], NEW t \in Tx,
         NEW D \in SUBSET Tx, t \in D, ClosedIn(D, graph),
         \A d \in D : graph[d] # {}
  PROVE  DetectDeadlock(t, graph)
<1> DEFINE C == ReachableFrom(t, graph)
<1>1. t \in C /\ ClosedIn(C, graph) /\ C \subseteq D
  BY ReachableClosed
<1>2. EndlessIn(C, graph)
  <2>1. \A c \in C : graph[c] # {} /\ graph[c] \subseteq C
    BY <1>1 DEF ClosedIn
  <2> QED
    BY <1>1, <2>1 DEF EndlessIn
<1>3. C \in SUBSET ReachableFrom(t, graph)
  OBVIOUS
<1> QED
  BY <1>2, <1>3 DEF DetectDeadlock

LEMMA SleepersStep ==
  LMTypeOK /\ EdgesHold /\ NoClosedSleepers /\ [LMNext]_lmVars
      => NoClosedSleepers'
<1> SUFFICES ASSUME LMTypeOK, EdgesHold, NoClosedSleepers, [LMNext]_lmVars,
                    NEW D \in SUBSET Sleepers', D # {},
                    ClosedIn(D, waits_for_graph')
             PROVE  FALSE
  BY DEF NoClosedSleepers, ClosedIn
<1>1. LMTypeOK' /\ EdgesHold'
  BY TypeStep, EdgesStep
<1>2. D \subseteq Tx
  BY DEF Sleepers
<1>3. CASE D \subseteq Sleepers
  <2>1. \A d \in D : waits_for_graph'[d] = waits_for_graph[d]
    BY <1>3, SleeperKept
  <2>2. ClosedIn(D, waits_for_graph)
    BY <2>1 DEF ClosedIn
  <2> QED
    BY <1>3, <2>2 DEF NoClosedSleepers
<1>4. CASE \E d \in D : d \notin Sleepers
  <2>1. PICK t \in D : t \notin Sleepers
    BY <1>4
  <2>2. t \in Tx /\ Sleep(t)
    BY <2>1, NewSleeper
  <2>3. waits_for_graph' = WithEdges(t) /\ ~ DetectDeadlock(t, WithEdges(t))
    BY <2>2 DEF Sleep
  <2>4. \A d \in D : waits_for_graph'[d] # {}
    BY <1>1 DEF EdgesHold
  <2>5. waits_for_graph' \in [Tx -> SUBSET Tx]
    BY <1>1 DEF LMTypeOK
  <2>6. DetectDeadlock(t, waits_for_graph')
    BY <1>2, <2>1, <2>2, <2>4, <2>5, ClosedIsDetected
  <2> QED
    BY <2>3, <2>6
<1> QED
  BY <1>3, <1>4

----------------------------------------------------------------------------
(***************************************************************************)
(* The inductive invariant.                                                *)
(***************************************************************************)
LEMMA LMInvInit == LMInit => LMInv
<1> SUFFICES ASSUME LMInit PROVE LMInv
  OBVIOUS
<1>1. LMTypeOK
  BY TypeInit
<1>2. Exclusion
  BY DEF LMInit, Exclusion
<1>3. Sleepers = {}
  BY DEF LMInit, Sleepers
<1> QED
  BY <1>1, <1>2, <1>3 DEF LMInv, EdgesHold, NoClosedSleepers

LEMMA LMInvStep == LMInv /\ [LMNext]_lmVars => LMInv'
  BY TypeStep, ExclusionStep, EdgesStep, SleepersStep DEF LMInv

LEMMA LMInvariant == LMSpec => []LMInv
  BY LMInvInit, LMInvStep, PTL DEF LMSpec

(***************************************************************************)
(* Types, and which threads are inside lock().                             *)
(***************************************************************************)
THEOREM LockTypes == LMSpec => []LMTypeOK
<1>1. LMInv => LMTypeOK
  BY DEF LMInv
<1> QED
  BY <1>1, LMInvariant, PTL

(***************************************************************************)
(* Locks exclude, for any number of transactions and resources.            *)
(***************************************************************************)
THEOREM LocksExclude == LMSpec => []Exclusion
<1>1. LMInv => Exclusion
  BY DEF LMInv
<1> QED
  BY <1>1, LMInvariant, PTL

(***************************************************************************)
(* Whoever sleeps in cv_.wait is kept out by a lock held now.              *)
(***************************************************************************)
THEOREM WakeupsArrive == LMSpec => []NoLostWakeup
<1>1. LMInv => NoLostWakeup
  BY DEF LMInv, EdgesHold, NoLostWakeup, HasConflict, Sleepers
<1> QED
  BY <1>1, LMInvariant, PTL

(***************************************************************************)
(* Searching one graph of old edges before each wait is enough: no group   *)
(* of sleepers has all its conflicting holders among itself.               *)
(***************************************************************************)
THEOREM DeadlocksAreSeen == LMSpec => []NoSleepingDeadlock
<1>1. LMInv => NoSleepingDeadlock
  <2> SUFFICES ASSUME LMInv, NEW D \in SUBSET Tx, D # {},
                      \A t \in D : pc[t] = "sleeping",
                      \A t \in D : Conflicting(t) \subseteq D
               PROVE  FALSE
    BY DEF NoSleepingDeadlock
  <2>1. D \in (SUBSET Sleepers) \ {{}}
    BY DEF Sleepers
  <2>2. ClosedIn(D, waits_for_graph)
    BY <2>1 DEF LMInv, EdgesHold, ClosedIn
  <2> QED
    BY <2>1, <2>2 DEF LMInv, NoClosedSleepers
<1> QED
  BY <1>1, LMInvariant, PTL

----------------------------------------------------------------------------
(***************************************************************************)
(* WriteLocks never denies and implements KeyMutex, for any transactions   *)
(* and keys.  A holder is idle and has no edges, so the edges a thread     *)
(* adds lead to dead ends: no set of transactions is endless in the graph, *)
(* however old its edges are.                                              *)
(***************************************************************************)
HoldersIdle ==
    \A t \in Tx : ~ HoldsNone(t) => pc[t] = "idle" /\ waits_for_graph[t] = {}

Acyclic == \A C \in SUBSET Tx : ~ EndlessIn(C, waits_for_graph)

OneKey ==
    \A t \in Tx : \A r, s \in Resource : Holds(t, r) /\ Holds(t, s) => r = s

AllExclusive ==
    /\ \A t \in Tx : InLock(t) => request[t].mode = "EXCLUSIVE"
    /\ \A r \in Resource : \A q \in lock_table[r] : q.mode = "EXCLUSIVE"

WInv == /\ LMTypeOK /\ Exclusion
        /\ HoldersIdle /\ Acyclic /\ OneKey /\ AllExclusive /\ NeverDenied

----------------------------------------------------------------------------
LEMMA WriteStepIsStep == [WriteNext]_lmVars => [LMNext]_lmVars
  BY DEF WriteNext, LMNext, EnterWrite, LockMode

LEMMA WInvInit == LMInit => WInv
<1> SUFFICES ASSUME LMInit PROVE WInv
  OBVIOUS
<1>1. LMTypeOK
  BY TypeInit
<1>2. Exclusion /\ HoldersIdle /\ OneKey /\ NeverDenied
  BY DEF LMInit, Exclusion, HoldersIdle, OneKey, NeverDenied, HoldsNone, Holds
<1>3. Acyclic
  BY DEF LMInit, Acyclic, EndlessIn
<1>4. AllExclusive
  BY DEF LMInit, AllExclusive, InLock
<1> QED
  BY <1>1, <1>2, <1>3, <1>4 DEF WInv

(***************************************************************************)
(* Edges that lead only to transactions without edges close no cycle.      *)
(***************************************************************************)
LEMMA EdgesToHolders ==
  ASSUME LMTypeOK, HoldersIdle, Acyclic, NEW t \in Tx, pc[t] = "trying"
  PROVE  \A C \in SUBSET Tx : ~ EndlessIn(C, WithEdges(t))
<1> SUFFICES ASSUME NEW C \in SUBSET Tx, EndlessIn(C, WithEdges(t))
             PROVE  FALSE
  OBVIOUS
<1>1. \A u \in Tx : u # t => WithEdges(t)[u] = waits_for_graph[u]
  BY DEF WithEdges, LMTypeOK
<1>2. CASE t \notin C
  <2>1. EndlessIn(C, waits_for_graph)
    BY <1>1, <1>2 DEF EndlessIn
  <2> QED
    BY <2>1 DEF Acyclic
<1>3. CASE t \in C
  <2>1. WithEdges(t)[t] = Conflicting(t)
    BY DEF WithEdges, LMTypeOK
  <2>2. PICK h \in C : h \in Conflicting(t)
    BY <1>3, <2>1 DEF EndlessIn
  <2>3. request[t].resource \in Resource
    BY DEF LMTypeOK, InLock, Arguments
  <2>4. h # t /\ ~ HoldsNone(h)
    BY <2>2, <2>3 DEF Conflicting, HoldsNone, Holds
  <2>5. WithEdges(t)[h] = {}
    BY <1>1, <2>2, <2>4 DEF HoldersIdle
  <2> QED
    BY <2>2, <2>5 DEF EndlessIn
<1> QED
  BY <1>2, <1>3

LEMMA NoDenial ==
  ASSUME LMTypeOK, HoldersIdle, Acyclic, NEW t \in Tx
  PROVE  ~ Deny(t)
<1> SUFFICES ASSUME Deny(t) PROVE FALSE
  OBVIOUS
<1>1. pc[t] = "trying" /\ DetectDeadlock(t, WithEdges(t))
  BY DEF Deny
<1>2. PICK C \in SUBSET ReachableFrom(t, WithEdges(t)) :
          EndlessIn(C, WithEdges(t))
  BY <1>1 DEF DetectDeadlock
<1>3. C \in SUBSET Tx
  BY <1>2 DEF ReachableFrom, WithEdges, LMTypeOK
<1> QED
  BY <1>1, <1>2, <1>3, EdgesToHolders

(***************************************************************************)
(* What each step does to a table, a graph row and a place.                *)
(***************************************************************************)
LEMMA FewerEdges ==
  ASSUME Acyclic, NEW t \in Tx, LMTypeOK,
         waits_for_graph' = [waits_for_graph EXCEPT ![t] = {}]
  PROVE  Acyclic'
<1> SUFFICES ASSUME NEW C \in SUBSET Tx, EndlessIn(C, waits_for_graph')
             PROVE  FALSE
  BY DEF Acyclic, EndlessIn
<1>1. waits_for_graph'[t] = {}
  BY DEF LMTypeOK
<1>2. t \notin C
  BY <1>1 DEF EndlessIn
<1>3. \A c \in C : waits_for_graph'[c] = waits_for_graph[c]
  BY <1>2 DEF LMTypeOK
<1>4. EndlessIn(C, waits_for_graph)
  BY <1>3 DEF EndlessIn
<1> QED
  BY <1>4 DEF Acyclic

LEMMA GrantedAlone ==
  ASSUME WInv, NEW t \in Tx, Grant(t)
  PROVE  /\ request[t].resource \in Resource
         /\ HoldsNone(t)
         /\ lock_table[request[t].resource] = {}
         /\ \A r \in Resource : lock_table'[r] =
               IF r = request[t].resource
               THEN {[tx |-> t, mode |-> "EXCLUSIVE"]} ELSE lock_table[r]
<1> DEFINE at == request[t].resource
<1>1. at \in Resource
  BY DEF Grant, WInv, LMTypeOK, InLock, Arguments
<1>2. HoldsNone(t)
  BY DEF Grant, WInv, HoldersIdle
<1>3. request[t].mode = "EXCLUSIVE"
  BY DEF Grant, WInv, AllExclusive, InLock
<1>4. \A q \in lock_table[at] : q.tx = t
  BY <1>3 DEF Grant, HasConflict, Conflicting
<1>5. lock_table[at] = {}
  BY <1>1, <1>2, <1>4 DEF HoldsNone, Holds
<1> QED
  BY <1>1, <1>2, <1>3, <1>5 DEF Grant, WInv, LMTypeOK

LEMMA UnlockedEmpty ==
  ASSUME WInv, NEW t \in Tx, NEW r \in Resource, Unlock(t, r)
  PROVE  /\ \A q \in lock_table[r] : q.tx = t
         /\ \A s \in Resource : lock_table'[s] =
               IF s = r THEN {} ELSE lock_table[s]
<1>1. PICK p \in lock_table[r] : p.tx = t
  BY DEF Unlock, Holds
<1>2. \A q \in lock_table[r] : q.tx = t
  BY <1>1 DEF WInv, Exclusion, AllExclusive
<1>3. Without(t, lock_table[r]) = {}
  BY <1>2 DEF Without
<1> QED
  BY <1>2, <1>3 DEF Unlock, WInv, LMTypeOK

(***************************************************************************)
(* The holders' conjuncts, one action at a time.                           *)
(***************************************************************************)
LEMMA HoldersStep ==
  WInv /\ [WriteNext]_lmVars =>
      HoldersIdle' /\ OneKey' /\ AllExclusive' /\ NeverDenied'
<1> DEFINE Goal == HoldersIdle' /\ OneKey' /\ AllExclusive' /\ NeverDenied'
<1> SUFFICES ASSUME WInv, [WriteNext]_lmVars PROVE Goal
  OBVIOUS
<1>1. ASSUME NEW t \in Tx, NEW r \in Resource, EnterWrite(t, r) PROVE Goal
  <2>1. \A u \in Tx : HoldsNone(u)' = HoldsNone(u)
    BY <1>1 DEF EnterWrite, Call, HoldsNone, Holds
  <2>2. HoldersIdle'
    BY <1>1, <2>1 DEF EnterWrite, Call, WInv, HoldersIdle, LMTypeOK
  <2>3. AllExclusive'
    BY <1>1 DEF EnterWrite, Call, WInv, AllExclusive, LMTypeOK, InLock
  <2> QED
    BY <1>1, <2>2, <2>3
       DEF EnterWrite, Call, WInv, OneKey, Holds, NeverDenied, LMTypeOK
<1>2. ASSUME NEW t \in Tx, Sleep(t) PROVE Goal
  <2>1. \A u \in Tx : HoldsNone(u)' = HoldsNone(u)
    BY <1>2 DEF Sleep, HoldsNone, Holds
  <2>2. HoldersIdle'
    BY <1>2, <2>1 DEF Sleep, WithEdges, WInv, HoldersIdle, LMTypeOK
  <2>3. AllExclusive'
    BY <1>2 DEF Sleep, WInv, AllExclusive, LMTypeOK, InLock
  <2> QED
    BY <1>2, <2>2, <2>3 DEF Sleep, WInv, OneKey, Holds, NeverDenied, LMTypeOK
<1>3. ASSUME NEW t \in Tx, SpuriousWakeup(t) PROVE Goal
  <2>1. \A u \in Tx : HoldsNone(u)' = HoldsNone(u)
    BY <1>3 DEF SpuriousWakeup, HoldsNone, Holds
  <2>2. HoldersIdle'
    BY <1>3, <2>1 DEF SpuriousWakeup, WInv, HoldersIdle, LMTypeOK
  <2>3. AllExclusive'
    BY <1>3 DEF SpuriousWakeup, WInv, AllExclusive, LMTypeOK, InLock
  <2> QED
    BY <1>3, <2>2, <2>3
       DEF SpuriousWakeup, WInv, OneKey, Holds, NeverDenied, LMTypeOK
<1>4. ASSUME NEW t \in Tx, Grant(t) PROVE Goal
  <2> DEFINE at == request[t].resource
             new == [tx |-> t, mode |-> "EXCLUSIVE"]
  <2>1. /\ at \in Resource
        /\ HoldsNone(t)
        /\ \A r \in Resource : lock_table'[r] =
              IF r = at THEN {new} ELSE lock_table[r]
    BY <1>4, GrantedAlone
  <2>2. \A u \in Tx : u # t => (\A r \in Resource : Holds(u, r)' => Holds(u, r))
    BY <2>1 DEF Holds
  <2>3. \A r \in Resource : Holds(t, r)' => r = at
    BY <2>1 DEF Holds, HoldsNone
  <2>4. HoldersIdle'
    <3>1. \A u \in Tx : u # t => (~ HoldsNone(u)' => ~ HoldsNone(u))
      BY <2>2 DEF HoldsNone
    <3> QED
      BY <1>4, <3>1 DEF Grant, WInv, HoldersIdle, LMTypeOK
  <2>5. OneKey'
    BY <2>2, <2>3 DEF WInv, OneKey
  <2>6. AllExclusive'
    BY <1>4, <2>1 DEF Grant, WInv, AllExclusive, LMTypeOK, InLock
  <2> QED
    BY <1>4, <2>4, <2>5, <2>6 DEF Grant, WInv, NeverDenied, LMTypeOK
<1>5. ASSUME NEW t \in Tx, NEW r \in Resource, Unlock(t, r) PROVE Goal
  <2>1. \A s \in Resource : lock_table'[s] =
            IF s = r THEN {} ELSE lock_table[s]
    BY <1>5, UnlockedEmpty
  <2>2. \A u \in Tx : \A s \in Resource : Holds(u, s)' => Holds(u, s)
    BY <2>1 DEF Holds
  <2>3. \A u \in Tx : HoldsNone(u) => HoldsNone(u)'
    BY <2>2 DEF HoldsNone
  <2>4. HoldersIdle'
    BY <1>5, <2>3 DEF Unlock, NotifyAll, WInv, HoldersIdle, LMTypeOK
  <2>5. OneKey'
    BY <2>2 DEF WInv, OneKey
  <2>6. AllExclusive'
    BY <1>5, <2>1 DEF Unlock, NotifyAll, WInv, AllExclusive, LMTypeOK, InLock
  <2> QED
    BY <1>5, <2>4, <2>5, <2>6 DEF Unlock, NotifyAll, WInv, NeverDenied, LMTypeOK
<1>6. \A t \in Tx : ~ Deny(t)
  BY NoDenial DEF WInv
<1>7. CASE UNCHANGED lmVars
  <2>1. Goal <=> HoldersIdle /\ OneKey /\ AllExclusive /\ NeverDenied
    BY <1>7 DEF lmVars, HoldersIdle, OneKey, AllExclusive, NeverDenied,
                HoldsNone, Holds, InLock
  <2> QED
    BY <2>1 DEF WInv
<1> QED
  BY <1>1, <1>2, <1>3, <1>4, <1>5, <1>6, <1>7 DEF WriteNext

LEMMA AcyclicStep == WInv /\ [WriteNext]_lmVars => Acyclic'
<1> SUFFICES ASSUME WInv, [WriteNext]_lmVars PROVE Acyclic'
  OBVIOUS
<1>0. LMTypeOK /\ Acyclic /\ HoldersIdle
  BY DEF WInv
<1>1. ASSUME NEW t \in Tx, Sleep(t) PROVE Acyclic'
  <2>1. pc[t] = "trying" /\ waits_for_graph' = WithEdges(t)
    BY <1>1 DEF Sleep
  <2>2. \A C \in SUBSET Tx : ~ EndlessIn(C, WithEdges(t))
    BY <1>0, <2>1, EdgesToHolders
  <2> QED
    BY <2>1, <2>2 DEF Acyclic, EndlessIn
<1>2. ASSUME NEW t \in Tx, Grant(t) PROVE Acyclic'
  <2>1. waits_for_graph' = [waits_for_graph EXCEPT ![t] = {}]
    BY <1>2 DEF Grant
  <2> QED
    BY <1>0, <2>1, FewerEdges
<1>3. \A t \in Tx : ~ Deny(t)
  BY <1>0, NoDenial
<1>4. CASE UNCHANGED waits_for_graph
  BY <1>0, <1>4 DEF Acyclic, EndlessIn
<1> QED
  BY <1>1, <1>2, <1>3, <1>4
     DEF WriteNext, lmVars, EnterWrite, Call, Unlock, SpuriousWakeup

LEMMA WInvStep == WInv /\ [WriteNext]_lmVars => WInv'
<1> SUFFICES ASSUME WInv, [WriteNext]_lmVars PROVE WInv'
  OBVIOUS
<1>1. LMTypeOK' /\ Exclusion'
  BY WriteStepIsStep, TypeStep, ExclusionStep DEF WInv
<1> QED
  BY <1>1, HoldersStep, AcyclicStep DEF WInv

LEMMA WInvariant == WriteSpec => []WInv
  BY WInvInit, WInvStep, PTL DEF WriteSpec

(***************************************************************************)
(* write_version's lock() never fails, however many transactions write     *)
(* however many keys.                                                      *)
(***************************************************************************)
THEOREM WritesNeverDenied == WriteSpec => []NeverDenied
<1>1. WInv => NeverDenied
  BY DEF WInv
<1> QED
  BY <1>1, WInvariant, PTL

----------------------------------------------------------------------------
(***************************************************************************)
(* The mutex: grants acquire, unlocks release, all else stutters.          *)
(***************************************************************************)
LEMMA HolderUnique ==
  ASSUME NEW S, NEW q \in S, \A p \in S : p.tx = q.tx
  PROVE  HolderIn(S) = q.tx
  BY DEF HolderIn

LEMMA HolderOne ==
  ASSUME NEW q
  PROVE  HolderIn({q}) = q.tx
<1> DEFINE S == {q}
<1>1. q \in S /\ \A p \in S : p.tx = q.tx
  OBVIOUS
<1> HIDE DEF S
<1>2. HolderIn(S) = q.tx
  BY <1>1, HolderUnique
<1> QED
  BY <1>2 DEF S

LEMMA MutexStep ==
  WInv /\ [WriteNext]_lmVars =>
      [Mutex!Next]_[r \in Resource |-> HolderIn(lock_table[r])]
<1> DEFINE holder == [r \in Resource |-> HolderIn(lock_table[r])]
<1> SUFFICES ASSUME WInv, [WriteNext]_lmVars PROVE [Mutex!Next]_holder
  OBVIOUS
<1>1. ASSUME NEW t \in Tx, Grant(t) PROVE Mutex!Next
  <2> DEFINE at == request[t].resource
             new == [tx |-> t, mode |-> "EXCLUSIVE"]
  <2>1. /\ at \in Resource
        /\ HoldsNone(t)
        /\ lock_table[at] = {}
        /\ \A r \in Resource : lock_table'[r] =
              IF r = at THEN {new} ELSE lock_table[r]
    BY <1>1, GrantedAlone
  <2>2. ASSUME NEW s \in Resource PROVE HolderIn(lock_table[s]) # t
    BY <2>1, NoTxAssumption DEF HolderIn, HoldsNone, Holds
  <2>3. HolderIn(lock_table[at]) = NoTx
    BY <2>1 DEF HolderIn
  <2>4. HolderIn({new}) = t
    <3>1. new.tx = t
      OBVIOUS
    <3> HIDE DEF new
    <3> QED
      BY <3>1, HolderOne
  <2>5. holder' = [holder EXCEPT ![at] = t]
    BY <2>1, <2>4
  <2>6. Mutex!Acquire(t, at)
    BY <2>1, <2>2, <2>3, <2>5 DEF Mutex!Acquire
  <2> QED
    BY <2>1, <2>6 DEF Mutex!Next
<1>2. ASSUME NEW t \in Tx, NEW r \in Resource, Unlock(t, r)
      PROVE  Mutex!Next
  <2>1. /\ \A q \in lock_table[r] : q.tx = t
        /\ \A s \in Resource : lock_table'[s] =
              IF s = r THEN {} ELSE lock_table[s]
    BY <1>2, UnlockedEmpty
  <2>2. PICK q \in lock_table[r] : q.tx = t
    BY <1>2 DEF Unlock, Holds
  <2>3. HolderIn(lock_table[r]) = t
    BY <2>1, <2>2, HolderUnique
  <2>4. HolderIn({}) = NoTx
    BY DEF HolderIn
  <2>5. holder' = [holder EXCEPT ![r] = NoTx]
    BY <2>1, <2>4
  <2>6. Mutex!Release(t, r)
    BY <2>3, <2>5 DEF Mutex!Release
  <2> QED
    BY <2>6 DEF Mutex!Next
<1>3. CASE UNCHANGED lock_table
  BY <1>3
<1>4. \A t \in Tx : ~ Deny(t)
  BY NoDenial DEF WInv
<1> QED
  BY <1>1, <1>2, <1>3, <1>4
     DEF WriteNext, lmVars, EnterWrite, Call, Sleep, SpuriousWakeup

(***************************************************************************)
(* LockManager, used by write_version, is the mutex per key of MVCCManager *)
(* for any number of writers and keys.                                     *)
(***************************************************************************)
THEOREM ImplementsMutex == WriteSpec => MutexSpec
<1>1. LMInit => Mutex!Init
  BY DEF LMInit, Mutex!Init, HolderIn
<1>2. WInv /\ [WriteNext]_lmVars =>
          [Mutex!Next]_[r \in Resource |-> HolderIn(lock_table[r])]
  BY MutexStep
<1> QED
  BY <1>1, <1>2, WInvariant, PTL DEF WriteSpec, MutexSpec, Mutex!Spec
=============================================================================
