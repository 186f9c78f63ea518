---------------------------- MODULE LockManager ----------------------------
(***************************************************************************)
(* transaction/lock_manager.{h,cpp}: shared and exclusive locks, one       *)
(* condition variable for all waiters, and a waits-for graph searched for  *)
(* a cycle before each wait.                                               *)
(*                                                                         *)
(* Each transaction is driven by one thread.  Every function runs under    *)
(* mutex_, so one action is one critical section; a thread in lock() is    *)
(* "trying" when it is to evaluate the loop condition next and "sleeping"  *)
(* in cv_.wait.  The vector of requests of a resource is a set here: all   *)
(* requests of a transaction are removed together.                         *)
(***************************************************************************)
EXTENDS Naturals, Reachability

CONSTANTS
    Tx,          \* transactions
    Resource,    \* what is locked
    NoRequest    \* t is not in lock()

ASSUME NoRequestAssumption == NoRequest \notin [resource : Resource,
                                               mode : {"SHARED", "EXCLUSIVE"}]

LockMode == {"SHARED", "EXCLUSIVE"}
LockRequest == [tx : Tx, mode : LockMode]
Arguments == [resource : Resource, mode : LockMode]

VARIABLES
    lock_table,       \* granted requests of each resource
    waits_for_graph,  \* successors of each transaction; absent is {}
    pc,               \* where each transaction's thread is
    request           \* arguments of the lock() t is in

lmVars == <<lock_table, waits_for_graph, pc, request>>

(***************************************************************************)
(* Those whose granted requests stand in the way of t's, as has_conflict   *)
(* and the construction of the graph compute them.                         *)
(***************************************************************************)
Conflicting_OwnMode(t) ==
    {q.tx : q \in {p \in lock_table[request[t].resource] :
                      p.tx # t /\ request[t].mode = "EXCLUSIVE"}}

Conflicting(t) ==
    {q.tx : q \in {p \in lock_table[request[t].resource] :
                      /\ p.tx # t
                      /\ "EXCLUSIVE" \in {p.mode, request[t].mode}}}

HasConflict(t) == Conflicting(t) # {}

InLock(t) == pc[t] \in {"trying", "sleeping"}

Holds(t, r) == \E q \in lock_table[r] : q.tx = t

----------------------------------------------------------------------------

LMInit ==
    /\ lock_table = [r \in Resource |-> {}]
    /\ waits_for_graph = [t \in Tx |-> {}]
    /\ pc = [t \in Tx |-> "idle"]
    /\ request = [t \in Tx |-> NoRequest]

Call(t, r, m) ==
    /\ pc[t] = "idle"
    /\ pc' = [pc EXCEPT ![t] = "trying"]
    /\ request' = [request EXCEPT ![t] = [resource |-> r, mode |-> m]]
    /\ UNCHANGED <<lock_table, waits_for_graph>>

(***************************************************************************)
(* The body of the loop: with a conflict, replace t's edges by the present *)
(* holders and search; then wait, or give up.  Reachability states what    *)
(* detect_deadlock decides, and CycleSearch is the search that decides it. *)
(***************************************************************************)
WithEdges_Once(t) ==
    IF waits_for_graph[t] # {} THEN waits_for_graph
    ELSE [waits_for_graph EXCEPT ![t] = Conflicting(t)]

WithEdges(t) == [waits_for_graph EXCEPT ![t] = Conflicting(t)]

Sleep(t) ==
    /\ pc[t] = "trying"
    /\ HasConflict(t)
    /\ ~ DetectDeadlock(t, WithEdges(t))
    /\ waits_for_graph' = WithEdges(t)
    /\ pc' = [pc EXCEPT ![t] = "sleeping"]
    /\ UNCHANGED <<lock_table, request>>

Deny(t) ==
    /\ pc[t] = "trying"
    /\ HasConflict(t)
    /\ DetectDeadlock(t, WithEdges(t))
    /\ waits_for_graph' = [waits_for_graph EXCEPT ![t] = {}]
    /\ pc' = [pc EXCEPT ![t] = "denied"]
    /\ request' = [request EXCEPT ![t] = NoRequest]
    /\ UNCHANGED lock_table

Grant_KeepsEdges(t) ==
    /\ pc[t] = "trying"
    /\ ~ HasConflict(t)
    /\ lock_table' = [lock_table EXCEPT ![request[t].resource] =
                          @ \cup {[tx |-> t, mode |-> request[t].mode]}]
    /\ pc' = [pc EXCEPT ![t] = "idle"]
    /\ request' = [request EXCEPT ![t] = NoRequest]
    /\ UNCHANGED waits_for_graph

Grant_NotRechecked(t) ==
    /\ pc[t] = "trying"
    /\ lock_table' = [lock_table EXCEPT ![request[t].resource] =
                          @ \cup {[tx |-> t, mode |-> request[t].mode]}]
    /\ waits_for_graph' = [waits_for_graph EXCEPT ![t] = {}]
    /\ pc' = [pc EXCEPT ![t] = "idle"]
    /\ request' = [request EXCEPT ![t] = NoRequest]

Grant(t) ==
    /\ pc[t] = "trying"
    /\ ~ HasConflict(t)
    /\ lock_table' = [lock_table EXCEPT ![request[t].resource] =
                          @ \cup {[tx |-> t, mode |-> request[t].mode]}]
    /\ waits_for_graph' = [waits_for_graph EXCEPT ![t] = {}]
    /\ pc' = [pc EXCEPT ![t] = "idle"]
    /\ request' = [request EXCEPT ![t] = NoRequest]

(***************************************************************************)
(* cv_.notify_all, and the wakeups a condition variable makes by itself.   *)
(***************************************************************************)
NotifyAll_One(p) ==
    IF \A t \in Tx : p[t] # "sleeping" THEN p
    ELSE [p EXCEPT ![CHOOSE t \in Tx : p[t] = "sleeping"] = "trying"]

NotifyAll(p) == [t \in Tx |-> IF p[t] = "sleeping" THEN "trying" ELSE p[t]]

SpuriousWakeup(t) ==
    /\ pc[t] = "sleeping"
    /\ pc' = [pc EXCEPT ![t] = "trying"]
    /\ UNCHANGED <<lock_table, waits_for_graph, request>>

Without(t, requests) == {q \in requests : q.tx # t}

Unlock(t, r) ==
    /\ pc[t] = "idle"
    /\ Holds(t, r)
    /\ lock_table' = [lock_table EXCEPT ![r] = Without(t, @)]
    /\ pc' = NotifyAll(pc)
    /\ UNCHANGED <<waits_for_graph, request>>

(***************************************************************************)
(* unlock_all ends every transaction; after a denial it is all a client    *)
(* does (cypher/executor.cpp: each error path aborts and unlocks).  With   *)
(* nothing held it only wakes the sleepers, as SpuriousWakeup does.        *)
(***************************************************************************)
UnlockAll_Waiting(t) ==
    /\ pc[t] # "trying" /\ (pc[t] = "idle" => \E r \in Resource : Holds(t, r))
    /\ lock_table' = [r \in Resource |-> Without(t, lock_table[r])]
    /\ waits_for_graph' = [waits_for_graph EXCEPT ![t] = {}]
    /\ pc' = [NotifyAll(pc) EXCEPT ![t] = "idle"]
    /\ UNCHANGED request

UnlockAll(t) ==
    /\ pc[t] = "denied" \/ (pc[t] = "idle" /\ \E r \in Resource : Holds(t, r))
    /\ lock_table' = [r \in Resource |-> Without(t, lock_table[r])]
    /\ waits_for_graph' = [waits_for_graph EXCEPT ![t] = {}]
    /\ pc' = [NotifyAll(pc) EXCEPT ![t] = "idle"]
    /\ UNCHANGED request

LMNext ==
    \E t \in Tx :
        \/ Sleep(t) \/ Deny(t) \/ Grant(t) \/ SpuriousWakeup(t) \/ UnlockAll(t)
        \/ \E r \in Resource : \/ Unlock(t, r)
                               \/ \E m \in LockMode : Call(t, r, m)

(***************************************************************************)
(* A thread that is awake in lock() goes on, and every transaction comes   *)
(* to its end and calls unlock_all, however many locks it takes before.    *)
(* Nobody is obliged to ask for a lock or to give up a single one.         *)
(***************************************************************************)
LMFairness ==
    \A t \in Tx : /\ WF_lmVars(Sleep(t) \/ Deny(t) \/ Grant(t))
                  /\ SF_lmVars(UnlockAll(t))

LMSpec == LMInit /\ [][LMNext]_lmVars /\ LMFairness

----------------------------------------------------------------------------
(***************************************************************************)
(* Types of the table, the graph and the threads.                          *)
(***************************************************************************)
LMTypeOK ==
    /\ lock_table \in [Resource -> SUBSET LockRequest]
    /\ waits_for_graph \in [Tx -> SUBSET Tx]
    /\ pc \in [Tx -> {"idle", "trying", "sleeping", "denied"}]
    /\ request \in [Tx -> Arguments \cup {NoRequest}]
    /\ \A t \in Tx : InLock(t) <=> request[t] # NoRequest

(***************************************************************************)
(* Who holds a resource exclusively holds it alone, upgrades included: a   *)
(* transaction's own shared lock is no conflict (lock_manager.cpp:12-20).  *)
(***************************************************************************)
Exclusion ==
    \A r \in Resource : \A p, q \in lock_table[r] :
        p.mode = "EXCLUSIVE" => q.tx = p.tx

(***************************************************************************)
(* No wakeup is lost: whoever sleeps in cv_.wait is kept out by a lock     *)
(* somebody holds now, so the release that lets it in is still to come.    *)
(***************************************************************************)
NoLostWakeup == \A t \in Tx : pc[t] = "sleeping" => HasConflict(t)

(***************************************************************************)
(* No deadlock goes unnoticed: there is no group of sleepers all of whose  *)
(* conflicting holders are in the group, though the graph a search sees is *)
(* partly out of date (edges are rebuilt only when their owner wakes, and  *)
(* shared locks are granted past a sleeping exclusive request).            *)
(***************************************************************************)
NoSleepingDeadlock ==
    \A D \in (SUBSET Tx) \ {{}} :
        (\A t \in D : pc[t] = "sleeping") =>
            \E t \in D : ~ Conflicting(t) \subseteq D

(***************************************************************************)
(* A deadlock hidden by a third, still active, holder is broken in the     *)
(* end: no group of transactions waits for itself for ever, whoever else   *)
(* comes and goes (lock_manager.cpp:22-36).                                *)
(***************************************************************************)
Deadlocked(D) ==
    \A t \in D : InLock(t) /\ Conflicting(t) \cap D # {}

DeadlockBroken ==
    \A D \in (SUBSET Tx) \ {{}} : Deadlocked(D) ~> ~ Deadlocked(D)
=============================================================================
