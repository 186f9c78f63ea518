---------------------------- MODULE CycleSearch ----------------------------
(***************************************************************************)
(* detect_deadlock and has_cycle of transaction/lock_manager.cpp as the    *)
(* code runs them: one depth-first search that shares visited between its  *)
(* branches and keeps the transactions of the current branch marked in     *)
(* recursion_stack.  LockManager states what the search decides; here is   *)
(* the search, on any graph, from any transaction, with the successors of  *)
(* each in any order.                                                      *)
(*                                                                         *)
(* lock() has entered start into the graph and has_cycle enters v by       *)
(* reading visited[v], so "Not in graph" never happens.                    *)
(***************************************************************************)
EXTENDS Naturals, Sequences, Reachability

CONSTANT Tx

VARIABLES
    waits_for,        \* the graph; mutex_ keeps it as it is
    start,            \* start_tx
    calls,            \* has_cycle's calls, the innermost last: u and
                      \* those of its successors not looked at yet
    visited, recursion_stack,   \* the transactions marked in each
    answer            \* what detect_deadlock returns

csVars == <<waits_for, start, calls, visited, recursion_stack, answer>>

Called(u) == [u |-> u, todo |-> waits_for[u]]

CSInit ==
    /\ waits_for \in [Tx -> SUBSET Tx]
    /\ start \in Tx
    /\ calls = <<Called(start)>>
    /\ visited = {start} /\ recursion_stack = {start}
    /\ answer = "pending"

Top == calls[Len(calls)]

LookedAt(v) == [calls EXCEPT ![Len(calls)].todo = @ \ {v}]

Enter(v) ==
    /\ v \notin visited
    /\ calls' = Append(LookedAt(v), Called(v))
    /\ visited' = visited \cup {v}
    /\ recursion_stack' = recursion_stack \cup {v}
    /\ UNCHANGED answer

PassOver(v) ==
    /\ v \in visited \ recursion_stack
    /\ calls' = LookedAt(v)
    /\ UNCHANGED <<visited, recursion_stack, answer>>

\* A visited transaction that is not on the branch closes no cycle.
CloseCycle_AnyVisited(v) ==
    /\ v \in visited
    /\ answer' = "cycle"
    /\ UNCHANGED <<calls, visited, recursion_stack>>

\* Every call returns true then, and touches nothing any more.
CloseCycle(v) ==
    /\ v \in visited \cap recursion_stack
    /\ answer' = "cycle"
    /\ UNCHANGED <<calls, visited, recursion_stack>>

Leave ==
    /\ Top.todo = {}
    /\ recursion_stack' = recursion_stack \ {Top.u}
    /\ calls' = SubSeq(calls, 1, Len(calls) - 1)
    /\ answer' = IF Len(calls) = 1 THEN "acyclic" ELSE answer
    /\ UNCHANGED visited

CSNext ==
    /\ answer = "pending"
    /\ Leave \/ \E v \in Top.todo : Enter(v) \/ PassOver(v) \/ CloseCycle(v)
    /\ UNCHANGED <<waits_for, start>>

CSSpec == CSInit /\ [][CSNext]_csVars

----------------------------------------------------------------------------
(***************************************************************************)
(* The search answers whether a cycle can be reached from its start,       *)
(* though its branches never enter a transaction twice and it gives up the *)
(* marks of a branch it leaves: what LockManager takes detect_deadlock to  *)
(* decide (lock_manager.cpp:73-103).                                       *)
(***************************************************************************)
SearchIsExact ==
    answer # "pending" =>
        (answer = "cycle" <=> DetectDeadlock(start, waits_for))
=============================================================================
