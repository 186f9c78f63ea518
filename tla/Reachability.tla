---------------------------- MODULE Reachability ----------------------------
(***************************************************************************)
(* What searches of a directed graph are to find, stated without a search. *)
(* graph[v] is the set of v's successors.                                  *)
(***************************************************************************)

ReachableFrom(v, graph) ==
    {u \in DOMAIN graph : \A S \in SUBSET DOMAIN graph :
        v \in S /\ (\A s \in S : graph[s] \subseteq S) => u \in S}

(***************************************************************************)
(* A set whose members all have a successor in it: a finite one holds a    *)
(* cycle, which detect_deadlock is to find if its start leads there.       *)
(***************************************************************************)
EndlessIn(C, graph) == C # {} /\ \A c \in C : graph[c] \cap C # {}

DetectDeadlock(v, graph) ==
    \E C \in SUBSET ReachableFrom(v, graph) : EndlessIn(C, graph)
=============================================================================
