---------------------------- MODULE BoundedPaths ----------------------------
(***************************************************************************)
(* bfs_paths_with_length of query/executor.cpp, which searches depth       *)
(* first: one step for each neighbour looked at and each call of dfs that  *)
(* returns.                                                                *)
(***************************************************************************)
EXTENDS Paths

CONSTANT MaxLength    \* the lengths asked for, SIZE_MAX not among them

ASSUME MaxLengthAssumption == MaxLength \subseteq Nat

VARIABLES
    max_length,
    path,       \* the path whose last node dfs was called for
    on_path,    \* visited: the nodes of path
    untried,    \* for each node of path, the neighbours not looked at yet
    paths,      \* the paths found
    ended

bpVars == <<query, max_length, path, on_path, untried, paths, ended>>

(***************************************************************************)
(* What a call of dfs finds, and the neighbours it then goes through.      *)
(***************************************************************************)
TooLong_Early(p) == Len(p) > max_length

TooLong(p) == Len(p) > max_length + 1

Arrived(p) == Last(p) = to_node /\ Len(p) > 1

Untried(p) == IF TooLong(p) \/ Arrived(p) THEN {} ELSE adjacent[Last(p)]

BPInit ==
    /\ AnyQuery
    /\ max_length \in MaxLength
    /\ path = <<from_node>> /\ on_path = {from_node}
    /\ untried = <<adjacent[from_node]>>
    /\ paths = <<>> /\ ended = FALSE

Tried(n) == [untried EXCEPT ![Len(untried)] = @ \ {n}]

Dfs(n) ==
    /\ n \notin on_path
    /\ path' = Append(path, n) /\ on_path' = on_path \cup {n}
    /\ untried' = Append(Tried(n), Untried(Append(path, n)))
    /\ paths' = IF ~ TooLong(Append(path, n)) /\ Arrived(Append(path, n))
                THEN Append(paths, Append(path, n)) ELSE paths
    /\ UNCHANGED ended

Skip(n) ==
    /\ n \in on_path
    /\ untried' = Tried(n)
    /\ UNCHANGED <<path, on_path, paths, ended>>

Backtrack ==
    /\ Last(untried) = {} /\ Len(path) > 1
    /\ path' = Front(path) /\ on_path' = on_path \ {Last(path)}
    /\ untried' = Front(untried)
    /\ UNCHANGED <<paths, ended>>

End ==
    /\ Last(untried) = {} /\ Len(path) = 1
    /\ ended' = TRUE
    /\ UNCHANGED <<path, on_path, untried, paths>>

BPNext ==
    /\ ~ ended
    /\ Backtrack \/ End \/ \E n \in Last(untried) : Dfs(n) \/ Skip(n)
    /\ UNCHANGED <<query, max_length>>

BPSpec == BPInit /\ [][BPNext]_bpVars

----------------------------------------------------------------------------
(***************************************************************************)
(* Every path from from_node to to_node of at most max_length edges that   *)
(* repeats no node is returned, once, and nothing else is                  *)
(* (executor.cpp:448-484).                                                 *)
(***************************************************************************)
PathsWithLengthExact ==
    ended => IsInjective(paths) /\ ToSet(paths) = SimplePaths(max_length)
=============================================================================
