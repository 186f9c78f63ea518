CONSTANTS
    MaxNode = 3
    MaxEdge = 2
    Value = {u, v}
    Lacking = Lacking
    Absent = Absent
    Created = {u, Lacking}
    Pairs <- MC_Pairs
    DeleteLists <- MC_DeleteLists
    CountLimit = 8
SPECIFICATION Spec
INVARIANTS FindNodesRight DeleteSweeps
CHECK_DEADLOCK FALSE
