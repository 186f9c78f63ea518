CONSTANTS
    Thread = {t1, t2}
    MaxNode = 2
    MaxEdge = 1
    Value = {1}
    CountLimit = 4
    MaxPage = 4
    Leftover <- MC_Leftover
    AfterRace = FALSE
SPECIFICATION GSSpec
SYMMETRY Symmetry
VIEW View
INVARIANTS GSTypeOK PagesNotShared RecordsMatchKeys AdjacencyMatches CountersMatch
PROPERTIES NoDanglingDelete
CHECK_DEADLOCK FALSE
