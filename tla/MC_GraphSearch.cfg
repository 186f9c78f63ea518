\* All graphs of four transactions and of four nodes, and for MATCH of three
\* nodes and up to three edges.
CONSTANTS
    a = a  b = b  c = c  d = d
    x = x  y = y  z = z  e = e  f = f  g = g
    Tx = {a, b, c, d}
    Node = {a, b, c, d}
    MaxLength = {1, 2, 3}
    StoredNode = {x, y, z}
    StoredEdge = {e, f, g}
    Hops <- MC_Hops
SPECIFICATION Spec
SYMMETRY Symmetry
INVARIANTS SearchIsExact ShortestPathExact PathsWithLengthExact MatchExact
CHECK_DEADLOCK FALSE
