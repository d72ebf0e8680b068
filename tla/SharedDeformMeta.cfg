CONSTANTS
    qa = qa
    qb = qb
    w1 = w1
    w2 = w2
    leader = leader
    p1 = p1
    p2 = p2
    p3 = p3
    p4 = p4
    a1 = a1
    a2 = a2
    a3 = a3
    Queries <- MCQueries
    Workers = {w1}
    Leader = leader
    Descs <- MCDescs
    QueryOf <- MCQueryOf
    ShapeOf <- MCShapeOf
    Ptrs <- MCPtrs
    NoPtr = NoPtr
    Addrs <- MCAddrs
    NoAddr = NoAddr
    NoShape = NoShape
    Unmapped = Unmapped
    Meta = TRUE

SPECIFICATION Spec
SYMMETRY Symmetry
INVARIANT LeaderRunsOwnShape
CHECK_DEADLOCK FALSE
