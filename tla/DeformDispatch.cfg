CONSTANTS
    qa = qa
    qb = qb
    qc = qc
    p1 = p1
    p2 = p2
    p3 = p3
    Queries <- MCQueries
    Descs <- MCDescs
    QueryOf <- MCQueryOf
    OpsOf <- MCOpsOf
    TypeOf <- MCTypeOf
    NattsOf <- MCNattsOf
    AttrsOf <- MCAttrsOf
    Hash <- MCHash
    Ptrs <- MCPtrs
    NoPtr = NoPtr
    FastSize = 2
    CacheSize = 2
    MaxAttrs = 1
    DeformCache = TRUE
    MaxCompiles = 2
    Interpreter = Interpreter

SPECIFICATION Spec
SYMMETRY Symmetry
INVARIANTS
    TypeOK
    CallRunsOwnCode
    FastPathIsExact
    CompiledAgain
CHECK_DEADLOCK FALSE
