CONSTANTS
    q1 = q1
    q2 = q2
    e1 = e1
    e2 = e2
    e3 = e3
    Queries = {q1, q2}
    Exprs = {e1, e2, e3}
    QueryOf <- MCQueryOf
    Contexts = {c1, c2}
    Codes = {h1, h2, h3}
    Searching = {e1}
    Samples = 2
    MaxFrames = 3
    MaxSubs = 2
    Providers = {"sljit", "mir", "meta"}
    None = None
SPECIFICATION Spec
SYMMETRY Symmetry
INVARIANTS
    TypeOK
    RunsLiveCode
    WrapperIsLive
    CodeIsOwned
    OwnersAgree
    NotRefused
    MirCurrentIsOwn
    CountedOnce
CHECK_DEADLOCK FALSE
