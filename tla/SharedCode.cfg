CONSTANTS
    qa = qa
    qb = qb
    w1 = w1
    w2 = w2
    leader = leader
    Queries <- MCQueries
    Workers <- MCWorkers
    PlanNodes = {1, 2}
    Fingerprints = {"A", "B", "C", "N"}
    Outer = "outer"
    WContexts <- MCWContexts
    h1 = h1
    h2 = h2
    Handles <- MCHandles
    NoHandle = NoHandle
    Capacity = 5
    Header = 1
    Plan <- MCPlan
    Early <- MCEarly
    WPlan <- MCWPlan
    NoTable <- MCNoTable
    Leader = leader
    DebugLogged = FALSE
    Interp = "interp"
    Partial = "partial"

SPECIFICATION Spec
SYMMETRY Symmetry
INVARIANTS
    TypeOK
    LockHasOneHolder
    LookupSeesCompleteEntries
    NoOverlap
    UsedIsSum
    InstalledIsOwn
    SlotIsOwned
    MappingsAreOwned
PROPERTIES
    PublishedIsStable
CHECK_DEADLOCK FALSE
