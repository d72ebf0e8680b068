CONSTANTS
    qa = qa
    qb = qb
    w1 = w1
    w2 = w2
    leader = leader
    Queries = {qa}
    Workers <- MCWorkers
    PlanNodes = {1, 2}
    Fingerprints = {"A", "B", "C", "N"}
    Outer = "outer"
    WContexts = {"outer"}
    h1 = h1
    h2 = h2
    Handles = {h1}
    NoHandle = NoHandle
    Capacity = 5
    Header = 1
    Plan <- OnePlan
    Early <- OneEarly
    WPlan <- OneWPlan
    NoTable <- MCNoTable
    Leader = leader
    DebugLogged = TRUE
    Interp = "interp"
    Partial = "partial"

SPECIFICATION Spec
INVARIANT LockHasOneHolder
CHECK_DEADLOCK FALSE
