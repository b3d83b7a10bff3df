CONSTANTS
    p1 = p1
    p2 = p2
    p3 = p3
    p4 = p4
    p5 = p5
    gone = gone
    a = a
    b = b
    u = u
    NoPage = NoPage
    Pages <- MCPages
    Actions <- MCActions
    Unsafe = {u}
    Seed = p1
    Apps <- Versions
    Mutable = TRUE
    Flaky = {"open", "act", "perception", "store"}
    Bad = {p2, p3}
    OldNodes <- EarlierNodes
    OldVisited <- EarlierVisited
    DepthLimit = 3
    MaxStates = 4
SPECIFICATION Spec
INVARIANTS
    TypeOK
    StateCap
    PairsOnce
    ClaimedOnce
    NoSilentDrops
    OrderFollowsEdges
    EdgeEndpoints
    AuditOncePerState
    BreadthFirst
    TruthfulWhileLocated
