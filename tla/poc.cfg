CONSTANTS
    p1 = p1
    p2 = p2
    p3 = p3
    gone = gone
    a = a
    b = b
    u = u
    NoPage = NoPage
    Pages <- MCPages
    Actions <- MCActions
    Unsafe = {u}
    Seed = p1
    Apps <- MCApps
    Mutable = FALSE
    Flaky = {"open", "act", "perception", "store"}
    Bad = {p2}
    OldNodes <- NoNodes
    OldVisited = {}
    DepthLimit = 3
    MaxStates = 1
    IterationLimits = {0, 2, 8}
SPECIFICATION Spec
INVARIANTS
    TypeOK
    ActsBounded
    EdgesAreFirings
    IterationsExact
