CONSTANTS
    p1 = p1
    p2 = p2
    p3 = p3
    p4 = p4
    p5 = p5
    gone = gone
    a = a
    b = b
    u = u
    NoPage = NoPage
    Pages <- MCPages
    Actions <- AnyActions
    Unsafe = {u}
    Seed = p1
    Apps <- AnyApps
    Mutable = FALSE
    Flaky = {}
    Bad = {p2}
    OldNodes <- NoNodes
    OldVisited = {}
    DepthLimit = 2
    MaxStates = 4
SPECIFICATION FairSpec
INVARIANTS
    ExhaustedIsComplete
    BackstopNeedsFanOut
PROPERTY Terminates
