CONSTANTS
    p1 = p1
    p2 = p2
    p3 = p3
    p4 = p4
    p5 = p5
    gone = gone
    a = a
    b = b
    u = u
    NoPage = NoPage
    Pages <- MCPages
    Actions <- WideActions
    Unsafe = {}
    Seed = p1
    Apps <- WideApps
    Mutable = FALSE
    Flaky = {}
    Bad = {p2}
    OldNodes <- NoNodes
    OldVisited = {}
    DepthLimit = 3
    MaxStates = 2
SPECIFICATION Spec
INVARIANT BackstopNeverFires
