CONSTANTS
    p1 = p1
    p2 = p2
    p3 = p3
    p4 = p4
    gone = gone
    a = a
    b = b
    u = u
    NoPage = NoPage
    Pages <- MCPages
    Actions <- MCActions
    Unsafe = {u}
    Seed = p1
    Apps <- MCApps
    Mutable = FALSE
    Flaky = {}
    Bad = {p2}
    OldNodes <- NoNodes
    OldVisited = {}
    DepthLimit = 2
    MaxStates = 5
    Recoveries = {"restart", "resume"}
    MaxCrashes = 2
SPECIFICATION RecoverySpec
INVARIANTS
    RestartCannotRefire
    OneGapPerCrash
    DanglingPerCrash
    ResumeExact
PROPERTY RecoveryTerminates
