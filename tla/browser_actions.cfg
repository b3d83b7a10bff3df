CONSTANTS
    p1 = p1
    p2 = p2
    p3 = p3
    u1 = u1
    u2 = u2
    go = go
    next = next
    type = type
    wheel = wheel
    bad = bad
    NoPage = NoPage
    Torn = Torn
    Pages <- MCPages
    Urls = {u1, u2}
    Url <- MCUrl
    Actions <- MCActions
    Kind <- MCKind
    Leads <- MCLeads
    Malformed = {bad}
    MaxCalls = 2
    Horizon = 6
SPECIFICATION FairSpec
INVARIANTS
    TypeOK
    OnceUnlessLate
    EvidenceMatches
PROPERTY Returns
