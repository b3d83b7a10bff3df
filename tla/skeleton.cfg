CONSTANTS
    p1 = p1
    p2 = p2
    p3 = p3
    p4 = p4
    u1 = u1
    u2 = u2
    u3 = u3
    u4 = u4
    dead = dead
    s1 = s1
    s2 = s2
    s3 = s3
    admin = admin
    logout = logout
    debug = debug
    NoUrl = NoUrl
    NoPage = NoPage
    Placeholder = Placeholder
    Urls = {u1, u2, u3, u4, dead}
    DefaultUrl = u2
    Pages <- MCPages
    Site <- MCSite
    Ids = {s1, s2, s3}
    Fingerprint <- MCFingerprint
    Subjects = {admin, logout, debug}
    Tags <- MCTags
    Role = "guest"
    Forbidden <- MCForbidden
    Required <- MCRequired
SPECIFICATION Spec
INVARIANTS
    TypeOK
    PersistedJoins
    ExitTells
