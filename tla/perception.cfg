CONSTANTS
    x = x
    y = y
    button = button
    link = link
    generic = generic
    delete = delete
    delete_user = delete_user
    logout = logout
    NoName = NoName
    NoRole = NoRole
    Role = "guest"
    Names <- MCNames
    Roles <- MCRoles
    Structural = {generic}
    Capabilities = {delete_user, logout}
    Tags = {delete, logout}
    NameSays <- MCSays
    Captures <- MCCaptures
    Answers = {{}, {delete_user}, {logout, y}}
    Forbidden <- MCForbidden
    Required <- MCRequired
SPECIFICATION Spec
INVARIANTS
    TypeOK
    EvidenceKept
    TwinsUnmatched
    SetAlgebra
    ForbiddenStands
    LeavesStand
