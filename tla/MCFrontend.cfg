SPECIFICATION MCSpec
CONSTANTS
    t1 = t1
    t2 = t2
    p1 = p1
    p2 = p2
    n1 = n1
    n2 = n2
    Tabs <- MCTabs
    Uses <- MCUses
    Edits = {8, 9}
    Limits = {1, 2}
    MaxFiles = 2
    MaxJobs = 2
    MaxIds = 2
    Idle = Idle
    NoTab = NoTab
    NoRow = NoRow
    Browsers = {b1, b2}
    Passwords <- MCPasswords
    MaxVersion = 4
    NoCall = NoCall
    Names <- MCNames
    Pages = {w1, w2}
    MaxId = 2
    MaxKey = 3
    NoPage = NoPage
    Parts = {"reports", "sessions", "keys", "owners"}
INVARIANTS
    ReportIsOfResult
    SavedUnderItsFile
    RevokedStaysOut
    FrontendKeepsAccess
    OwnersExist
PROPERTIES
    WithinLimit
    NoEditLost
    PollingEnds
