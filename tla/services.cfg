\* Five parts, one at a time; each with requests that overlap and at most one fault.
SPECIFICATION Spec
CONSTANTS
    People = {p, q}
    Addresses = {a, b}
    NoAddress = none
    Tombstone = gone
    Invited = {p}
    AskAgain = {q}
    Workers = {y1, y2}
    MaxRequests = 5
    MaxTokens = 3
    Tries = {y1, y2}
    Emails = {e1, e2}
    Ips = {i1, i2}
    Attempts = 2
    Turns = {x1, x2, x3}
    Threads = {y1, y2}
    Companies = {z1, z2}
    HistoryLimit = 2
    Configs = {k1, k2, k3}
    Unapproved = {k3}
    Writers = {x1, x2, x3}
    Calls = {c1}
    platform = platform
    Pages = {g1}
    Guides = {g2}
    Versions = {z1, z2}
    Questions = {y1, y2}
    Visitors = {v1}
    VisitorCap = 2
    GlobalCap = 1
    MaxFaults = 1
    none = none
SYMMETRY Alike
INVARIANTS
    TypeOK
    LinksProve
    LockoutsHold
    TurnsAreRecorded
    AtMostOneDefault
    PromptsGoWhereAllowed
    AnswersAreOfTheRelease
PROPERTIES
    DefaultTakesEffect
CHECK_DEADLOCK FALSE
