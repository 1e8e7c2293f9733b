\* Five parts, one at a time.
SPECIFICATION Spec
CONSTANTS
    Donors = {d1}
    Ngo = ngo
    Requests = {x1, x2}
    CacheSize = 1
    MaxEdits = 1
    Names = {x1, x2}
    Writers = {w1, w2, w3}
    MaxCategories = 3
    MaxLines = 2
    Lines = {x1, x2}
    Uploads = {y1, y2}
    Deleters = {y1, y2}
    BugReports = {b1}
    MaxTries = 2
    MaxFaults = 1
    Kinds <- MCKinds
    MaxBudgets = 2
    MaxRows = 3
    Amounts = {1, 2}
    Budgets = {w1, w2, w3}
    OldCategories = 2
    OldLines = 4
    Shares = {1, 2, 6}
    Slack = {0, 1}
    Parts = 4
    none = none
SYMMETRY Alike
INVARIANTS
    TypeOK
    FilesAreThere
    FiguresAgree
    MigrationsKeep
PROPERTIES
    LinksHold
    AddsGoThrough
CHECK_DEADLOCK FALSE
