\* Four parts, one at a time.
SPECIFICATION Spec
CONSTANTS
    MaxCategories = 1
    MaxLines = 2
    MaxExpenses = 2
    Prices = {4, 8}
    Rates = {0, 2}
    Amounts <- MCAmounts
    Fundings <- MCFundings
    Allocations <- MCAllocations
    Uploads = {y1, y2}
    Savers = {z1, z2}
    Sheets <- MCSheets
    MaxRows = 2
    MaxColumns = 2
    MaxCells = 3
    MaxMembers = 2
    MaxMember = 3
    MaxTotal = 4
    MaxRatio = 2
    RatioThreshold = 1
    Members <- MCMembers
    Elements <- MCElements
    MaxElements = 3
    Groups = {x1, x2, x3}
    Trees = {main, b}
    main = main
    MaxIssues = 3
    MaxFaults = 1
    MaxEdits = 2
    none = none
SYMMETRY Alike
INVARIANTS
    TypeOK
    TotalsAddUp
    ReplayAgrees
    ReadIsBounded
    Tracked
CHECK_DEADLOCK FALSE
