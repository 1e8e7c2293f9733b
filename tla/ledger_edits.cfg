\* Two requests edit the same line.
SPECIFICATION Spec
CONSTANTS
    Requests = {r1, r2}
    Editors = {r1, r2}
    NoRequest = NoRequest
    Amounts <- MCAmountsPositive
    Dates <- MCDates
    MaxOps <- MCOpsEdits
    MaxFaults = 0
INVARIANTS
    LineInSync
CHECK_DEADLOCK FALSE
