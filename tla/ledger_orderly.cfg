\* New lines, edits by one request, conversions; one of them may fail or die.
SPECIFICATION FairSpec
CONSTANTS
    Requests = {r1, r2}
    Editors = {r1}
    NoRequest = NoRequest
    Amounts <- MCAmountsPositive
    Dates <- MCDates
    MaxOps <- MCOpsOrderly
    MaxFaults = 1
INVARIANTS
    LineInSync
    NoIdleFunds
PROPERTIES
    OldestFirst
    RequestsEnd
CHECK_DEADLOCK FALSE
