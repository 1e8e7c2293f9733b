\* Every operation, failures and deaths included, between two requests.
SPECIFICATION Spec
CONSTANTS
    Requests = {r1, r2}
    Editors = {r1, r2}
    NoRequest = NoRequest
    Amounts <- MCAmounts
    Dates = {1}
    MaxOps <- MCOpsAll
    MaxFaults = 1
INVARIANTS
    TypeOK
    NoDoubleSpend
    EveryDrawTraces
PROPERTIES
    AccountsSpec
SYMMETRY Symmetry
CHECK_DEADLOCK FALSE
