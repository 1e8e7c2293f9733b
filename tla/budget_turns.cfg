\* Two requests at a time: of the owner and the funder, who both create reports, or two
\* of the owner.
SPECIFICATION MCSpec
CONSTANTS
    Owners = {o1, o2}
    Funders = {f}
    Creators = {o1, o2, f}
    MaxReports = 2
    TabWrites = 2
    TabDay = 1
    Days = {1, 2}
    MaxEdits = 1
SYMMETRY Tabs
INVARIANTS
    TypeOK
PROPERTIES
    Workflow
    ReviewsWhatWasRead
    OverlapsAreRaces
    DatesKept
CHECK_DEADLOCK FALSE
