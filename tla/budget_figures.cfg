\* The owner alone, one request after the other.
SPECIFICATION Spec
CONSTANTS
    Owners = {o}
    Funders = {}
    Creators = {o}
    MaxReports = 1
    Days = {1, 2}
    MaxEdits = 1
PROPERTIES
    ReportedFiguresFrozen
CHECK_DEADLOCK FALSE
