SPECIFICATION Spec
CONSTANTS
    FirstYears <- Years
    LastDay = 106751
    BusyDays <- Busy
    MaxDiffs = 2
    Limit = 1
    Severities = {"critical", "noise"}
    Typed <- Asked
INVARIANTS
    TypeOK
    CalendarAgrees
    SinceIsLowerBound
    NothingHidden
CHECK_DEADLOCK FALSE
