SPECIFICATION Spec
CONSTANTS
    r1 = r1
    r2 = r2
    Requests = {r1}
    Prior <- Alone
    MaxAttempts = 3
    MaxCrashes = 2
    MaxFaults = 1
INVARIANTS
    AnsweredIsAccountedFor
    BoundedSends
    DuplicatesExplained
    RecordsExplained
    GivingUpIsFlagged
