SPECIFICATION SystemSpec
CONSTANTS
    r1 = r1
    r2 = r2
    q1 = q1
    Requests = {r1, r2}
    Prior <- Chain
    Needs <- Chain
    Reads = {q1}
    MaxAttempts = 1
    MaxCrashes = 1
    MaxFaults = 1
    MaxMishaps = 1
INVARIANTS
    DataTypeOK
    NothingMissing
    MissingIsExplained
    SameWhenSettled
    NoAlarmWhenQuiet
    GivesUpOnlyRefused
    DataSurvives
PROPERTY CatchesUp
