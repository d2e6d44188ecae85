SPECIFICATION Spec
CONSTANTS
    r1 = r1
    r2 = r2
    Requests = {r1, r2}
    Prior <- Chain
    MaxAttempts = 2
    MaxCrashes = 1
    MaxFaults = 0
INVARIANTS
    TypeOK
    AnsweredIsAccountedFor
    NoEarlyGiveUp
    ProgramOrder
PROPERTIES
    KeepsLedger
    QueueDrains
