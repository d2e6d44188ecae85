SPECIFICATION Spec
CONSTANTS
    r1 = r1
    r2 = r2
    Reads = {r1, r2}
    PathOf <- TwoReads
    Responses <- LongAnswers
    Notifiers = {log, webhook}
    MaxFlips = 1
    MaxCrashes = 1
    MaxFaults = 1
INVARIANTS
    TypeOK
    AlertNamesItsRow
    AlertsAtMostOnce
    CounterCoversRows
    PausedWhileDegraded
    NeitherSideFavoured
PROPERTY
    EveryNotifierTried
CHECK_DEADLOCK FALSE
