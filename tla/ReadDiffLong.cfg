SPECIFICATION Safety
CONSTANTS
    r1 = r1
    r2 = r2
    Reads = {r1, r2}
    PathOf <- TwoReads
    Responses <- LongAnswers
    Notifiers = {log, webhook}
    MaxFlips = 0
    MaxCrashes = 0
    MaxFaults = 0
INVARIANT EveryDivergenceRecorded
CHECK_DEADLOCK FALSE
