SPECIFICATION SystemSafety
CONSTANTS
    r1 = r1
    r2 = r2
    q1 = q1
    Requests = {r1, r2}
    Prior <- Chain
    Needs <- TooEarly
    Reads = {q1}
    MaxAttempts = 2
    MaxCrashes = 0
    MaxFaults = 0
    MaxMishaps = 0
INVARIANT NoAlarmWhenQuiet
