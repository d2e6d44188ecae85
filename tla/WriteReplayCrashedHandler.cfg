SPECIFICATION Safety
CONSTANTS
    r1 = r1
    r2 = r2
    Requests = {r1, r2}
    Prior <- Apart
    MaxAttempts = 2
    MaxCrashes = 1
    MaxFaults = 0
INVARIANT ConfirmedIsQueued
