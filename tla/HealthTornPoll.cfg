SPECIFICATION Safety
CONSTANTS
    Parallel = TRUE
    MaxUptime = 1
    MaxRestarts = 0
    MaxAbandons = 1
    MaxFailures = 0
    MaxCrashes = 0
    MaxFaults = 0
PROPERTY OnlyResyncRevives
