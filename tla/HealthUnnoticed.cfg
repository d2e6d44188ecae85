SPECIFICATION Safety
CONSTANTS
    Parallel = FALSE
    MaxUptime = 1
    MaxRestarts = 1
    MaxAbandons = 1
    MaxFailures = 0
    MaxCrashes = 0
    MaxFaults = 0
PROPERTY RegressionNoticed
