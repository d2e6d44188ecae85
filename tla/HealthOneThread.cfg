SPECIFICATION Spec
CONSTANTS
    Parallel = FALSE
    MaxUptime = 1
    MaxRestarts = 1
    MaxAbandons = 1
    MaxFailures = 1
    MaxCrashes = 1
    MaxFaults = 1
INVARIANTS TypeOK GaugeAgrees
PROPERTIES OnlyResyncRevives NoNeedlessResync DegradedHeals
