SPECIFICATION Safety
CONSTANTS
    w1 = w1
    Writes = {w1}
    PathOf <- Tweets
    Findings <- TwoFindings
    Windows <- NowAndBefore
    Day = 2
    Top = 1
    MaxClock = 2
    MaxDiffs = 2
    MaxTorn = 1
INVARIANTS
    TypeOK
    RatesAreFractions
    HidesNoDivergence
    BarsMatchCard
    LinkMatchesChart
