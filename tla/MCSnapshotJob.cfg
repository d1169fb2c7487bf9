SPECIFICATION JobSpec
CONSTANTS
    User = {u1, u2}
    Amount = 1
    ReadLimit = 2
    RowLimit = 2
    MaxDay = 1
    MaxTrades = 2
    MaxDeposits = 1
    MaxWaiting = 1
    MaxCrashes = 0
PROPERTY JobReachesEverybody
CHECK_DEADLOCK FALSE
