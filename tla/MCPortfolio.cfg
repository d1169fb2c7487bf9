SPECIFICATION MCSpec
CONSTANTS
    User = {u1}
    Amount = 2
    ReadLimit = 2
    RowLimit = 2
    MaxDay = 4
    MaxTrades = 3
    MaxDeposits = 2
    MaxWaiting = 2
    MaxCrashes = 1
    Watchlist = {w1, w2}
    Name = {"", "tech"}
    Symbol = {s1, s2}
    Blank = ""
    MaxAdding = 2
INVARIANT MCTypeOK
INVARIANT OneSnapshotPerDay
INVARIANT HistoryIsRight
INVARIANT PeriodPnlIsGain
INVARIANT BoardShowsLastTrade
INVARIANT WatchlistsAreSets
CHECK_DEADLOCK FALSE
