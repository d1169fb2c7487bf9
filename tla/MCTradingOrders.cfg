SPECIFICATION Spec
CONSTANTS
    User = {u1}
    Request = {r1, r2, r3, r4}
    Symbol = {s1}
    Cent = 4
    MaxOrders = 2
    Window = 2
    MaxTime = 2
    Price <- MCPrice
    Quantity <- MCQuantity
    Amount <- MCAmount
    MaxInFlight = 2
    MaxFailedCommits = 1
    MaxRestarts = 1
SYMMETRY RequestSymmetry
INVARIANT TypeOK
INVARIANT BalanceNeverNegative
INVARIANT UndisturbedCashMatchesReplay
INVARIANT SharesMatchReplay
INVARIANT AveragePriceWithinPaid
INVARIANT WindowNeverExceeded
PROPERTY RefusedOnlyWhenFull
CHECK_DEADLOCK FALSE
