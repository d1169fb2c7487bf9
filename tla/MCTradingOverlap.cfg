SPECIFICATION Spec
CONSTANTS
    User = {u1}
    Request = {r1, r2, r3}
    Symbol = {s1}
    Cent = 4
    MaxOrders = 2
    Window = 1
    MaxTime = 0
    Price <- MCPrice
    Quantity <- MCQuantity
    Amount <- MCAmount
    MaxInFlight = 2
    MaxFailedCommits = 0
    MaxRestarts = 0
INVARIANT CashMatchesReplay
CHECK_DEADLOCK FALSE
