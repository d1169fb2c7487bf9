SPECIFICATION Spec
CONSTANTS
    User = {u1, u2}
    Request = {r1, r2, r3, r4}
    Symbol = {s1}
    Cent = 4
    MaxOrders = 2
    Window = 1
    MaxTime = 0
    Price <- MCPrice
    Quantity <- MCQuantity
    Amount <- MCAmount
    MaxInFlight = 1
    MaxFailedCommits = 0
    MaxRestarts = 1
SYMMETRY RequestSymmetry
PROPERTY ImplementsBrokerage
CHECK_DEADLOCK FALSE
