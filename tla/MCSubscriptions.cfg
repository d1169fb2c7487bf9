SPECIFICATION BillingSpec
CONSTANTS
    User = {u1}
    Customer = {c1, c2}
    Sub = {s1}
    MaxChanges = 4
    MaxDeaths = 1
    Invoice = {i1, i2}
    Product = {q1}
    Period = {1, 2}
    PageSize = 2
    MaxOffers = 1
    MaxCharges = 3
    MaxMishaps = 1
SYMMETRY BillingSymmetry
INVARIANT BillingTypeOK
INVARIANT RowsAgreeWhenQuiet
INVARIANT BillingAgreesWhenQuiet
INVARIANT RevenueIsCharged
PROPERTY CanceledStaysCanceled
CHECK_DEADLOCK FALSE
