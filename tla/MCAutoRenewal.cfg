SPECIFICATION Spec
CONSTANTS
    User = {u1}
    Customer = {c1}
    Sub = {s1}
    MaxChanges = 3
    MaxDeaths = 0
PROPERTY EnabledMeansRenewed
CHECK_DEADLOCK FALSE
