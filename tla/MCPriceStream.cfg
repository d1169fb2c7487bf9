SPECIFICATION FairSpec
CONSTANTS
    Sid = {c1, c2}
    User = {u1}
    Symbol = {s1, s2}
    MaxSubscribes = 1
    Window = 1
    BackoffTicks = 0
    MaxAwaiting = 1
INVARIANT TypeOK
INVARIANT PolledIffWanted
INVARIANT StoppedMeansUnsubscribed
PROPERTY SubscribedIsFetched
CHECK_DEADLOCK FALSE
