CONSTANTS
    Families = {f1}
    Tokens = {t1, t2, t3}
    Requests = {r1, r2, r3}
    NoToken = NoToken
    NoFamily = NoFamily
    RefreshTTL = 2
    MaxTime = 3
SPECIFICATION FairSpec
INVARIANTS SingleUse ReuseClosesFamily
PROPERTIES ImplementsTokenFamily ReuseEventuallyCloses
CHECK_DEADLOCK FALSE
