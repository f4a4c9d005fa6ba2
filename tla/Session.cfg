CONSTANTS
    Requests = {r1, r2}
    Families = {f1, f2}
    Tokens = {t1, t2, t3}
    None = None
    AccessTTL = 2
    Freshness = 1
    MaxTime = 2
SPECIFICATION Spec
SYMMETRY Symmetry
CHECK_DEADLOCK FALSE
INVARIANTS MutationIsProved RevocationBites NoFalseReplay SignOutIsFinal
