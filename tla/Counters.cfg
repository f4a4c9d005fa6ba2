CONSTANTS
    r1 = r1
    r2 = r2
    Requests = {r1, r2, r3}
    Cost = 2
    Burst = 4
    IdleTTL = 4
    FailOpen = FALSE
    MaxTime = 4
    Slots = {r1, r2}
    Window = 2
    Max = 3
    MaxSeconds = 4
    Attempts = {r1, r2, r3, r4}
    MaxFailures = 2
    CounterTTL = 1
    LockTTL = 2
    MaxClock = 3
    Adds = {a1, a2, a3}
    HistoryMax = 2
    MaxResets = 1
SPECIFICATION SharedSpec
SYMMETRY Symmetry
INVARIANTS BurstBounded NoDoubleBurst InvalidAnswersBounded StrikesLock ExactUnlessStale
CHECK_DEADLOCK FALSE
