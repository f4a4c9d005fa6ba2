CONSTANTS
    Turns = {t1, t2}
    Tools = {otp, look}
    SideEffect = {otp}
    Ghost = ghost
    MaxIterations = 2
    MaxCalls = 1
    None = None
    Hops = 1
    CallsAHop = 2
    Queries = {q1, q2}
    ToolLists = {a, b}
    CacheSize = 1
SPECIFICATION ChatSpec
CHECK_DEADLOCK FALSE
INVARIANTS SideEffectsRunOnce TranscriptIsClosed OneBubblePerTurn BanksAreWhole
PROPERTY TurnEnds
