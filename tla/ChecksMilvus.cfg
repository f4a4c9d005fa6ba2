CONSTANTS
    Requests = {r1, r2}
    p1 = p1
    p2 = p2
    p3 = p3
    Prompts = {p1, p2, p3}
    Risky = {p2}
    Near <- MCNear
    Unlike <- MCUnlike
    N = 2
    MaxClaims = 2
    Backend = "milvus"
    None = None
    Addresses = {a1, a2}
    RetryAttempts = 2
    NegativeTTL = 2
    CleanupEvery = 2
    MaxTicks = 4
    MaxVisits = 3
    Located = {p, q}
    Hidden = {h}
    Devices = {d1, d2}
    Underway = 2
    IpWindow = 1
    IpThreshold = 1
    TravelTime = 1
    MaxHours = 2
    Turns = {t1}
    MaxEpoch = 2
    ServerKeys = {"groq", "openrouter"}
    ServerKey = ServerKey
SPECIFICATION ChecksSpec
SYMMETRY Symmetry
INVARIANTS DecisionIsJudged
CHECK_DEADLOCK FALSE
