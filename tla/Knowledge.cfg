CONSTANTS
    Requests = {r1, r2}
    q1 = q1
    q2 = q2
    a1 = a1
    a2 = a2
    Keys = {q1, q2}
    Answers = {a1, a2}
    Ids = {i1, i2, i3}
    Batches <- AllBatches
    Backend = "milvus"
    None = None
    Bundles = {b1, b2}
    Texts = {x1, x2}
    OneEach = FALSE
    MaxEntries = 5
    MaxKept = 2
    ReadCount = 2
    OnlyNew = OnlyNew
SPECIFICATION SearchSpec
SYMMETRY Symmetry
INVARIANTS IndexIsTable SyncedIsIndexed IndexFollowsRow FeedHasNoGaps
