CONSTANTS
    Requests = {r1, r2}
    q1 = q1
    q2 = q2
    a1 = a1
    a2 = a2
    Keys = {q1, q2}
    Answers = {a1, a2}
    Ids = {i1, i2, i3}
    Batches <- AllBatches
    Backend = "pgvector"
    None = None
SPECIFICATION Spec
SYMMETRY Symmetry
INVARIANTS DeletedIsGone
