CONSTANTS
    Rows = {a1, a2, a3}
    Emails = {root, other}
    SeedEmail = root
    Boots = {b1, b2}
    Requests = {r1, r2, r3}
    NoRow = NoRow
    NoRequest = NoRequest
SPECIFICATION Spec
SYMMETRY Symmetry
INVARIANT SuperRemains
CHECK_DEADLOCK FALSE
