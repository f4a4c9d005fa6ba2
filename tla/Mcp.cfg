SPECIFICATION McpSpec
CONSTANTS
    c1 = c1
    c2 = c2
    asha = asha
    ravi = ravi
    l1 = l1
    l2 = l2
    l3 = l3
    t1 = t1
    Nothing = Nothing
    Calls = {c1, c2}
    Phones = {asha, ravi}
    Loans = {l1, l2, l3}
    LoansOf <- MCLoansOf
    Tickets = {t1}
SYMMETRY Symmetry
INVARIANTS LoginIsKept LoanIsOwners
