SPECIFICATION MCSpec
CONSTANTS
    l1 = l1  l2 = l2
    r1 = r1  r2 = r2
    i1 = i1  i2 = i2
    p1 = p1  p2 = p2
    a1 = a1  a2 = a2
    c1 = c1  c2 = c2
    Parts = {"authority", "delegation", "account"}
    LeaseId = {l1, l2}
    ReservationId = {r1, r2}
    TTL = 2
    MaxWait = 1
    MaxTime = 4
    MaxLimit = 2
    Stores = {"sqlite", "redis"}
    Invocation = {i1, i2}
    Parent = {p1, p2}
    ParentOf <- MCParentOf
    NumBudgets = 2
    Amount = 1
    Limit = 1
    MaxFaults = 1
    Overlap = FALSE
    Account = {a1, a2}
    ClaimId = {c1, c2}
    HandleLimit = 2
    HandleKinds = {"shared", "local"}
SYMMETRY Symmetry
INVARIANTS
    NeverOversold
    
    
    AccountBooksAgree

    
