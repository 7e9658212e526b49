SPECIFICATION MCSpec
CONSTANTS
    ka = ka  kb = kb  kc = kc  None = None
    t1 = t1  t2 = t2  t3 = t3
    n1 = n1  n2 = n2
    h1 = h1  h2 = h2
    x = x  y = y
    Parts = {"project", "ledger", "case"}
    Case = {ka, kb, kc}
    ArtifactOf <- Distinct
    Plans <- MCPlans
    MaxRuns = 2
    MaxWorkers = 2
    Attempt = {t1, t2, t3}
    LeaseOf <- MCLeaseOf
    ArtifactName = {n1, n2}
    Publishes <- MCPublishes
    Overtake = FALSE
    Thread = {h1, h2}
    Artifact = {x, y}
    MaxTx = 2
    Joined = TRUE
SYMMETRY Symmetry
INVARIANTS
    CasesRunOnBackedInputs
    FinishedResumable
    SealedIsBacked
    
    
CHECK_DEADLOCK FALSE
