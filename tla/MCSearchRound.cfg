SPECIFICATION Spec
CHECK_DEADLOCK FALSE
CONSTANTS
    Declared = 2
    MaxPromoted = 1
    MaxAttempts = 2
    Budget = 2
    MaxActual = 2
    c1 = c1  c2 = c2  c3 = c3
    r1 = r1  r2 = r2
    j1 = j1
    Candidate = {c1, c2, c3}
    Reservation = {r1, r2}
    Job = {j1}
    None = None
SYMMETRY Symmetry
INVARIANT AuthorityAgrees
INVARIANT NextActionPossible
INVARIANT FamiliesFrozen
INVARIANT EvidenceCoversLedger
INVARIANT BudgetOverrunOnlyInUse
PROPERTY OverForGood
