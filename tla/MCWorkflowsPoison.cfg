SPECIFICATION RouterFairSpec
CONSTANTS
    c1 = c1
    c2 = c2
    Call = {c1, c2}
    MaxCrashes = 0
    MaxRetests = 0
    Candidates = 1
    Probes = 2
    EndpointRuns = 2
    Workflows = {"stage0"}
CHECK_DEADLOCK FALSE
PROPERTY Reconciled
