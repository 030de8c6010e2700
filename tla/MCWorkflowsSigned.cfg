SPECIFICATION RouterSpec
CONSTANTS
    c1 = c1
    c2 = c2
    Call = {c1, c2}
    MaxCrashes = 1
    MaxRetests = 1
    Candidates = 1
    Probes = 2
    EndpointRuns = 2
    Workflows = {"framework_smoke"}
CHECK_DEADLOCK FALSE
INVARIANT LatestIsSigned
