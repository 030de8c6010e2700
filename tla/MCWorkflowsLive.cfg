SPECIFICATION ServedSpec
CONSTANTS
    c1 = c1
    c2 = c2
    Call = {c1, c2}
    MaxCrashes = 1
    MaxRetests = 1
    Candidates = 1
    Probes = 2
    EndpointRuns = 2
    Workflows = {"framework_smoke", "manual_candidate", "optimization", "stage0",
                 "endpoint_validation"}
CHECK_DEADLOCK FALSE
PROPERTIES
    ReconciledMostly
