SPECIFICATION MCSpec
CONSTANTS
    c1 = c1
    c2 = c2
    Call = {c1, c2}
    MaxCrashes = 1
    MaxRetests = 1
    Candidates = 2
    Probes = 2
    EndpointRuns = 2
    Workflows = {"framework_smoke", "manual_candidate", "optimization", "stage0",
                 "endpoint_validation"}
    k1 = k1
    k2 = k2
    Clerk = {c1, c2}
    StartKey = {k1, k2}
    LastMoment = 2
    PreviewEnds = 2
    Validity <- MCValidity
    NoIntent = NoIntent
    NoTime = NoTime
SYMMETRY AnyCallOrKey
CHECK_DEADLOCK FALSE
INVARIANTS
    EvidenceInTime
    TaskAndCandidateAgree
    BarrierHolds
    DecidedByOne
    CampaignBacked
    StartVerdictStands
PROPERTIES
    DecisionsAreFinal
    StartEndsForGood
