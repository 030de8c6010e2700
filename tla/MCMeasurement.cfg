CONSTANTS
    j1 = j1
    w1 = w1
    w2 = w2
    r1 = r1
    None = None
    Job = {j1}
    Worker = {w1}
    Resource = {r1}
    Profile = {}
    DefaultResource = r1
    ReapFresh = TRUE
    Launches = 2
    Workloads = 2
    TimingAsks = 1
    DockerAsks = 2
    Requests = 2
    StreamLimit = 2
    TotalLimit = 3
    MaxBytes = 3
    OperatorWaits = TRUE
    JobSpec <- MCOneAttempt
    Registrations <- MCRegistrations
SPECIFICATION MCSpec
INVARIANTS CleanReportsHold EvidenceRests
PROPERTIES RunsEnd JobReports
CHECK_DEADLOCK FALSE
