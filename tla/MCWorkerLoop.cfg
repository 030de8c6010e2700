CONSTANTS
    j1 = j1
    w1 = w1
    w2 = w2
    r1 = r1
    None = None
    Job = {j1}
    Worker = {w1, w2}
    Resource = {r1}
    Profile = {}
    DefaultResource = r1
    ReapFresh = TRUE
    Launches = 1
    OperatorWaits = TRUE
    JobSpec <- MCJobSpec
    Registrations <- MCRegistrations
SPECIFICATION WSpec
INVARIANTS DeviceExclusive HandlerExclusive
CHECK_DEADLOCK FALSE
