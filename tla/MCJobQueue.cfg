CONSTANTS
    g1 = g1
    g2 = g2
    n1 = n1
    w1 = w1
    r1 = r1
    r2 = r2
    p = p
    None = None
    Job = {g1, g2, n1}
    Worker = {w1}
    Resource = {r1, r2}
    Profile = {p}
    DefaultResource = r2
    ReapFresh = FALSE
    JobSpec <- MCJobSpec
    Registrations <- MCRegistrations
    s1 = s1
    s2 = s2
    a1 = a1
    a2 = a2
    m1 = m1
    m2 = m2
    PhaseRun = {s1, s2}
    Agent = {a1, a2}
    Measured = {m1, m2}
    PhasePlan = {"m", "n"}
    NoRun = NoRun
    NoMeasurement = NoMeasurement
    FirstTokens = {43, 44, 45}
    LastToken = 50
SPECIFICATION MCSpec
SYMMETRY Symmetry
INVARIANTS TypeOK LeaseOwnership SoleAuthority CleanHandover
    PhaseAccounted RetriesAccounted
PROPERTIES ImplementsFencedLease ImplementsJobLifecycle
CHECK_DEADLOCK FALSE
