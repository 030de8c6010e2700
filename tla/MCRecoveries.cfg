SPECIFICATION Spec
CONSTANTS
  Plans <- MCPlans
  Outcomes <- MCOutcomes
  MaxGenerators = 2
  MaxAttempts = 3
  Dispatchers = {d1, d2}
  NoAttempt = NoAttempt
  Sessions = {s1, s2}
  Recoveries = {r1, r2}
  Nobody = Nobody
  x1 = x1  x2 = x2  x3 = x3
  Declared = 2
  Candidate = {x1, x2, x3}
  Plan <- MCPlan
  Reconciler = {p1, p2}
  None = None
  Publisher = {b1, b2}
  Key = {k1, k2}
  Finalist = {f1, f2}
  Charge = {h1, h2}
  Nothing = Nothing
  q1 = q1  q2 = q2  i1 = i1  i2 = i2  i3 = i3
  Proposal = {q1, q2}
  Review <- MCReview
  ReviewKey = {i1, i2, i3}
  CandidateKey = {c1, c2}
  Promoter = {m1, m2}
  NoReview = NoReview
  NoCandidate = NoCandidate
\* A decided run, a device whose sessions are over, a start that has ended,
\* a candidate and a round that are signed do nothing more.
CHECK_DEADLOCK FALSE
INVARIANTS
  AttemptsAccounted FamilyDecided
  ReviewsTraced
  DeviceAccounted TakenOverOnce
  StartKeepsItsWord SignoffAudited FormalEvidenceStands
PROPERTIES
  DecidedForGood RunIsDecided SettledByItsClaimant
