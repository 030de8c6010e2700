\* One review and one promotion are enough to lose an origin.
SPECIFICATION FairReviewSpec
CONSTANTS
  q1 = q1  q2 = q2  i1 = i1  i2 = i2  i3 = i3
  Proposal = {q1, q2}
  Review <- MCReview
  ReviewKey = {i1, i2, i3}
  CandidateKey = {c1}
  Promoter = {m1}
  NoReview = NoReview
  NoCandidate = NoCandidate
CHECK_DEADLOCK FALSE
PROPERTY PromotedHasOrigin
