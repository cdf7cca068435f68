CONSTANTS
  Handlers = {h1, h2}
  Workers = {w1, w2}
  Keys = {k1, k2}
  Requester = k1
  None = None
  MaxRequests = 5
  MaxPulls = 3
SPECIFICATION Spec
INVARIANTS MonitoringVerified RetiredIsSilent PullIsApproved OnePullRequest
CHECK_DEADLOCK FALSE
SYMMETRY ActorSymmetry
