\* The parts of the control plane, one at a time.
SPECIFICATION ControlSpec
CONSTANTS
  k1 = k1
  k2 = k2
  job1 = job1
  job2 = job2
  d1 = d1
  d2 = d2
  \* Coverage
  Surfaces <- MCSurfaces
  Estates <- MCEstates
  CovCallers = {k1, job1, job2}
  CovKeys = {k1}
  Tolerances = {20}
  MaxRecommendations = 1
  CovNone = CovNone
  MaxSnapshots = 2
  MaxStamp = 3
  MaxEstates = 1
  MaxPolicies = 1
  \* Judge sandbox
  Sandboxes = {s1}
  JudgeRequests = {q1, q2}
  JudgeLimit <- MCLimit
  JudgeNone = JudgeNone
  MaxResets = 1
  \* API keys
  KeyIds = {k1, k2}
  Monitors = {m1}
  AdminCalls = {q1, q2}
  Roles = {"owner", "admin", "agent_sensor"}
  KeyNone = KeyNone
  \* Reliability
  Operators = {k1, k2}
  RequiresApproval = TRUE
  RelNone = RelNone
  Histories <- MCHistories
  MaxTransitions = 3
  MaxDrills = 2
  \* Limits
  LimitRequests = {1, 2, 3}
  LimitWriters = {k1, k2}
  Rate = 2
  PolicyChoices <- MCPolicies
  DefaultPolicy <- MCDefault
  Minute = 3
  MaxDelay = 2
  MaxSeconds = 4
  LimitNone = LimitNone
  \* Onboarding
  Deployments = {d1, d2}
  OnboardingCalls = {k1, k2}
  TestIds = {t1, t2}
  Touches = {e1}
  OnbNone = OnbNone
  MaxRecordChanges = 1
  MaxVisits = 2
  \* Learning
  LearnKeys = {k1, k2}
  Versions = {v1, v2}
  Observations <- MCObs
  FeedbackTypes = {"false_positive", "severity_too_high"}
  FeedbackTargets = {"alert"}
  MinSamples = 2
  MinActors = 2
  MaxContribution = 50
  MinHours = 24
  MinHealth = 90
  LearnNone = LearnNone
  MaxRevisions = 2
  \* Browser sensor
  Detections = {"d1", "d2", "d3", "d4", "d5"}
  DetectionOf <- MCDetectionOf
  Flushes = {"f1", "f2"}
  Syncs = {"s1", "s2"}
  Updates = {"u1", "u2", "u3"}
  BodyOf <- MCBodyOf
  Admins = {"a1", "a2", "a3"}
  AdminOp <- MCAdminOp
  Popups = {"p1"}
  Enrollers = {"e1", "e2"}
  Scenes <- MCScenes
  Tripwires <- MCTripwires
  RegistryLimit = 2
  QueueLimit = 2
  BrowserNone = BrowserNone
  MaxFaults = 2
  \* Replay guard
  Orgs = {o1, o2}
  Nonces = {n1}
  Window = 2
  MaxSkew = 2
  MaxTime = 7
  FailOpen = FALSE
  \* Incidents
  Accepted = {1}
  Payloads <- MCPayloads
  DedupWindow = 1
  CorrelationWindow = 2
  MaxInstant = 5
  MaxIngests = 4
  \* Decoys
  Repositories = {r1, r2}
  DecoyPlans = {p1, p2}
  Profiles <- MCProfiles
  DecoyNone = DecoyNone
  MaxPlans = 3
INVARIANTS PassesAtMostOnce UncoveredIsReported RepeatsAreConcurrent BudgetIsKept PromotionFollowsFence SlidingWindowHolds FixedWindowsHold ActiveIsReviewed PriorsAreEarned OrderlyQueue TouchIsNear AcceptedIsSafe
PROPERTIES RevokedStaysRevoked PauseHolds RevokedIsSilent
CHECK_DEADLOCK FALSE
