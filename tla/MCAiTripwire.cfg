CONSTANTS
  Handlers = {h1, h2}
  Workers = {w1, w2}
  Keys = {k1, k2}
  Requester = k1
  Drafts <- MCDrafts
  Requests <- MCRequests
  None = None
  MaxRequests = 5
  MaxFailures = 1
SPECIFICATION Spec
INVARIANTS PublishedIsApproved AssetIsRecorded AnswersGrow
CHECK_DEADLOCK FALSE
PROPERTY WaitingEnds
