CONSTANTS
  Handlers = {h1, h2}
  Workers = {w1, w2}
  Keys = {k1, k2}
  Requester = k1
  Tables <- MCTables
  None = None
  MaxRequests = 7
  MaxInserts = 2
SPECIFICATION Spec
INVARIANTS UnrecordedRowsBounded RemovedIsGone PendingIsQueued
CHECK_DEADLOCK FALSE
SYMMETRY ActorSymmetry
