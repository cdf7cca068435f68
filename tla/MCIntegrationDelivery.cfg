SPECIFICATION Spec
CONSTANTS
  w1 = w1  w2 = w2  h1 = h1  i1 = i1  e1 = e1  e2 = e2  e3 = e3  None = None
  Workers = {w1, w2}  Handlers = {h1}  Integrations = {i1}  Events = {e1, e2, e3}
  Filter <- MCFilter  Envelope <- MCEnvelope
  Batch = 2  MaxAttempts = 2  MaxRequests = 2  MaxLost = 1
INVARIANTS DeliveredOnce
PROPERTIES OnlyTestReactivates
CHECK_DEADLOCK FALSE
SYMMETRY Runs
