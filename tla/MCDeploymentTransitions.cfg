CONSTANTS
  Handlers = {h1, h2}
  Workers = {w1}
  Keys = {k1, k2}
  Requester = k1
  None = None
  MaxRequests = 5
  MaxPulls = 3
SPECIFICATION Spec
INVARIANT TerminalIsFinal
CHECK_DEADLOCK FALSE
SYMMETRY ActorSymmetry
