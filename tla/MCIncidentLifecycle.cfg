CONSTANTS
  Alerts = {a1, a2}
  Runs = {r1, r2}
  None = None
SPECIFICATION Spec
INVARIANT RetireIsNonDestructive
CHECK_DEADLOCK FALSE
