SPECIFICATION Spec
CONSTANTS
  None = None
  PatternClass <- MCPatternClass
  MinBreadth = 1
  Window = 2
  Tokens = {t1}
  Enrollers = {p1, p2}
  Sensors = {s1, s2}
  Requests = {r1, r2}
  EventIds = {e1, e2}
  Activities <- MCActivities
  Scopes <- MCScopes
  DecoyPaths <- MCDecoyPaths
  MaxFileReads = 1
  EventLimit = 2
  QueueLimit = 1
  MaxGiveUps = 1
SYMMETRY Symmetry
CHECK_DEADLOCK FALSE
INVARIANTS EnrolledOnce SensitiveReadsCounted AccountedFor AtMostOneLate
