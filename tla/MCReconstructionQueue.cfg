CONSTANTS
  Workers = {w1, w2}
  a1 = a1  a2 = a2  b1 = b1  t1 = t1  t2 = t2  o1 = o1  o2 = o2
  Alerts = {a1, a2, b1}
  Traces = {t1, t2}
  Organizations = {o1, o2}
  TraceOf <- MCTraceOf
  OrgOf <- MCOrgOf
  SurfaceOf <- MCSurfaceOf
  Spans <- MCSpans
  Window = 2
  None = None
  Batch = 1
  MaxJobs = 2
  MaxCrashes = 1
SPECIFICATION FairSpec
INVARIANTS ProcessedOnce DoneIsReflected
PROPERTY EveryJobSettles
