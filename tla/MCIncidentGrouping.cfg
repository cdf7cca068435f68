\* Three detections of one trace, the first two in one bucket of the incident's identity.
SPECIFICATION IncidentSpec
CONSTANTS
  Accepted = {1}
  Payloads <- MCPayloads
  DedupWindow = 1
  CorrelationWindow = 2
  MaxInstant = 4
  MaxIngests = 3
INVARIANT RelatedAreTogether
CHECK_DEADLOCK FALSE
