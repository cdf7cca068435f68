CONSTANTS
  Handlers = {h1, h2}
  r1 = r1  r2 = r2  r3 = r3  r4 = r4  m1 = m1  m2 = m2  e1 = e1  e2 = e2  a1 = a1
  Requests = {r1, r2, r3, r4}
  Monitors = {m1, m2}
  Events = {e1, e2}
  Alerts = {a1}
  MonitorOf <- MCMonitorOf
  EventOf <- MCEventOf
  AlertOf <- MCAlertOf
  StampOf <- MCStampOf
  NoEvent = NoEvent
  None = None
  Window = 1
  MaxDelay = 2
  MaxTime = 4
  MaxPending = 1
  MaxDeliveries = 3
SPECIFICATION FairSpec
INVARIANTS NoLostUpdate CountedAsReserved QueueOverrunBounded
PROPERTIES ImplementsLedger EveryRequestAnswered
CHECK_DEADLOCK FALSE
