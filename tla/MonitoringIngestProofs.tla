----------------------- MODULE MonitoringIngestProofs -----------------------
(***************************************************************************)
(* For every number of handlers, monitors, requests and alerts: the types, *)
(* no lost update of an alert's event count, a bound on how often a signed *)
(* request is counted, a bound on the overrun of the queue, and the        *)
(* refinement of AlertLedger.                                              *)
(***************************************************************************)
EXTENDS MonitoringIngest, FiniteSetTheorems, TLAPS

\* The initial state has the types.
LEMMA InitType == Init => TypeOK
  BY DEF Init, TypeOK, Steps

\* Giving up the locks of a handler keeps the type of a lock table.
LEMMA ReleaseType ==
  ASSUME NEW S, NEW lock \in [S -> Handlers \cup {None}], NEW h \in Handlers
  PROVE  Release(lock, h) \in [S -> Handlers \cup {None}]
  BY DEF Release

\* The end of a transaction keeps the types of what it writes.
LEMMA EndTransactionType ==
  ASSUME TypeOK, NEW h \in Handlers, EndTransaction(h)
  PROVE  /\ delivered' \in Nat
         /\ pc' \in [Handlers -> Steps]
         /\ req' \in [Handlers -> Requests \cup {None}]
         /\ sawEvent' \in [Handlers -> BOOLEAN]
         /\ row' \in [Handlers -> Nat]
         /\ clock' \in [Handlers -> Nat]
         /\ credLock' \in [Monitors -> Handlers \cup {None}]
         /\ eventLock' \in [Events -> Handlers \cup {None}]
         /\ alertLock' \in [Alerts -> Handlers \cup {None}]
  <1>1. /\ credLock' \in [Monitors -> Handlers \cup {None}]
        /\ eventLock' \in [Events -> Handlers \cup {None}]
        /\ alertLock' \in [Alerts -> Handlers \cup {None}]
    BY ReleaseType DEF TypeOK, EndTransaction
  <1>2. QED
    BY <1>1 DEF TypeOK, EndTransaction, Goto, Steps

\* A handler that is past its first step handles a request, and one that is past
\* the scan and not committing an empty answer has an event.
RequestInv ==
  \A h \in Handlers :
    /\ pc[h] # "idle" => req[h] \in Requests
    /\ pc[h] \in {"event", "insert", "merge"} => EventFor(h) \in Events

\* Every step keeps the types.
LEMMA StepType == TypeOK /\ RequestInv /\ [Next]_vars => TypeOK'
  <1> SUFFICES ASSUME TypeOK, RequestInv, [Next]_vars PROVE TypeOK'
    OBVIOUS
  <1>1. ASSUME NEW h \in Handlers, Rollback(h) PROVE TypeOK'
    BY <1>1, EndTransactionType DEF Rollback, EndTransaction, TypeOK, tables, history, guard
  <1>2. ASSUME NEW h \in Handlers, NEW r \in Requests, Receive(h, r) PROVE TypeOK'
    BY <1>2 DEF Receive, TypeOK, Goto, Steps, guard, tables, locks, history
  <1>3. ASSUME NEW h \in Handlers, Verify(h) PROVE TypeOK'
    BY <1>3, RequestAssumption
    DEF Verify, TypeOK, RequestInv, Goto, Steps, guard, tables, history
  <1>4. ASSUME NEW h \in Handlers, ReplayCheck(h) PROVE TypeOK'
    BY <1>4 DEF ReplayCheck, TypeOK, RequestInv, Goto, Steps, guard, tables, locks, history
  <1>5. ASSUME NEW h \in Handlers, Admit(h) PROVE TypeOK'
    BY <1>5 DEF Admit, TypeOK, Goto, Steps, guard, tables, locks, history
  <1>6. ASSUME NEW h \in Handlers, Scan(h) PROVE TypeOK'
    <2>1. sawEvent' \in [Handlers -> BOOLEAN]
      <3>1. CASE EventFor(h) = NoEvent
        BY <1>6, <3>1 DEF Scan, TypeOK
      <3>2. CASE EventFor(h) # NoEvent
        <4>1. (EventFor(h) \in events) \in BOOLEAN
          OBVIOUS
        <4>2. sawEvent' = [sawEvent EXCEPT ![h] = EventFor(h) \in events]
          BY <1>6, <3>2 DEF Scan
        <4>3. QED
          BY <4>1, <4>2, Zenon DEF TypeOK
      <3>3. QED
        BY <3>1, <3>2
    <2>2. pc' \in [Handlers -> Steps]
      BY <1>6 DEF Scan, TypeOK, Goto, Steps
    <2>3. QED
      BY <1>6, <2>1, <2>2 DEF Scan, TypeOK, guard, tables, locks, history
  <1>7. ASSUME NEW h \in Handlers, FlushEvent(h) PROVE TypeOK'
    BY <1>7 DEF FlushEvent, TypeOK, RequestInv, Goto, Steps, guard, tables, history
  <1>8. ASSUME NEW h \in Handlers, InsertAlert(h) PROVE TypeOK'
    <2>1. AlertFor(h) \in Alerts
      BY <1>8, RequestAssumption DEF InsertAlert, RequestInv, AlertFor
    <2>2. QED
      BY <1>8, <2>1 DEF InsertAlert, TypeOK, Goto, Steps, guard, tables, history
  <1>9. ASSUME NEW h \in Handlers, MergeAlert(h) PROVE TypeOK'
    <2>1. AlertFor(h) \in Alerts
      BY <1>9, RequestAssumption DEF MergeAlert, RequestInv, AlertFor
    <2>2. QED
      BY <1>9, <2>1 DEF MergeAlert, TypeOK, Goto, Steps, guard, tables, history
  <1>10. ASSUME NEW h \in Handlers, Commit(h) PROVE TypeOK'
    <2>1. req[h] \in Requests /\ EventFor(h) \in Events \cup {NoEvent}
      BY <1>10, RequestAssumption DEF Commit, RequestInv, EventFor
    <2>2. ingested' \in [Requests -> Nat]
      BY <1>10, <2>1 DEF Commit, TypeOK
    <2>3. /\ events' \subseteq Events
          /\ eventCount' \in [Alerts -> Nat]
          /\ recorded' \in [Alerts -> Nat]
          /\ pendingJobs' \in Nat
      BY <1>10, <2>1 DEF Commit, TypeOK, tables
    <2>4. EndTransaction(h)
      BY <1>10 DEF Commit
    <2>5. QED
      BY <2>2, <2>3, <2>4, EndTransactionType DEF TypeOK, EndTransaction, guard
  <1>11. CASE Drain
    BY <1>11 DEF Drain, TypeOK, guard, locks, history
  <1>12. CASE UNCHANGED vars
    BY <1>12 DEF vars, TypeOK, guard, tables, locks, history
  <1>13. ASSUME NEW h \in Handlers, Reserve(h) PROVE TypeOK'
    <2>1. req[h] \in Requests /\ Ttl \in Nat
      BY <1>13, TimeAssumption DEF Reserve, RequestInv, Ttl
    <2>2. seen' \in [Requests -> Nat] /\ passes' \in [Requests -> Nat]
      BY <1>13, <2>1 DEF Reserve, Passed, TypeOK
    <2>3. early' \subseteq Requests
      BY <1>13, <2>1 DEF Reserve, Passed, TypeOK
    <2>4. QED
      BY <1>13, <2>2, <2>3 DEF Reserve, Passed, TypeOK, Goto, Steps, tables, locks, history
  <1>14. CASE Tick
    BY <1>14 DEF Tick, TypeOK, tables, locks, history
  <1>15. QED
    BY <1>1, <1>2, <1>3, <1>4, <1>5, <1>6, <1>7, <1>8, <1>9, <1>10, <1>11, <1>12, <1>13, <1>14
    DEF Next, Progress, ReplayRefused, Throttled, FlushEventConflict, Fail

\* Every step keeps what handlers know about their request.
LEMMA StepRequest == TypeOK /\ RequestInv /\ [Next]_vars => RequestInv'
  <1> SUFFICES ASSUME TypeOK, RequestInv, [Next]_vars, NEW g \in Handlers
               PROVE  /\ pc'[g] # "idle" => req'[g] \in Requests
                      /\ pc'[g] \in {"event", "insert", "merge"} => EventOf[req'[g]] \in Events
    BY DEF RequestInv, EventFor
  <1>1. ASSUME NEW h \in Handlers, EndTransaction(h)
        PROVE  \/ pc'[g] = "idle"
               \/ pc'[g] = pc[g] /\ req'[g] = req[g]
    BY <1>1 DEF EndTransaction, Goto, TypeOK
  <1>2. ASSUME NEW h \in Handlers, NEW r \in Requests, Receive(h, r)
        PROVE  \/ pc'[g] = "verify" /\ req'[g] \in Requests
               \/ pc'[g] = pc[g] /\ req'[g] = req[g]
    BY <1>2 DEF Receive, Goto, TypeOK
  <1>3. ASSUME NEW h \in Handlers, Scan(h)
        PROVE  /\ req' = req
               /\ \/ pc'[g] = pc[g]
                  \/ g = h /\ pc[g] = "scan" /\ pc'[g] = "commit"
                  \/ g = h /\ pc[g] = "scan" /\ pc'[g] = "event" /\ EventFor(g) # NoEvent
    BY <1>3 DEF Scan, Goto, TypeOK
  <1>4. ASSUME NEW h \in Handlers,
               \/ Verify(h) \/ ReplayCheck(h) \/ Reserve(h) \/ Admit(h)
               \/ FlushEvent(h) \/ InsertAlert(h) \/ MergeAlert(h)
        PROVE  /\ req' = req
               /\ \/ pc'[g] = pc[g]
                  \/ /\ pc[g] # "idle"
                     /\ pc'[g] \in {"insert", "merge"} => pc[g] \in {"event", "insert"}
                     /\ pc'[g] # "event"
    BY <1>4 DEF Verify, ReplayCheck, Reserve, Passed, Admit, FlushEvent, InsertAlert, MergeAlert,
        Goto, TypeOK
  <1>5. CASE Drain \/ Tick \/ UNCHANGED vars
    BY <1>5 DEF Drain, Tick, vars, RequestInv, EventFor
  <1>6. ASSUME NEW h \in Handlers, Progress(h) \/ Fail(h)
        PROVE  /\ pc'[g] # "idle" => req'[g] \in Requests
               /\ pc'[g] \in {"event", "insert", "merge"} => EventOf[req'[g]] \in Events
    <2>1. CASE \E k \in Handlers : EndTransaction(k)
      BY <1>1, <2>1 DEF RequestInv, EventFor
    <2>2. CASE Scan(h)
      BY <1>3, <2>2, RequestAssumption DEF RequestInv, EventFor
    <2>3. CASE \/ Verify(h) \/ ReplayCheck(h) \/ Reserve(h) \/ Admit(h)
               \/ FlushEvent(h) \/ InsertAlert(h) \/ MergeAlert(h)
      BY <1>4, <2>3 DEF RequestInv, EventFor
    <2>4. QED
      BY <1>6, <2>1, <2>2, <2>3
      DEF Progress, Fail, ReplayRefused, Throttled, FlushEventConflict, Commit, Rollback
  <1>7. QED
    BY <1>2, <1>5, <1>6 DEF Next, RequestInv, EventFor

\* Initially no handler has a request.
LEMMA InitRequest == Init => RequestInv
  BY DEF Init, RequestInv

\* Type correctness of monitoring ingestion.
THEOREM TypeCorrect == Spec => [](TypeOK /\ RequestInv)
  BY InitType, InitRequest, StepType, StepRequest, PTL DEF Spec

-----------------------------------------------------------------------------
(* The upsert is an atomic increment. *)

\* A handler about to commit a detection holds the alert's row and will write
\* one more than the count that is committed.
RowInv ==
  \A h \in Handlers :
    pc[h] = "commit" /\ EventFor(h) # NoEvent =>
      /\ alertLock[AlertFor(h)] = h
      /\ row[h] = eventCount[AlertFor(h)] + 1

\* The lock invariant holds initially.
LEMMA InitRow == Init => RowInv
  BY DEF Init, RowInv

\* Every step keeps the lock invariant: nobody else can commit the locked row.
LEMMA StepRow == TypeOK /\ RequestInv /\ RowInv /\ [Next]_vars => RowInv'
  <1> SUFFICES ASSUME TypeOK, RequestInv, RowInv, [Next]_vars, NEW g \in Handlers,
                      pc'[g] = "commit", EventOf[req'[g]] # NoEvent
               PROVE  /\ alertLock'[AlertOf[EventOf[req'[g]]]] = g
                      /\ row'[g] = eventCount'[AlertOf[EventOf[req'[g]]]] + 1
    BY DEF RowInv, EventFor, AlertFor
  <1> USE DEF EventFor, AlertFor
  <1>0. ASSUME pc[g] = "commit", req[g] \in Requests, req'[g] = req[g]
        PROVE  /\ AlertOf[EventOf[req[g]]] \in Alerts
               /\ alertLock[AlertOf[EventOf[req[g]]]] = g
               /\ row[g] = eventCount[AlertOf[EventOf[req[g]]]] + 1
    BY <1>0, RequestAssumption DEF RowInv
  <1>1. ASSUME NEW h \in Handlers, EndTransaction(h)
        PROVE  /\ g # h /\ pc[g] = "commit" /\ req'[g] = req[g] /\ row'[g] = row[g]
               /\ req[g] \in Requests
               /\ alertLock'[AlertOf[EventOf[req[g]]]] = g
    <2>1. g # h /\ pc[g] = "commit" /\ req'[g] = req[g] /\ row'[g] = row[g]
      BY <1>1 DEF EndTransaction, Goto, TypeOK, Steps
    <2>2. req[g] \in Requests
      BY <2>1 DEF RequestInv
    <2>3. QED
      BY <1>0, <1>1, <2>1, <2>2 DEF EndTransaction, Release, TypeOK
  <1>2. ASSUME NEW h \in Handlers, Rollback(h)
        PROVE  /\ alertLock'[AlertOf[EventOf[req'[g]]]] = g
               /\ row'[g] = eventCount'[AlertOf[EventOf[req'[g]]]] + 1
    BY <1>0, <1>1, <1>2 DEF Rollback, tables
  <1>3. ASSUME NEW h \in Handlers, Commit(h)
        PROVE  /\ alertLock'[AlertOf[EventOf[req'[g]]]] = g
               /\ row'[g] = eventCount'[AlertOf[EventOf[req'[g]]]] + 1
    <2>1. /\ g # h /\ pc[g] = "commit" /\ req'[g] = req[g] /\ row'[g] = row[g]
          /\ req[g] \in Requests
          /\ alertLock'[AlertOf[EventOf[req[g]]]] = g
      BY <1>1, <1>3 DEF Commit
    <2>2. EventFor(h) # NoEvent => AlertFor(h) # AlertOf[EventOf[req[g]]]
      BY <1>0, <1>3, <2>1 DEF Commit, RowInv
    <2>3. eventCount'[AlertOf[EventOf[req[g]]]] = eventCount[AlertOf[EventOf[req[g]]]]
      BY <1>3, <1>0, <2>1, <2>2 DEF Commit, TypeOK, tables
    <2>4. QED
      BY <1>0, <2>1, <2>3
  <1>4. ASSUME NEW h \in Handlers, InsertAlert(h) \/ MergeAlert(h)
        PROVE  /\ alertLock'[AlertOf[EventOf[req'[g]]]] = g
               /\ row'[g] = eventCount'[AlertOf[EventOf[req'[g]]]] + 1
    <2>0. req[h] \in Requests /\ AlertFor(h) \in Alerts
      BY <1>4, RequestAssumption DEF InsertAlert, MergeAlert, RequestInv
    <2>1. req' = req /\ eventCount' = eventCount
      BY <1>4 DEF InsertAlert, MergeAlert, tables
    <2>2. CASE g = h
      BY <1>4, <2>0, <2>1, <2>2 DEF InsertAlert, MergeAlert, Goto, TypeOK
    <2>3. CASE g # h
      <3>1. pc[g] = "commit" /\ row'[g] = row[g]
        BY <1>4, <2>3 DEF InsertAlert, MergeAlert, Goto, TypeOK
      <3>2. req[g] \in Requests
        BY <3>1 DEF RequestInv
      <3>3. alertLock'[AlertOf[EventOf[req[g]]]] = g
        BY <1>0, <1>4, <2>1, <2>3, <3>1, <3>2, HandlerAssumption
        DEF InsertAlert, MergeAlert, Free, TypeOK
      <3>4. QED
        BY <1>0, <2>1, <3>1, <3>2, <3>3
    <2>4. QED
      BY <2>2, <2>3
  <1>5. ASSUME \/ \E h \in Handlers : Verify(h) \/ ReplayCheck(h) \/ Reserve(h) \/ Admit(h)
                                       \/ Scan(h) \/ FlushEvent(h)
               \/ \E h \in Handlers, r \in Requests : Receive(h, r)
               \/ Drain \/ Tick \/ UNCHANGED vars
        PROVE  /\ alertLock'[AlertOf[EventOf[req'[g]]]] = g
               /\ row'[g] = eventCount'[AlertOf[EventOf[req'[g]]]] + 1
    <2>1. alertLock' = alertLock /\ row' = row /\ eventCount' = eventCount
      BY <1>5
      DEF Verify, ReplayCheck, Reserve, Passed, Admit, Scan, FlushEvent, Receive, Drain, Tick,
          vars, tables, locks
    <2>2. pc[g] = "commit" /\ req'[g] = req[g]
      BY <1>5
      DEF Verify, ReplayCheck, Reserve, Passed, Admit, Scan, FlushEvent, Receive, Drain, Tick,
          vars, Goto, TypeOK
    <2>3. req[g] \in Requests
      BY <2>2 DEF RequestInv
    <2>4. QED
      BY <1>0, <2>1, <2>2, <2>3
  <1>6. QED
    BY <1>2, <1>3, <1>4, <1>5
    DEF Next, Progress, ReplayRefused, Throttled, FlushEventConflict, Fail

\* Together: types, requests and locks.
UpsertInv == TypeOK /\ RequestInv /\ RowInv

\* The combined invariant is inductive.
LEMMA StepUpsert == UpsertInv /\ [Next]_vars => UpsertInv'
  BY StepType, StepRequest, StepRow DEF UpsertInv

\* The combined invariant holds of every behaviour.
LEMMA UpsertInvariant == Spec => []UpsertInv
  BY InitType, InitRequest, InitRow, StepUpsert, PTL DEF Spec, UpsertInv

\* A step of the handlers is a step of the ledger or leaves it alone.
LEMMA StepLedger == UpsertInv /\ [Next]_vars => [Ledger!Next]_(Ledger!ledgerVars)
  <1> SUFFICES ASSUME UpsertInv, [Next]_vars PROVE [Ledger!Next]_(Ledger!ledgerVars)
    OBVIOUS
  <1> USE DEF Ledger!Next, Ledger!ledgerVars
  <1>1. ASSUME NEW h \in Handlers, Commit(h) PROVE [Ledger!Next]_(Ledger!ledgerVars)
    <2>1. CASE EventFor(h) = NoEvent
      BY <1>1, <2>1 DEF Commit, tables
    <2>2. CASE EventFor(h) # NoEvent
      <3>1. AlertFor(h) \in Alerts
        BY <1>1, <2>2, RequestAssumption
        DEF Commit, UpsertInv, RequestInv, EventFor, AlertFor
      <3>2. row[h] = eventCount[AlertFor(h)] + 1
        BY <1>1, <2>2 DEF Commit, UpsertInv, RowInv
      <3>3. Ledger!Record(AlertFor(h))
        BY <1>1, <2>2, <3>1, <3>2 DEF Commit, UpsertInv, TypeOK, Ledger!Record
      <3>4. QED
        BY <3>1, <3>3
    <2>3. QED
      BY <2>1, <2>2
  <1>2. CASE Drain
    BY <1>2 DEF Drain, Ledger!Drain
  <1>3. ASSUME NEW h \in Handlers, Rollback(h) PROVE [Ledger!Next]_(Ledger!ledgerVars)
    BY <1>3 DEF Rollback, tables
  <1>4. ASSUME \/ \E h \in Handlers : Verify(h) \/ ReplayCheck(h) \/ Reserve(h) \/ Admit(h) \/ Scan(h)
                                       \/ FlushEvent(h) \/ InsertAlert(h) \/ MergeAlert(h)
               \/ \E h \in Handlers, r \in Requests : Receive(h, r)
               \/ Tick \/ UNCHANGED vars
        PROVE  [Ledger!Next]_(Ledger!ledgerVars)
    BY <1>4
    DEF Verify, ReplayCheck, Reserve, Passed, Admit, Scan, FlushEvent, InsertAlert, MergeAlert,
        Receive, Tick, vars, tables
  <1>5. QED
    BY <1>1, <1>2, <1>3, <1>4
    DEF Next, Progress, ReplayRefused, Throttled, FlushEventConflict, Fail

\* Concurrent upserts implement the atomic ledger of AlertLedger.
THEOREM UpsertIsAtomic == Spec => ImplementsLedger
  <1>1. Init => Ledger!Init
    BY DEF Init, Ledger!Init
  <1>2. QED
    BY <1>1, UpsertInvariant, StepLedger, PTL DEF Spec, ImplementsLedger, Ledger!Spec

\* A step that commits a detection raises the count and its record alike.
LEMMA StepCount == UpsertInv /\ NoLostUpdate /\ [Next]_vars => NoLostUpdate'
  <1> SUFFICES ASSUME UpsertInv, NoLostUpdate, [Next]_vars PROVE NoLostUpdate'
    OBVIOUS
  <1>1. ASSUME NEW h \in Handlers, Commit(h) PROVE NoLostUpdate'
    <2>1. CASE EventFor(h) = NoEvent
      BY <1>1, <2>1 DEF Commit, tables, NoLostUpdate
    <2>2. CASE EventFor(h) # NoEvent
      <3>1. row[h] = eventCount[AlertFor(h)] + 1
        BY <1>1, <2>2 DEF Commit, UpsertInv, RowInv
      <3>2. QED
        BY <1>1, <2>2, <3>1 DEF Commit, UpsertInv, TypeOK, NoLostUpdate
    <2>3. QED
      BY <2>1, <2>2
  <1>2. ASSUME NEW h \in Handlers, Rollback(h) PROVE NoLostUpdate'
    BY <1>2 DEF Rollback, tables, history, NoLostUpdate
  <1>3. ASSUME \/ \E h \in Handlers : Verify(h) \/ ReplayCheck(h) \/ Reserve(h) \/ Admit(h) \/ Scan(h)
                                       \/ FlushEvent(h) \/ InsertAlert(h) \/ MergeAlert(h)
               \/ \E h \in Handlers, r \in Requests : Receive(h, r)
               \/ Drain \/ Tick \/ UNCHANGED vars
        PROVE  NoLostUpdate'
    BY <1>3
    DEF Verify, ReplayCheck, Reserve, Passed, Admit, Scan, FlushEvent, InsertAlert, MergeAlert,
        Receive, Drain, Tick,
        vars, tables, history, NoLostUpdate
  <1>4. QED
    BY <1>1, <1>2, <1>3
    DEF Next, Progress, ReplayRefused, Throttled, FlushEventConflict, Fail

\* However many handlers merge the same episode, its count is the number of
\* detections that were committed.
THEOREM NoUpdateIsLost == Spec => []NoLostUpdate
  <1>1. Init => NoLostUpdate
    BY DEF Init, NoLostUpdate
  <1>2. QED
    BY <1>1, UpsertInvariant, StepCount, PTL DEF Spec

-----------------------------------------------------------------------------
(* The credential's row: one handler per monitor past the signature check.   *)

\* A handler past the signature check holds its monitor's row.
CredInv ==
  \A h \in Handlers : pc[h] \notin {"idle", "verify"} => credLock[MonitorOf[req[h]]] = h

\* Every step keeps the credential's row with the handler.
LEMMA StepCred == TypeOK /\ RequestInv /\ CredInv /\ [Next]_vars => CredInv'
  <1> SUFFICES ASSUME TypeOK, RequestInv, CredInv, [Next]_vars,
                      NEW g \in Handlers, pc'[g] \notin {"idle", "verify"}
               PROVE  credLock'[MonitorOf[req'[g]]] = g
    BY DEF CredInv
  <1>0. ASSUME NEW h \in Handlers, pc[h] # "idle" PROVE MonitorOf[req[h]] \in Monitors
    BY <1>0, RequestAssumption DEF RequestInv
  <1>1. ASSUME NEW h \in Handlers, EndTransaction(h) PROVE credLock'[MonitorOf[req'[g]]] = g
    <2>1. g # h /\ pc[g] = pc'[g] /\ req'[g] = req[g]
      BY <1>1 DEF EndTransaction, Goto, TypeOK
    <2>2. credLock[MonitorOf[req[g]]] = g /\ MonitorOf[req[g]] \in Monitors
      BY <1>0, <2>1 DEF CredInv
    <2>3. QED
      BY <1>1, <2>1, <2>2 DEF EndTransaction, Release, TypeOK
  <1>2. ASSUME NEW h \in Handlers, Verify(h) PROVE credLock'[MonitorOf[req'[g]]] = g
    <2>1. req' = req /\ MonitorOf[req[h]] \in Monitors
      BY <1>0, <1>2 DEF Verify
    <2>2. CASE g = h
      BY <1>2, <2>1, <2>2 DEF Verify, TypeOK
    <2>3. CASE g # h
      <3>1. pc[g] = pc'[g]
        BY <1>2, <2>3 DEF Verify, Goto, TypeOK
      <3>2. credLock[MonitorOf[req[g]]] = g /\ MonitorOf[req[g]] \in Monitors
        BY <1>0, <3>1 DEF CredInv
      <3>3. MonitorOf[req[g]] # MonitorOf[req[h]]
        BY <1>2, <2>3, <3>2, HandlerAssumption DEF Verify, Free
      <3>4. QED
        BY <1>2, <2>1, <3>2, <3>3 DEF Verify, TypeOK
    <2>4. QED
      BY <2>2, <2>3
  <1>3. ASSUME \/ \E h \in Handlers : ReplayCheck(h) \/ Reserve(h) \/ Admit(h) \/ Scan(h) \/ FlushEvent(h)
                                       \/ InsertAlert(h) \/ MergeAlert(h)
               \/ \E h \in Handlers, r \in Requests : Receive(h, r)
               \/ Drain \/ Tick \/ UNCHANGED vars
        PROVE  credLock'[MonitorOf[req'[g]]] = g
    <2>1. credLock' = credLock
      BY <1>3 DEF ReplayCheck, Reserve, Passed, Admit, Scan, FlushEvent, InsertAlert, MergeAlert,
          Receive, Drain, Tick,
                  vars, locks
    <2>2. pc[g] \notin {"idle", "verify"} /\ req'[g] = req[g]
      BY <1>3 DEF ReplayCheck, Reserve, Passed, Admit, Scan, FlushEvent, InsertAlert, MergeAlert,
          Receive, Drain, Tick,
                  vars, Goto, TypeOK
    <2>3. QED
      BY <2>1, <2>2 DEF CredInv
  <1>4. QED
    BY <1>1, <1>2, <1>3
    DEF Next, Progress, ReplayRefused, Throttled, FlushEventConflict, Fail, Commit, Rollback

-----------------------------------------------------------------------------
(* Reservations: how often one request can pass the guard, and be counted.   *)

\* A handler whose request has passed the guard.
PastGuard(h) == pc[h] \notin {"idle", "verify", "replay", "reserve"}

\* A request that has passed the guard and is not committed yet.
Underway(r) == \E h \in Handlers : PastGuard(h) /\ req[h] = r

\* Every commit, and the handler underway, has a reservation of its own: there is one handler
\* underway, since all of them need the row of the request's credential.
PassInv == \A r \in Requests : ingested[r] + (IF Underway(r) THEN 1 ELSE 0) <= passes[r]

\* A handler about to reserve has read the clock within the window, and not long ago.
ClockInv ==
  \A h \in Handlers : pc[h] = "reserve" =>
    /\ now <= clock[h] + MaxDelay
    /\ clock[h] <= now
    /\ clock[h] <= StampOf[req[h]] + Window
    /\ StampOf[req[h]] - Window <= clock[h]

\* How long before the end of its last reservation a request may first be reserved, and when.
Room(r) == (IF r \in early THEN 2 * Window ELSE Window) + MaxDelay
Earliest(r) == IF r \in early THEN StampOf[r] - Window ELSE StampOf[r]

\* Reservations follow each other without overlap, and the last begins in the window.
SpacingInv ==
  \A r \in Requests : passes[r] # 0 =>
    /\ Earliest(r) + passes[r] * Ttl <= seen[r]
    /\ (passes[r] - 1) * Ttl <= Room(r)

\* The end of a transaction leaves the clocks of the others and the guard alone.
LEMMA EndGuard ==
  ASSUME TypeOK, NEW h \in Handlers, EndTransaction(h)
  PROVE  /\ UNCHANGED guard
         /\ pc'[h] = "idle"
         /\ \A g \in Handlers : g # h =>
              pc'[g] = pc[g] /\ req'[g] = req[g] /\ clock'[g] = clock[g]
  BY DEF EndTransaction, Goto, TypeOK

\* A step that neither reserves nor ends a transaction does not touch what the guard keeps, and
\* no handler gets past it.
LEMMA OtherGuard ==
  ASSUME TypeOK,
         \/ \E h \in Handlers : \/ Verify(h) \/ ReplayCheck(h) \/ Admit(h) \/ Scan(h)
                                \/ FlushEvent(h) \/ InsertAlert(h) \/ MergeAlert(h)
         \/ \E h \in Handlers, r \in Requests : Receive(h, r)
         \/ Drain \/ Tick \/ UNCHANGED vars
  PROVE  /\ UNCHANGED <<seen, passes, early, ingested>>
         /\ \A g \in Handlers : PastGuard(g)' => PastGuard(g) /\ req'[g] = req[g]
  <1>1. UNCHANGED <<seen, passes, early, ingested>>
    BY DEF Verify, ReplayCheck, Admit, Scan, FlushEvent, InsertAlert, MergeAlert, Receive, Drain,
           Tick, vars, guard, history
  <1>2. \A g \in Handlers : PastGuard(g)' => PastGuard(g) /\ req'[g] = req[g]
    BY DEF Verify, ReplayCheck, Admit, Scan, FlushEvent, InsertAlert, MergeAlert, Receive, Drain,
           Tick, vars, Goto, TypeOK, PastGuard
  <1>3. QED
    BY <1>1, <1>2

\* Of the handlers of one request, the credential's row lets one past the guard.
LEMMA OnePastGuard ==
  ASSUME CredInv, NEW g \in Handlers, NEW h \in Handlers, req[g] = req[h],
         pc[g] \notin {"idle", "verify"}, pc[h] \notin {"idle", "verify"}
  PROVE  g = h
  BY DEF CredInv

\* Every step keeps a reservation for every commit.
LEMMA StepPass == TypeOK /\ RequestInv /\ CredInv /\ PassInv /\ [Next]_vars => PassInv'
  <1> SUFFICES ASSUME TypeOK, RequestInv, CredInv, PassInv, [Next]_vars, NEW r \in Requests
               PROVE  ingested'[r] + (IF Underway(r)' THEN 1 ELSE 0) <= passes'[r]
    BY DEF PassInv
  <1>0. /\ ingested[r] \in Nat /\ passes[r] \in Nat
        /\ ingested[r] + (IF Underway(r) THEN 1 ELSE 0) <= passes[r]
    BY DEF TypeOK, PassInv
  <1>1. ASSUME NEW h \in Handlers, EndTransaction(h) PROVE Underway(r)' => Underway(r)
    BY <1>1, EndGuard DEF Underway, PastGuard
  <1>2. ASSUME NEW h \in Handlers, Rollback(h)
        PROVE  ingested'[r] + (IF Underway(r)' THEN 1 ELSE 0) <= passes'[r]
    <2>1. UNCHANGED <<ingested, passes>>
      BY <1>2, EndGuard DEF Rollback, history, guard
    <2>2. QED
      BY <1>0, <1>1, <1>2, <2>1 DEF Rollback
  <1>3. ASSUME NEW h \in Handlers, Commit(h)
        PROVE  ingested'[r] + (IF Underway(r)' THEN 1 ELSE 0) <= passes'[r]
    <2>1. EndTransaction(h) /\ PastGuard(h) /\ req[h] \in Requests
      BY <1>3 DEF Commit, PastGuard, RequestInv
    <2>2. passes' = passes /\ ingested' = [ingested EXCEPT ![req[h]] = @ + 1]
      BY <1>3, <2>1, EndGuard DEF Commit, guard
    <2>3. CASE r = req[h]
      <3>1. Underway(r)
        BY <2>1, <2>3 DEF Underway
      <3>2. ~Underway(r)'
        <4> SUFFICES ASSUME NEW g \in Handlers, PastGuard(g)', req'[g] = r PROVE FALSE
          BY DEF Underway
        <4>1. g # h /\ PastGuard(g) /\ req[g] = r
          BY <2>1, EndGuard DEF PastGuard
        <4>2. QED
          BY <2>1, <2>3, <4>1, OnePastGuard DEF PastGuard
      <3>3. ingested'[r] = ingested[r] + 1
        BY <2>2, <2>3 DEF TypeOK
      <3>4. QED
        BY <1>0, <2>2, <3>1, <3>2, <3>3
    <2>4. CASE r # req[h]
      <3>1. ingested'[r] = ingested[r]
        BY <2>2, <2>4 DEF TypeOK
      <3>2. QED
        BY <1>0, <1>1, <2>1, <2>2, <3>1
    <2>5. QED
      BY <2>3, <2>4
  <1>4. ASSUME NEW h \in Handlers, Reserve(h)
        PROVE  ingested'[r] + (IF Underway(r)' THEN 1 ELSE 0) <= passes'[r]
    <2>1. /\ ingested' = ingested /\ req' = req /\ pc[h] = "reserve" /\ req[h] \in Requests
          /\ passes' = [passes EXCEPT ![req[h]] = @ + 1]
      BY <1>4 DEF Reserve, Passed, history, RequestInv
    <2>2. \A g \in Handlers : g # h /\ PastGuard(g)' => PastGuard(g)
      BY <1>4 DEF Reserve, Passed, Goto, TypeOK, PastGuard
    <2>3. CASE r = req[h]
      <3>1. passes'[r] = passes[r] + 1
        BY <2>1, <2>3 DEF TypeOK
      <3>2. ~Underway(r)
        BY <2>1, <2>3, OnePastGuard DEF Underway, PastGuard
      <3>3. QED
        BY <1>0, <2>1, <3>1, <3>2
    <2>4. CASE r # req[h]
      <3>1. passes'[r] = passes[r]
        BY <2>1, <2>4 DEF TypeOK
      <3>2. Underway(r)' => Underway(r)
        BY <2>1, <2>2, <2>4 DEF Underway
      <3>3. QED
        BY <1>0, <2>1, <3>1, <3>2
    <2>5. QED
      BY <2>3, <2>4
  <1>5. ASSUME \/ \E h \in Handlers : \/ Verify(h) \/ ReplayCheck(h) \/ Admit(h) \/ Scan(h)
                                      \/ FlushEvent(h) \/ InsertAlert(h) \/ MergeAlert(h)
               \/ \E h \in Handlers, q \in Requests : Receive(h, q)
               \/ Drain \/ Tick \/ UNCHANGED vars
        PROVE  ingested'[r] + (IF Underway(r)' THEN 1 ELSE 0) <= passes'[r]
    <2>1. UNCHANGED <<passes, ingested>>
      BY <1>5, OtherGuard
    <2>2. Underway(r)' => Underway(r)
      BY <1>5, OtherGuard DEF Underway
    <2>3. QED
      BY <1>0, <2>1, <2>2
  <1>6. QED
    BY <1>2, <1>3, <1>4, <1>5
    DEF Next, Progress, ReplayRefused, Throttled, FlushEventConflict, Fail

\* Every step keeps the times of the handlers at the guard: the clock waits for them.
LEMMA StepClock == TypeOK /\ RequestInv /\ ClockInv /\ [Next]_vars => ClockInv'
  <1> SUFFICES ASSUME TypeOK, RequestInv, ClockInv, [Next]_vars,
                      NEW g \in Handlers, pc'[g] = "reserve"
               PROVE  /\ now' <= clock'[g] + MaxDelay
                      /\ clock'[g] <= now'
                      /\ clock'[g] <= StampOf[req'[g]] + Window
                      /\ StampOf[req'[g]] - Window <= clock'[g]
    BY DEF ClockInv
  <1> USE TimeAssumption
  <1>1. ASSUME UNCHANGED now, pc[g] = "reserve", req'[g] = req[g], clock'[g] = clock[g]
        PROVE  /\ now' <= clock'[g] + MaxDelay
               /\ clock'[g] <= now'
               /\ clock'[g] <= StampOf[req'[g]] + Window
               /\ StampOf[req'[g]] - Window <= clock'[g]
    BY <1>1 DEF ClockInv
  <1>2. ASSUME NEW h \in Handlers, EndTransaction(h)
        PROVE  UNCHANGED now /\ pc[g] = "reserve" /\ req'[g] = req[g] /\ clock'[g] = clock[g]
    BY <1>2, EndGuard DEF guard
  <1>3. ASSUME NEW h \in Handlers, ReplayCheck(h)
        PROVE  /\ now' <= clock'[g] + MaxDelay
               /\ clock'[g] <= now'
               /\ clock'[g] <= StampOf[req'[g]] + Window
               /\ StampOf[req'[g]] - Window <= clock'[g]
    <2>1. CASE g = h
      <3>1. clock'[g] = now /\ now' = now /\ req' = req /\ ~Skewed(req[g]) /\ req[g] \in Requests
        BY <1>3, <2>1 DEF ReplayCheck, guard, TypeOK, RequestInv
      <3>2. StampOf[req[g]] \in Int /\ now \in Nat
        BY <3>1, RequestAssumption DEF TypeOK
      <3>3. QED
        BY <3>1, <3>2 DEF Skewed
    <2>2. CASE g # h
      <3>1. UNCHANGED now /\ pc[g] = "reserve" /\ req'[g] = req[g] /\ clock'[g] = clock[g]
        BY <1>3, <2>2 DEF ReplayCheck, guard, Goto, TypeOK
      <3>2. QED
        BY <1>1, <3>1
    <2>3. QED
      BY <2>1, <2>2
  <1>4. CASE Tick
    <2>1. pc[g] = "reserve" /\ req'[g] = req[g] /\ clock'[g] = clock[g] /\ now' = now + 1
          /\ now < clock[g] + MaxDelay /\ now \in Nat /\ clock[g] \in Nat
      BY <1>4 DEF Tick, TypeOK
    <2>2. QED
      BY <2>1 DEF ClockInv
  <1>5. ASSUME \/ \E h \in Handlers : Verify(h) \/ Reserve(h) \/ Admit(h) \/ Scan(h)
                                       \/ FlushEvent(h) \/ InsertAlert(h) \/ MergeAlert(h)
               \/ \E h \in Handlers, r \in Requests : Receive(h, r)
               \/ Drain \/ UNCHANGED vars
        PROVE  UNCHANGED now /\ pc[g] = "reserve" /\ req'[g] = req[g] /\ clock'[g] = clock[g]
    <2>1. UNCHANGED now
      BY <1>5 DEF Verify, Reserve, Admit, Scan, FlushEvent, InsertAlert, MergeAlert, Receive, Drain,
                  vars, guard
    <2>2. pc[g] = "reserve" /\ req'[g] = req[g] /\ clock'[g] = clock[g]
      BY <1>5 DEF Verify, Reserve, Passed, Admit, Scan, FlushEvent, InsertAlert, MergeAlert,
          Receive,
                  Drain, vars, Goto, TypeOK
    <2>3. QED
      BY <2>1, <2>2
  <1>6. QED
    BY <1>1, <1>2, <1>3, <1>4, <1>5
    DEF Next, Progress, ReplayRefused, Throttled, FlushEventConflict, Fail, Commit, Rollback

\* A reservation begins after the one before it has expired, and within the window and the delay
\* after the stamp.
LEMMA NextReservation ==
  ASSUME NEW k \in Nat, NEW begin \in Int, NEW time \in Nat, NEW old \in Nat, NEW room \in Nat,
         k # 0 => begin + k * Ttl <= old /\ old <= time, begin <= time, time <= begin + room
  PROVE  begin + (k + 1) * Ttl <= time + Ttl /\ k * Ttl <= room
  <1>1. Ttl \in Nat
    BY TimeAssumption DEF Ttl
  <1>2. (k + 1) * Ttl = k * Ttl + Ttl /\ k * Ttl \in Nat /\ (k = 0 => k * Ttl = 0)
    BY <1>1
  <1>3. QED
    BY <1>1, <1>2

\* Every step keeps the reservations of a request apart.
LEMMA StepSpacing ==
  TypeOK /\ RequestInv /\ ClockInv /\ SpacingInv /\ [Next]_vars => SpacingInv'
  <1> SUFFICES ASSUME TypeOK, RequestInv, ClockInv, SpacingInv, [Next]_vars,
                      NEW r \in Requests, passes'[r] # 0
               PROVE  /\ Earliest(r)' + passes'[r] * Ttl <= seen'[r]
                      /\ (passes'[r] - 1) * Ttl <= Room(r)'
    BY DEF SpacingInv
  <1>1. ASSUME passes'[r] = passes[r], seen'[r] = seen[r], r \in early' <=> r \in early
        PROVE  /\ Earliest(r)' + passes'[r] * Ttl <= seen'[r]
               /\ (passes'[r] - 1) * Ttl <= Room(r)'
    <2>1. Earliest(r)' = Earliest(r) /\ Room(r)' = Room(r)
      BY <1>1 DEF Earliest, Room
    <2>2. QED
      BY <1>1, <2>1 DEF SpacingInv
  <1>2. ASSUME NEW h \in Handlers, Reserve(h)
        PROVE  /\ Earliest(r)' + passes'[r] * Ttl <= seen'[r]
               /\ (passes'[r] - 1) * Ttl <= Room(r)'
    <2>1. CASE r = req[h]
      <3>1. /\ passes'[r] = passes[r] + 1 /\ seen'[r] = now + Ttl /\ seen[r] <= now
            /\ pc[h] = "reserve"
        BY <1>2, <2>1 DEF Reserve, Passed, TypeOK
      <3>2. early' = IF passes[r] = 0 /\ now < StampOf[r] THEN early \cup {r} ELSE early
        BY <1>2, <2>1 DEF Reserve, Passed
      <3>3. /\ now <= clock[h] + MaxDelay /\ clock[h] <= now
            /\ clock[h] <= StampOf[r] + Window /\ StampOf[r] - Window <= clock[h]
        BY <2>1, <3>1 DEF ClockInv
      <3>4. /\ now \in Nat /\ seen[r] \in Nat /\ passes[r] \in Nat /\ clock[h] \in Nat
            /\ StampOf[r] \in Int
        BY RequestAssumption DEF TypeOK
      <3>5. /\ StampOf[r] - Window <= now
            /\ now <= StampOf[r] + Window + MaxDelay
        BY <3>3, <3>4, TimeAssumption
      <3>6. Earliest(r)' \in Int /\ Room(r)' \in Nat
        BY <3>4, TimeAssumption DEF Earliest, Room
      <3>7. now <= Earliest(r)' + Room(r)'
        BY <3>4, <3>5, TimeAssumption DEF Earliest, Room
      <3>8. passes[r] # 0 => Earliest(r)' + passes[r] * Ttl <= seen[r] /\ Earliest(r)' <= now
        <4>1. SUFFICES ASSUME passes[r] # 0
                       PROVE  Earliest(r)' + passes[r] * Ttl <= seen[r] /\ Earliest(r)' <= now
          OBVIOUS
        <4>2. Earliest(r)' = Earliest(r)
          BY <3>2, <4>1 DEF Earliest
        <4>3. Earliest(r)' + passes[r] * Ttl <= seen[r]
          BY <4>1, <4>2 DEF SpacingInv
        <4>4. passes[r] * Ttl \in Nat
          BY <3>4, TimeAssumption DEF Ttl
        <4>5. Earliest(r)' <= now
          BY <3>1, <3>4, <3>6, <4>3, <4>4
        <4>6. QED
          BY <4>3, <4>5
      <3>9. passes[r] = 0 => Earliest(r)' <= now
        <4>1. CASE now < StampOf[r] /\ passes[r] = 0
          BY <3>2, <3>5, <4>1 DEF Earliest
        <4>2. CASE ~(now < StampOf[r]) /\ passes[r] = 0
          BY <3>4, <3>5, <4>2 DEF Earliest
        <4>3. QED
          BY <4>1, <4>2
      <3>10. /\ Earliest(r)' + (passes[r] + 1) * Ttl <= now + Ttl
             /\ passes[r] * Ttl <= Room(r)'
        BY <3>1, <3>4, <3>6, <3>7, <3>8, <3>9, NextReservation
      <3>11. (passes'[r] - 1) * Ttl = passes[r] * Ttl
        BY <3>1, <3>4
      <3>12. QED
        BY <3>1, <3>10, <3>11
    <2>2. CASE r # req[h]
      <3>1. passes'[r] = passes[r] /\ seen'[r] = seen[r]
        BY <1>2, <2>2 DEF Reserve, Passed, TypeOK
      <3>2. r \in early' <=> r \in early
        BY <1>2, <2>2 DEF Reserve, Passed
      <3>3. QED
        BY <1>1, <3>1, <3>2
    <2>3. QED
      BY <2>1, <2>2
  <1>3. ASSUME NEW h \in Handlers, EndTransaction(h)
        PROVE  passes' = passes /\ seen' = seen /\ early' = early
    BY <1>3, EndGuard DEF guard
  <1>4. QED
    BY <1>1, <1>2, <1>3, OtherGuard
    DEF Next, Progress, ReplayRefused, Throttled, FlushEventConflict, Fail, Commit, Rollback

\* A multiple of a divisor that fits into a number counts at most its quotient.
LEMMA Quotient ==
  ASSUME NEW k \in Nat, NEW d \in Nat, NEW x \in Nat, d # 0, k * d <= x
  PROVE  k <= x \div d
  <1> DEFINE q == x \div d
  <1>1. q \in Nat /\ x < (q + 1) * d
    OBVIOUS
  <1>2. SUFFICES ASSUME q + 1 <= k PROVE FALSE
    BY <1>1
  <1>3. (q + 1) * d <= k * d
    BY <1>1, <1>2
  <1>4. QED
    BY <1>1, <1>3

\* For every window, delay and number of deliveries, and whatever handlers take them: a request
\* is counted no oftener than reservations fit between its first arrival and its last valid one.
THEOREM DuplicatesAreReserved == Spec => []CountedAsReserved
  <1>1. Init => CredInv /\ PassInv /\ ClockInv /\ SpacingInv
    <2> SUFFICES ASSUME Init PROVE CredInv /\ PassInv /\ ClockInv /\ SpacingInv
      OBVIOUS
    <2>1. CredInv /\ ClockInv /\ SpacingInv
      BY DEF Init, CredInv, ClockInv, SpacingInv
    <2>2. \A r \in Requests : ~Underway(r)
      BY DEF Init, Underway, PastGuard
    <2>3. PassInv
      BY <2>2 DEF Init, PassInv
    <2>4. QED
      BY <2>1, <2>3
  <1>2. TypeOK /\ PassInv /\ SpacingInv => CountedAsReserved
    <2> SUFFICES ASSUME TypeOK, PassInv, SpacingInv, NEW r \in Requests
                 PROVE  ingested[r] <= MaxPasses(r)
      BY DEF CountedAsReserved
    <2>1. ingested[r] \in Nat /\ passes[r] \in Nat /\ ingested[r] <= passes[r]
      BY DEF TypeOK, PassInv
    <2>2. Room(r) \in Nat /\ Ttl \in Nat /\ Ttl # 0
      BY TimeAssumption DEF Room, Ttl
    <2>3. MaxPasses(r) = 1 + Room(r) \div Ttl
      BY DEF MaxPasses, Room
    <2>4. CASE passes[r] = 0
      <3>1. Room(r) \div Ttl \in Nat
        BY <2>2
      <3>2. QED
        BY <2>1, <2>3, <2>4, <3>1
    <2>5. CASE passes[r] # 0
      <3>1. passes[r] - 1 \in Nat /\ (passes[r] - 1) * Ttl <= Room(r)
        BY <2>1, <2>5 DEF SpacingInv
      <3>2. passes[r] - 1 <= Room(r) \div Ttl /\ Room(r) \div Ttl \in Nat
        BY <2>2, <3>1, Quotient
      <3>3. QED
        BY <2>1, <2>3, <3>2
    <2>6. QED
      BY <2>4, <2>5
  <1>3. QED
    BY <1>1, <1>2, TypeCorrect, StepCred, StepPass, StepClock, StepSpacing, PTL DEF Spec

-----------------------------------------------------------------------------
(* The queue overruns its limit by less than the number of monitors: the    *)
(* credential's row lets one request per monitor be past the capacity check. *)

\* A handler that has read the count of pending jobs and not yet ended.
PastCheck(h) == pc[h] \in {"scan", "event", "insert", "merge", "commit"}

\* The monitors whose row is held by a handler that may still append a job.
Appending == {m \in Monitors : \E h \in Handlers : credLock[m] = h /\ PastCheck(h)}

\* The jobs that are there and the jobs that may come.
OverrunInv == pendingJobs + Cardinality(Appending) < MaxPending + Cardinality(Monitors)

\* The monitors appending are finitely many, and no more than all.
LEMMA AppendingBounded ==
  /\ IsFiniteSet(Appending) /\ Cardinality(Appending) \in Nat
  /\ Cardinality(Appending) <= Cardinality(Monitors) /\ Cardinality(Monitors) \in Nat
  <1>1. Appending \subseteq Monitors
    BY DEF Appending
  <1>2. QED
    BY <1>1, MonitorsAssumption, FS_Subset, FS_CardinalityType

\* Fewer monitors appending and no more jobs keep the bound.
LEMMA FewerAppending ==
  ASSUME TypeOK, TypeOK', OverrunInv, pendingJobs' <= pendingJobs, Appending' \subseteq Appending
  PROVE  OverrunInv'
  <1>1. Cardinality(Appending') <= Cardinality(Appending) /\ Cardinality(Appending') \in Nat
    BY AppendingBounded, FS_Subset, FS_CardinalityType
  <1>2. pendingJobs \in Nat /\ pendingJobs' \in Nat /\ MaxPending \in Nat
    BY LimitAssumption DEF TypeOK
  <1>3. QED
    BY <1>1, <1>2, AppendingBounded DEF OverrunInv

\* Every step keeps the bound: the check that lets a monitor append sees all the jobs
\* that are there, and a commit turns a job that may come into one that has.
LEMMA StepOverrun ==
  ASSUME TypeOK, TypeOK', RequestInv, CredInv, OverrunInv, [Next]_vars PROVE OverrunInv'
  <1>0. pendingJobs \in Nat /\ pendingJobs' \in Nat /\ MaxPending \in Nat
    BY LimitAssumption DEF TypeOK
  <1>1. ASSUME NEW h \in Handlers, EndTransaction(h)
        PROVE  Appending' \subseteq Appending \ {MonitorOf[req[h]]} \/ pc[h] \in {"idle", "verify"}
    <2> SUFFICES ASSUME pc[h] \notin {"idle", "verify"}, NEW m \in Monitors, NEW g \in Handlers,
                        credLock'[m] = g, PastCheck(g)'
                 PROVE  m # MonitorOf[req[h]] /\ credLock[m] = g /\ PastCheck(g)
      BY DEF Appending
    <2>1. g # h /\ PastCheck(g)
      BY <1>1 DEF EndTransaction, Goto, TypeOK, PastCheck
    <2>2. credLock[m] = g
      BY <1>1, <2>1, HandlerAssumption DEF EndTransaction, Release, TypeOK
    <2>3. credLock[MonitorOf[req[h]]] = h
      BY DEF CredInv
    <2>4. QED
      BY <2>1, <2>2, <2>3
  <1>2. ASSUME NEW h \in Handlers, EndTransaction(h) PROVE Appending' \subseteq Appending
    <2> SUFFICES ASSUME NEW m \in Monitors, NEW g \in Handlers, credLock'[m] = g, PastCheck(g)'
                 PROVE  credLock[m] = g /\ PastCheck(g)
      BY DEF Appending
    <2>1. g # h /\ PastCheck(g)
      BY <1>2 DEF EndTransaction, Goto, TypeOK, PastCheck
    <2>2. QED
      BY <1>2, <2>1, HandlerAssumption DEF EndTransaction, Release, TypeOK
  <1>3. ASSUME NEW h \in Handlers, Rollback(h) PROVE OverrunInv'
    BY <1>0, <1>2, <1>3, FewerAppending DEF Rollback, tables
  <1>4. ASSUME NEW h \in Handlers, Commit(h) PROVE OverrunInv'
    <2>1. EndTransaction(h) /\ pc[h] = "commit" /\ pendingJobs' <= pendingJobs + 1
      BY <1>0, <1>4 DEF Commit, tables
    <2>2. MonitorOf[req[h]] \in Appending
      BY <2>1, RequestAssumption DEF Appending, PastCheck, CredInv, RequestInv
    <2>3. Appending' \subseteq Appending \ {MonitorOf[req[h]]}
      BY <1>1, <2>1
    <2>4. /\ IsFiniteSet(Appending \ {MonitorOf[req[h]]})
          /\ Cardinality(Appending \ {MonitorOf[req[h]]}) = Cardinality(Appending) - 1
      BY <2>2, AppendingBounded, FS_RemoveElement
    <2>5. Cardinality(Appending') <= Cardinality(Appending) - 1 /\ Cardinality(Appending') \in Nat
      BY <2>3, <2>4, FS_Subset, FS_CardinalityType
    <2>6. QED
      BY <1>0, <2>1, <2>5, AppendingBounded DEF OverrunInv
  <1>5. ASSUME NEW h \in Handlers, Admit(h) PROVE OverrunInv'
    <2>1. pendingJobs < MaxPending /\ pendingJobs' = pendingJobs
      BY <1>5 DEF Admit, tables
    <2>2. Appending' \subseteq Monitors
      BY DEF Appending
    <2>3. Cardinality(Appending') <= Cardinality(Monitors) /\ Cardinality(Appending') \in Nat
      BY <2>2, MonitorsAssumption, FS_Subset, FS_CardinalityType
    <2>4. QED
      BY <1>0, <2>1, <2>3, AppendingBounded DEF OverrunInv
  <1>6. ASSUME NEW h \in Handlers, Verify(h) PROVE OverrunInv'
    <2>1. Appending' \subseteq Appending
      <3> SUFFICES ASSUME NEW m \in Monitors, NEW g \in Handlers, credLock'[m] = g, PastCheck(g)'
                   PROVE  credLock[m] = g /\ PastCheck(g)
        BY DEF Appending
      <3>1. g # h /\ PastCheck(g)
        BY <1>6 DEF Verify, Goto, TypeOK, PastCheck
      <3>2. QED
        BY <1>6, <3>1 DEF Verify, TypeOK
    <2>2. QED
      BY <1>0, <1>6, <2>1, FewerAppending DEF Verify, tables
  <1>7. ASSUME \/ \E h \in Handlers : ReplayCheck(h) \/ Reserve(h) \/ Scan(h) \/ FlushEvent(h)
                                       \/ InsertAlert(h) \/ MergeAlert(h)
               \/ \E h \in Handlers, r \in Requests : Receive(h, r)
               \/ Drain \/ Tick \/ UNCHANGED vars
        PROVE  OverrunInv'
    <2>1. credLock' = credLock
      BY <1>7 DEF ReplayCheck, Reserve, Passed, Scan, FlushEvent, InsertAlert, MergeAlert,
          Receive, Drain, Tick, vars, locks
    <2>2. \A g \in Handlers : PastCheck(g)' => PastCheck(g)
      BY <1>7 DEF ReplayCheck, Reserve, Passed, Scan, FlushEvent, InsertAlert, MergeAlert,
          Receive, Drain, Tick, vars, Goto,
                  TypeOK, PastCheck
    <2>3. pendingJobs' <= pendingJobs
      BY <1>0, <1>7 DEF ReplayCheck, Reserve, Passed, Scan, FlushEvent, InsertAlert, MergeAlert,
          Receive, Drain, Tick, vars,
                  tables
    <2>4. Appending' \subseteq Appending
      BY <2>1, <2>2 DEF Appending
    <2>5. QED
      BY <2>3, <2>4, FewerAppending
  <1>8. QED
    BY <1>3, <1>4, <1>5, <1>6, <1>7
    DEF Next, Progress, ReplayRefused, Throttled, FlushEventConflict, Fail

\* For every limit and any number of monitors and handlers, the pending jobs of an organization
\* exceed max_pending_jobs by less than its monitors.
THEOREM QueueIsBounded == Spec => []QueueOverrunBounded
  <1>1. Init => CredInv
    BY DEF Init, CredInv
  <1>2. Init => OverrunInv
    <2> SUFFICES ASSUME Init PROVE OverrunInv
      OBVIOUS
    <2>1. Appending = {}
      BY DEF Init, Appending, PastCheck
    <2>2. Cardinality(Appending) = 0
      BY <2>1, FS_EmptySet
    <2>3. pendingJobs = 0 /\ MaxPending \in Nat \ {0}
      BY LimitAssumption DEF Init
    <2>4. QED
      BY <2>2, <2>3, AppendingBounded DEF OverrunInv
  <1>3. TypeOK /\ RequestInv /\ CredInv /\ OverrunInv /\ TypeOK' /\ [Next]_vars => OverrunInv'
    BY StepOverrun
  <1>4. TypeOK /\ OverrunInv => QueueOverrunBounded
    BY LimitAssumption, AppendingBounded DEF TypeOK, OverrunInv, QueueOverrunBounded
  <1>5. QED
    BY <1>1, <1>2, <1>3, <1>4, TypeCorrect, StepCred, PTL DEF Spec

=============================================================================
