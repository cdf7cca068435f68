-------------------------- MODULE MonitoringIngest --------------------------
(***************************************************************************)
(* POST /monitoring/events: concurrent handlers of one organization's      *)
(* signed monitoring requests, each in one database transaction            *)
(* (api/pipeline.py, services/pipeline.py, repositories/artifacts.py).     *)
(*                                                                         *)
(* The database is PostgreSQL at READ COMMITTED: a statement sees what is  *)
(* committed, an INSERT or UPDATE of a row another transaction has written *)
(* waits for that transaction, and everything a handler wrote appears, or  *)
(* vanishes, when its transaction ends.  The nonce reserved in Redis is    *)
(* outside the transaction: no rollback gives it back, it expires          *)
(* (services/replay.py).  Redis refuses when it is down (REDIS_FAIL_MODE   *)
(* "closed", the only mode production starts with).  Onboarding, which can *)
(* mark a detection test here, is off (the default ONBOARDING_ENABLED).    *)
(***************************************************************************)
EXTENDS Integers, FiniteSets

CONSTANTS
  Handlers,       \* requests the API workers can handle at the same time
  Requests,       \* signed requests, each with a nonce of its own
  Monitors,       \* monitor credentials
  Events,         \* detection events: trace, location and digest of a value
  Alerts,         \* alert episodes
  MonitorOf,      \* the credential that signed a request
  EventOf,        \* the event a request's value matches, or NoEvent
  AlertOf,        \* the episode an event falls into
  StampOf,        \* the timestamp a request was signed with
  NoEvent, None,
  Window,         \* monitoring_timestamp_skew_seconds
  MaxDelay,       \* how long a handler may take from reading the clock to the reservation
  MaxPending,     \* max_pending_jobs of the organization
  MaxDeliveries,  \* bound: deliveries handled, duplicates included
  MaxTime         \* bound on the clock

ASSUME RequestAssumption ==
  /\ MonitorOf \in [Requests -> Monitors]
  /\ EventOf \in [Requests -> Events \cup {NoEvent}]
  /\ AlertOf \in [Events -> Alerts]
  /\ StampOf \in [Requests -> Int]
  /\ NoEvent \notin Events
ASSUME HandlerAssumption == None \notin Handlers /\ None \notin Requests
ASSUME LimitAssumption == MaxPending \in Nat \ {0} /\ MaxDeliveries \in Nat
ASSUME TimeAssumption == Window \in Nat /\ MaxDelay \in Nat /\ MaxTime \in Nat
ASSUME MonitorsAssumption == IsFiniteSet(Monitors)

VARIABLES
  delivered,      \* how many deliveries have reached a worker
  now,            \* the clock of the workers and of Redis
  seen,           \* Redis: when the reservation of a request's nonce expires, 0 without one
  events,         \* rows of detection_events
  eventCount,     \* alerts.event_count per episode, 0 without a row
  pendingJobs,    \* rows of reconstruction_jobs with status "pending"
  pc, req,        \* per handler: the next step and the request it handles
  sawEvent,       \* per handler: the merge found a row for its event
  row,            \* per handler: the event_count it will commit
  clock,          \* per handler: the time its replay guard has read
  credLock, eventLock, alertLock,   \* row locks: the handler holding each, or None
  recorded,       \* history: committed detections per episode
  ingested,       \* history: commits per request
  passes,         \* history: reservations per request
  early           \* history: requests first reserved before the time they are stamped with

locks == <<credLock, eventLock, alertLock>>
tables == <<events, eventCount, pendingJobs>>
guard == <<now, seen, passes, early>>
history == <<recorded, ingested>>
vars == <<delivered, guard, tables, pc, req, sawEvent, row, clock, locks, history>>

Steps == {"idle", "verify", "replay", "reserve", "admit", "scan", "event", "insert",
          "merge", "commit"}

\* A reservation outlives the skew window by one second.
Ttl == Window + 1

EventFor(h) == EventOf[req[h]]
AlertFor(h) == AlertOf[EventFor(h)]

\* One type invariant for tables, locks and handlers.
TypeOK ==
  /\ delivered \in Nat
  /\ now \in Nat
  /\ seen \in [Requests -> Nat]
  /\ events \subseteq Events
  /\ eventCount \in [Alerts -> Nat]
  /\ pendingJobs \in Nat
  /\ pc \in [Handlers -> Steps]
  /\ req \in [Handlers -> Requests \cup {None}]
  /\ sawEvent \in [Handlers -> BOOLEAN]
  /\ row \in [Handlers -> Nat]
  /\ clock \in [Handlers -> Nat]
  /\ credLock \in [Monitors -> Handlers \cup {None}]
  /\ eventLock \in [Events -> Handlers \cup {None}]
  /\ alertLock \in [Alerts -> Handlers \cup {None}]
  /\ recorded \in [Alerts -> Nat]
  /\ ingested \in [Requests -> Nat]
  /\ passes \in [Requests -> Nat]
  /\ early \subseteq Requests

Init ==
  /\ delivered = 0
  /\ now = 0
  /\ seen = [r \in Requests |-> 0]
  /\ events = {}
  /\ eventCount = [a \in Alerts |-> 0]
  /\ pendingJobs = 0
  /\ pc = [h \in Handlers |-> "idle"]
  /\ req = [h \in Handlers |-> None]
  /\ sawEvent = [h \in Handlers |-> FALSE]
  /\ row = [h \in Handlers |-> 0]
  /\ clock = [h \in Handlers |-> 0]
  /\ credLock = [m \in Monitors |-> None]
  /\ eventLock = [e \in Events |-> None]
  /\ alertLock = [a \in Alerts |-> None]
  /\ recorded = [a \in Alerts |-> 0]
  /\ ingested = [r \in Requests |-> 0]
  /\ passes = [r \in Requests |-> 0]
  /\ early = {}

-----------------------------------------------------------------------------
(* Transactions. *)

Goto(h, step) == pc' = [pc EXCEPT ![h] = step]

\* The row is not locked by another transaction.
Free(lock, x, h) == lock[x] \in {None, h}

Release(lock, h) == [x \in DOMAIN lock |-> IF lock[x] = h THEN None ELSE lock[x]]

\* Mutant: the session is returned with its locks on alerts still held.
EndTransactionMutant(h) ==
  /\ Goto(h, "idle")
  /\ credLock' = Release(credLock, h)
  /\ eventLock' = Release(eventLock, h)
  /\ req' = [req EXCEPT ![h] = None]
  /\ sawEvent' = [sawEvent EXCEPT ![h] = FALSE]
  /\ row' = [row EXCEPT ![h] = 0]
  /\ clock' = [clock EXCEPT ![h] = 0]
  /\ UNCHANGED <<alertLock, delivered, guard>>

\* get_db ends the transaction of h: every lock it holds is given up.
EndTransaction(h) ==
  /\ Goto(h, "idle")
  /\ credLock' = Release(credLock, h)
  /\ eventLock' = Release(eventLock, h)
  /\ alertLock' = Release(alertLock, h)
  /\ req' = [req EXCEPT ![h] = None]
  /\ sawEvent' = [sawEvent EXCEPT ![h] = FALSE]
  /\ row' = [row EXCEPT ![h] = 0]
  /\ clock' = [clock EXCEPT ![h] = 0]
  /\ UNCHANGED <<delivered, guard>>

\* Any exception, an HTTPException included, rolls back what h wrote.
Rollback(h) == EndTransaction(h) /\ UNCHANGED <<tables, history>>

-----------------------------------------------------------------------------
(* The handler, step by step. *)

\* A first or a repeated delivery of r reaches a worker; the body is small enough.
Receive(h, r) ==
  /\ pc[h] = "idle" /\ delivered < MaxDeliveries
  /\ delivered' = delivered + 1
  /\ req' = [req EXCEPT ![h] = r]
  /\ Goto(h, "verify")
  /\ UNCHANGED <<guard, tables, sawEvent, row, clock, locks, history>>

\* verify_request: a valid signature updates last_used_at of the credential,
\* so the transaction holds that row until it ends.
Verify(h) ==
  /\ pc[h] = "verify"
  /\ Free(credLock, MonitorOf[req[h]], h)
  /\ credLock' = [credLock EXCEPT ![MonitorOf[req[h]]] = h]
  /\ Goto(h, "replay")
  /\ UNCHANGED <<delivered, guard, tables, req, sawEvent, row, clock, eventLock, alertLock, history>>

\* The request is too old, or too far ahead of the clock.
Skewed(r) == now - StampOf[r] > Window \/ StampOf[r] - now > Window

\* ReplayGuard.check reads the clock once and refuses a skewed request ...
ReplayCheck(h) ==
  /\ pc[h] = "replay"
  /\ ~Skewed(req[h])
  /\ clock' = [clock EXCEPT ![h] = now]
  /\ Goto(h, "reserve")
  /\ UNCHANGED <<delivered, guard, tables, req, sawEvent, row, locks, history>>

\* What a request that goes on past the guard leaves behind.
Passed(h) ==
  /\ passes' = [passes EXCEPT ![req[h]] = @ + 1]
  /\ early' = IF passes[req[h]] = 0 /\ now < StampOf[req[h]] THEN early \cup {req[h]} ELSE early
  /\ clock' = [clock EXCEPT ![h] = 0]
  /\ Goto(h, "admit")

\* Mutant: the nonce is looked up but only the admitted request would reserve it.
ReserveMutant(h) ==
  /\ pc[h] = "reserve"
  /\ seen[req[h]] <= now
  /\ Passed(h)
  /\ UNCHANGED <<delivered, now, seen, tables, req, sawEvent, row, locks, history>>

\* ... and reserves the nonce: SET key NX EX in Redis, which drops a reservation when it
\* expires, counted from the arrival of the command and not from the stamp.
Reserve(h) ==
  /\ pc[h] = "reserve"
  /\ seen[req[h]] <= now
  /\ seen' = [seen EXCEPT ![req[h]] = now + Ttl]
  /\ Passed(h)
  /\ UNCHANGED <<delivered, now, tables, req, sawEvent, row, locks, history>>

\* A skewed request is answered 400, a reserved nonce 409, and any request 503 when Redis
\* is unreachable.
ReplayRefused(h) ==
  /\ pc[h] \in {"replay", "reserve"}
  /\ Rollback(h)

\* Mutant: ">" instead of ">=" in the capacity check.
AdmitMutant(h) ==
  /\ pc[h] = "admit"
  /\ pendingJobs <= MaxPending
  /\ Goto(h, "scan")
  /\ UNCHANGED <<delivered, guard, tables, req, sawEvent, row, clock, locks, history>>

\* Rate limit, queue capacity and quota: the count of pending jobs is read here
\* and not looked at again.
Admit(h) ==
  /\ pc[h] = "admit"
  /\ pendingJobs < MaxPending
  /\ Goto(h, "scan")
  /\ UNCHANGED <<delivered, guard, tables, req, sawEvent, row, clock, locks, history>>

\* Any of the three answers 429: the transaction is over, the nonce stays used.
Throttled(h) ==
  /\ pc[h] = "admit"
  /\ Rollback(h)

\* ingest_event: match the value against the plan's accepted decoys; on a match
\* the merge of add_detection_event first looks for a row with the event's id.
Scan(h) ==
  /\ pc[h] = "scan"
  /\ IF EventFor(h) = NoEvent
       THEN Goto(h, "commit") /\ UNCHANGED sawEvent
       ELSE /\ sawEvent' = [sawEvent EXCEPT ![h] = EventFor(h) \in events]
            /\ Goto(h, "event")
  /\ UNCHANGED <<delivered, guard, tables, req, row, clock, locks, history>>

\* The flush of the merge: UPDATE the row that was found, or INSERT one.
FlushEvent(h) ==
  /\ pc[h] = "event"
  /\ Free(eventLock, EventFor(h), h)
  /\ sawEvent[h] \/ EventFor(h) \notin events
  /\ eventLock' = [eventLock EXCEPT ![EventFor(h)] = h]
  /\ Goto(h, "insert")
  /\ UNCHANGED <<delivered, guard, tables, req, sawEvent, row, clock, credLock, alertLock, history>>

\* An equal event was committed since the merge looked: the INSERT violates the
\* primary key, nothing catches it and the request fails.
FlushEventConflict(h) ==
  /\ pc[h] = "event"
  /\ Free(eventLock, EventFor(h), h)
  /\ ~sawEvent[h] /\ EventFor(h) \in events
  /\ Rollback(h)

\* upsert_alert_atomic, first half: INSERT the candidate inside a savepoint.
\* If the episode has a row, the savepoint is rolled back and the row merged.
InsertAlert(h) ==
  LET a == AlertFor(h) IN
  /\ pc[h] = "insert"
  /\ Free(alertLock, a, h)
  /\ IF eventCount[a] = 0
       THEN /\ alertLock' = [alertLock EXCEPT ![a] = h]
            /\ row' = [row EXCEPT ![h] = 1]
            /\ Goto(h, "commit")
       ELSE Goto(h, "merge") /\ UNCHANGED <<alertLock, row>>
  /\ UNCHANGED <<delivered, guard, tables, req, sawEvent, clock, credLock, eventLock, history>>

\* Mutant: the row is read without FOR UPDATE.
MergeAlertMutant(h) ==
  /\ pc[h] = "merge"
  /\ row' = [row EXCEPT ![h] = eventCount[AlertFor(h)] + 1]
  /\ Goto(h, "commit")
  /\ UNCHANGED <<delivered, guard, tables, req, sawEvent, clock, locks, history>>

\* Second half: SELECT ... FOR UPDATE, then combine_alerts adds the candidate's
\* one event to the count that was read under the lock.
MergeAlert(h) ==
  LET a == AlertFor(h) IN
  /\ pc[h] = "merge"
  /\ Free(alertLock, a, h)
  /\ alertLock' = [alertLock EXCEPT ![a] = h]
  /\ row' = [row EXCEPT ![h] = eventCount[a] + 1]
  /\ Goto(h, "commit")
  /\ UNCHANGED <<delivered, guard, tables, req, sawEvent, clock, credLock, eventLock, history>>

\* enqueue_reconstruction, then the commit of get_db publishes it all.
Commit(h) ==
  LET a == AlertFor(h) IN
  /\ pc[h] = "commit"
  /\ EndTransaction(h)
  /\ IF EventFor(h) = NoEvent
       THEN UNCHANGED <<tables, recorded>>
       ELSE /\ events' = events \cup {EventFor(h)}
            /\ eventCount' = [eventCount EXCEPT ![a] = row[h]]
            /\ pendingJobs' = pendingJobs + 1
            /\ recorded' = [recorded EXCEPT ![a] = @ + 1]
  /\ ingested' = [ingested EXCEPT ![req[h]] = @ + 1]

\* A refused signature, a database error or the death of the worker.
Fail(h) ==
  /\ pc[h] # "idle"
  /\ Rollback(h)

\* A reconstruction worker commits the completion of a job.
Drain ==
  /\ pendingJobs > 0
  /\ pendingJobs' = pendingJobs - 1
  /\ UNCHANGED <<delivered, guard, events, eventCount, pc, req, sawEvent, row, clock, locks,
                 history>>

\* Time passes, but not beyond the delay a handler may have before its reservation.
Tick ==
  /\ now < MaxTime
  /\ \A h \in Handlers : pc[h] = "reserve" => now < clock[h] + MaxDelay
  /\ now' = now + 1
  /\ UNCHANGED <<delivered, seen, passes, early, tables, pc, req, sawEvent, row, clock, locks,
                 history>>

Progress(h) ==
  \/ Verify(h) \/ ReplayCheck(h) \/ Reserve(h) \/ ReplayRefused(h) \/ Admit(h) \/ Throttled(h)
  \/ Scan(h) \/ FlushEvent(h) \/ FlushEventConflict(h)
  \/ InsertAlert(h) \/ MergeAlert(h) \/ Commit(h)

Next ==
  \/ \E h \in Handlers :
       \/ Progress(h) \/ Fail(h)
       \/ \E r \in Requests : Receive(h, r)
  \/ Drain
  \/ Tick

Spec == Init /\ [][Next]_vars

\* The API server keeps executing a handler whose next statement is not waiting
\* for a row; failures, monitors and the worker are under no obligation.
Fairness == \A h \in Handlers : WF_vars(Progress(h))

FairSpec == Spec /\ Fairness

-----------------------------------------------------------------------------
(* Properties. *)

\* "No lost update": the count of an episode is the number of ingests of it that
\* were committed, however many handlers upserted the row at the same time.
NoLostUpdate == \A a \in Alerts : eventCount[a] = recorded[a]

\* A reservation lasts Ttl from its arrival, and the last one of a request comes within the
\* window after its stamp and the delay; the first may come a window before the stamp, which
\* then leaves room for one more.
MaxPasses(r) ==
  1 + ((IF r \in early THEN 2 * Window ELSE Window) + MaxDelay) \div Ttl

\* The nonce guard upstream is what keeps the merge's addition right, and only as far as its
\* reservations reach: however often a request is delivered and by whichever handlers, it is
\* counted once if it is stamped on time and Redis is not a second late, and at most as often
\* as reservations fit between its first arrival and the end of its window.
CountedAsReserved == \A r \in Requests : ingested[r] <= MaxPasses(r)

\* The capacity check reads a count that can be stale when the job is appended.
\* The credential row each handler holds from its signature check to its commit
\* lets at most one request per monitor be between the two.
QueueOverrunBounded == pendingJobs < MaxPending + Cardinality(Monitors)

\* The handlers implement the ledger: the event_count of the committed rows, however it was
\* merged, moves by atomic increments, each with one more committed job.
Ledger == INSTANCE AlertLedger WITH counted <- eventCount, waiting <- pendingJobs
ImplementsLedger == Ledger!Spec

\* No cycle of row locks: every request that reached a worker is answered.
EveryRequestAnswered ==
  \A h \in Handlers : pc[h] # "idle" ~> pc[h] = "idle"
=============================================================================
