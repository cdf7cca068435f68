------------------------ MODULE IntegrationDelivery ------------------------
(***************************************************************************)
(* The outbox of security integrations (services/integrations, repositories*)
(* /integrations.py, api/integrations.py, jobs/security_export.py): events *)
(* become delivery rows, runs of the export job claim them, send them and  *)
(* record what came back, operators disable, test and retry.               *)
(*                                                                         *)
(* A run is ONE transaction: the sends happen before the commit of the     *)
(* claim.  The status "delivering" and its lease are therefore never       *)
(* committed, and what excludes two runs from a row is its lock.  A flush  *)
(* writes only the columns that differ from what was loaded.               *)
(***************************************************************************)
EXTENDS Integers, Sequences, SequencesExt, FiniteSets

CONSTANTS
  Workers,        \* overlapping runs of the export job
  Handlers,       \* API workers serving operators
  Integrations,
  Events,         \* canonical events, one per source object, version and type
  Filter,         \* the routing rules of an integration
  Envelope,       \* what the routing looks at in an event
  None,
  Batch,          \* security_export_worker_batch_size
  MaxAttempts,    \* security_export_max_attempts
  MaxRequests,    \* bound: operator requests
  MaxLost         \* bound: runs lost to a crash or an exception

\* idempotency_key: one row per integration and event.
Deliveries == Integrations \X Events

ASSUME ActorAssumption == None \notin Workers
ASSUME LimitAssumption == {Batch, MaxAttempts} \subseteq Nat \ {0} /\ {MaxRequests, MaxLost} \subseteq Nat

VARIABLES
  integration,    \* security_integrations.status, "none" without a row
  delivery,       \* integration_deliveries: status, attempt_count, next_attempt_at passed
  outbox,         \* the rows in the order of created_at
  deadLetters,    \* deliveries with a row in integration_dead_letters
  pc,             \* per run: its next step
  cand,           \* claim_deliveries: candidates still to be claimed
  batch,          \* claimed deliveries still to be processed
  seen,           \* the status of the current delivery's integration as loaded
  result,         \* the classified response to the last send
  row, status,    \* rows written by the run and not yet committed
  deliveryLock, integrationLock,
  request,        \* per handler: the operation, the row and its status as loaded
  requests, lost,
  requeued, delivered  \* history of a row: retried after it was settled, recorded as delivered

rows == <<integration, delivery, outbox, deadLetters>>
run == <<pc, cand, batch, seen, result, row, status>>
locks == <<deliveryLock, integrationLock>>
bounds == <<requests, lost>>
history == <<requeued, delivered>>
vars == <<rows, run, locks, request, bounds, history>>

IntegrationStatuses == {"none", "active", "degraded", "revoked"}
Decisions == {"success", "retry", "permanent"}
Settled == {"delivered", "dead_lettered"}
Open == {"queued", "retrying"}

Row(s, n, due) == [status |-> s, attempts |-> n, due |-> due]
NoRow == Row("none", 0, FALSE)
NoRequest == [op |-> "none", target |-> None, loaded |-> "none"]
AllRows == [d \in Deliveries |-> NoRow]
NoStatus == [i \in Integrations |-> "none"]

\* A delivery that is being sent is never committed: nothing would claim it again.
TypeOK ==
  /\ integration \in [Integrations -> IntegrationStatuses]
  /\ \A d \in Deliveries :
       /\ delivery[d].status \in {"none"} \cup Open \cup Settled
       /\ delivery[d].attempts \in Nat /\ delivery[d].due \in BOOLEAN
  /\ outbox \in Seq(Deliveries) /\ IsInjective(outbox)
  /\ ToSet(outbox) = {d \in Deliveries : delivery[d] # NoRow}
  /\ deadLetters \subseteq Deliveries
  /\ pc \in [Workers -> {"idle", "claim", "process", "send", "record", "commit"}]
  /\ cand \in [Workers -> Seq(Deliveries)] /\ batch \in [Workers -> Seq(Deliveries)]
  /\ seen \in [Workers -> IntegrationStatuses]
  /\ result \in [Workers -> Decisions \cup {"none"}]
  /\ status \in [Workers -> [Integrations -> {"none", "degraded"}]]
  /\ deliveryLock \in [Deliveries -> Workers \cup {None}]
  /\ integrationLock \in [Integrations -> Workers \cup {None}]
  /\ {requests, lost} \subseteq Nat
  /\ {requeued, delivered} \subseteq [Deliveries -> Nat]

Init ==
  /\ integration = NoStatus
  /\ delivery = AllRows
  /\ outbox = <<>>
  /\ deadLetters = {}
  /\ pc = [w \in Workers |-> "idle"]
  /\ cand = [w \in Workers |-> <<>>]
  /\ batch = [w \in Workers |-> <<>>]
  /\ seen = [w \in Workers |-> "none"]
  /\ result = [w \in Workers |-> "none"]
  /\ row = [w \in Workers |-> AllRows]
  /\ status = [w \in Workers |-> NoStatus]
  /\ deliveryLock = [d \in Deliveries |-> None]
  /\ integrationLock = [i \in Integrations |-> None]
  /\ request = [h \in Handlers |-> NoRequest]
  /\ requests = 0 /\ lost = 0
  /\ requeued = [d \in Deliveries |-> 0]
  /\ delivered = [d \in Deliveries |-> 0]

-----------------------------------------------------------------------------
(* Operators and events. *)

\* A write of x waits for the run that has written it.
Free(lock, x, w) == lock[x] \in {None, w}

\* create_integration: active at once, its endpoint having been validated.
CreateIntegration(i) ==
  /\ integration[i] = "none"
  /\ integration' = [integration EXCEPT ![i] = "active"]
  /\ UNCHANGED <<delivery, outbox, deadLetters, run, locks, request, bounds, history>>

\* routing.matches: severity, the toggles for coverage and operational events, and
\* the lists of event types and surfaces, where an empty list admits everything.
Matches(i, e) ==
  LET f == Filter[i] v == Envelope[e] IN
  /\ v.severity >= f.minimum
  /\ v.source = "coverage_gap" => f.coverage
  /\ v.source = "operational_event" => f.operational
  /\ f.types = {} \/ v.type \in f.types
  /\ f.surfaces = {} \/ f.surfaces \cap v.surfaces # {}

\* emit_event: a row for every active integration that matches and has none yet; a
\* duplicate key is ignored.  The integrations come in the order of the query's plan.
Emit(e) ==
  LET new == {<<i, e>> : i \in {j \in Integrations : integration[j] = "active" /\ Matches(j, e)}}
             \ {d \in Deliveries : delivery[d] # NoRow}
  IN
  /\ new # {}
  /\ \E s \in SetToSeqs(new) : outbox' = outbox \o s
  /\ delivery' = [d \in Deliveries |-> IF d \in new THEN Row("queued", 0, TRUE) ELSE delivery[d]]
  /\ UNCHANGED <<integration, deadLetters, run, locks, request, bounds, history>>

\* next_attempt_at of a retry has come.
BackoffElapses(d) ==
  /\ delivery[d].status = "retrying" /\ ~delivery[d].due
  /\ delivery' = [delivery EXCEPT ![d].due = TRUE]
  /\ UNCHANGED <<integration, outbox, deadLetters, run, locks, request, bounds, history>>

\* get_integration, get_delivery: an operator's request loads its row.
Request(h, op, x) ==
  /\ request[h] = NoRequest /\ requests < MaxRequests
  /\ IF op = "retry" THEN x \in Deliveries /\ delivery[x] # NoRow
                     ELSE x \in Integrations /\ integration[x] # "none"
  /\ request' = [request EXCEPT ![h] = [op |-> op, target |-> x,
       loaded |-> IF op = "retry" THEN delivery[x].status ELSE integration[x]]]
  /\ requests' = requests + 1
  /\ UNCHANGED <<rows, run, locks, lost, history>>

\* Mutant: the status is written whatever was loaded.
AssignedMutant(loaded, current, new) == new

\* A column is written if its new value is not the one that was loaded.
Assigned(loaded, current, new) == IF new = loaded THEN current ELSE new

Answered(h) == request' = [request EXCEPT ![h] = NoRequest]

\* set_status of an endpoint: waits for a run that has written the row.
SetStatus(h, s) ==
  LET i == request[h].target IN
  /\ Free(integrationLock, i, None)
  /\ integration' = [integration EXCEPT ![i] = Assigned(request[h].loaded, @, s)]
  /\ Answered(h)
  /\ UNCHANGED <<delivery, outbox, deadLetters, run, locks, bounds, history>>

\* disable_integration
Disable(h) == request[h].op = "disable" /\ SetStatus(h, "revoked")

\* test_integration: whatever the status was, it follows the response to a test event.
Test(h) == request[h].op = "test" /\ \E s \in {"active", "degraded"} : SetStatus(h, s)

\* retry_delivery, requeue_delivery: any delivery, with its attempts as they are.
Retry(h) ==
  LET d == request[h].target IN
  /\ request[h].op = "retry"
  /\ Free(deliveryLock, d, None)
  /\ delivery[d] # NoRow
  /\ delivery' = [delivery EXCEPT ![d] =
       Row(Assigned(request[h].loaded, @.status, "queued"), @.attempts, TRUE)]
  /\ requeued' = [requeued EXCEPT ![d] =
       @ + IF delivery[d].status \in Settled /\ delivery'[d].status = "queued" THEN 1 ELSE 0]
  /\ Answered(h)
  /\ UNCHANGED <<integration, outbox, deadLetters, run, locks, bounds, delivered>>

\* The request fails (a refused endpoint, a test too many):
\* its transaction is rolled back.
Abort(h) ==
  /\ request[h] # NoRequest
  /\ Answered(h)
  /\ UNCHANGED <<rows, run, locks, bounds, history>>

\* purge_integration_deliveries: the retention job deletes an old settled row, and
\* with it the key that kept the event from being enqueued again.  No run or request
\* lasts as long as rows are retained.
Purge(d) ==
  /\ delivery[d].status \in Settled
  /\ \A w \in Workers : d \notin ToSet(cand[w])
  /\ \A h \in Handlers : request[h].target # d
  /\ delivery' = [delivery EXCEPT ![d] = NoRow]
  /\ outbox' = SelectSeq(outbox, LAMBDA x : x # d)
  /\ requeued' = [requeued EXCEPT ![d] = 0]
  /\ delivered' = [delivered EXCEPT ![d] = 0]
  /\ UNCHANGED <<integration, deadLetters, run, locks, request, bounds>>

-----------------------------------------------------------------------------
(* A run of the export job. *)

Goto(w, step) == pc' = [pc EXCEPT ![w] = step]

Release(lock, w) == [x \in DOMAIN lock |-> IF lock[x] = w THEN None ELSE lock[x]]

EndRun(w) ==
  /\ Goto(w, "idle")
  /\ cand' = [cand EXCEPT ![w] = <<>>]
  /\ batch' = [batch EXCEPT ![w] = <<>>]
  /\ seen' = [seen EXCEPT ![w] = "none"]
  /\ result' = [result EXCEPT ![w] = "none"]
  /\ row' = [row EXCEPT ![w] = AllRows]
  /\ status' = [status EXCEPT ![w] = NoStatus]
  /\ deliveryLock' = Release(deliveryLock, w)
  /\ integrationLock' = Release(integrationLock, w)

\* claim_deliveries: the oldest due rows, at most a batch of them.
Select(w) ==
  LET due == SelectSeq(outbox, LAMBDA d : delivery[d].status \in Open /\ delivery[d].due) IN
  /\ pc[w] = "idle" /\ due # <<>>
  /\ cand' = [cand EXCEPT ![w] = SubSeq(due, 1, IF Len(due) < Batch THEN Len(due) ELSE Batch)]
  /\ Goto(w, "claim")
  /\ UNCHANGED <<rows, batch, seen, result, row, status, locks, request, bounds, history>>

NextStep(candidates, claimed) ==
  IF candidates # <<>> THEN "claim" ELSE IF claimed # <<>> THEN "process" ELSE "commit"

\* Mutant: the UPDATE is by id alone.
ClaimMutant(w) ==
  LET d == Head(cand[w]) IN
  /\ pc[w] = "claim"
  /\ Free(deliveryLock, d, w)
  /\ cand' = [cand EXCEPT ![w] = Tail(@)]
  /\ batch' = [batch EXCEPT ![w] = Append(@, d)]
  /\ row' = [row EXCEPT ![w][d] = Row("delivering", delivery[d].attempts, TRUE)]
  /\ deliveryLock' = [deliveryLock EXCEPT ![d] = w]
  /\ Goto(w, NextStep(Tail(cand[w]), batch'[w]))
  /\ UNCHANGED <<rows, seen, result, status, integrationLock, request, bounds, history>>

\* The UPDATE of one candidate waits for a run that has claimed it, and then looks at
\* the status again, but not at next_attempt_at.
Claim(w) ==
  LET d == Head(cand[w])
      won == delivery[d].status \in Open
      claimed == IF won THEN Append(batch[w], d) ELSE batch[w]
  IN
  /\ pc[w] = "claim"
  /\ Free(deliveryLock, d, w)
  /\ cand' = [cand EXCEPT ![w] = Tail(@)]
  /\ batch' = [batch EXCEPT ![w] = claimed]
  /\ row' = [row EXCEPT ![w][d] =
       IF won THEN Row("delivering", delivery[d].attempts, TRUE) ELSE @]
  /\ deliveryLock' = [deliveryLock EXCEPT ![d] = IF won THEN w ELSE @]
  /\ Goto(w, NextStep(Tail(cand[w]), claimed))
  /\ UNCHANGED <<rows, seen, result, status, integrationLock, request, bounds, history>>

Current(w) == Head(batch[w])
Target(w) == Current(w)[1]

\* get_integration: the row as it is committed, or as the run itself has written it.
\* The session refers to a loaded row weakly, so every delivery reads it again.
Loaded(w) == IF status[w][Target(w)] # "none" THEN status[w][Target(w)] ELSE integration[Target(w)]

\* mark_delivered, mark_retry, mark_dead_letter; the run goes on with the next delivery.
Mark(w, s) ==
  /\ row' = [row EXCEPT ![w][Current(w)] = Row(s, @.attempts + 1, s # "retrying")]
  /\ batch' = [batch EXCEPT ![w] = Tail(@)]
  /\ seen' = [seen EXCEPT ![w] = "none"]
  /\ result' = [result EXCEPT ![w] = "none"]
  /\ Goto(w, NextStep(<<>>, Tail(batch[w])))

\* _process: given up without a send, because the integration is not active or, for
\* an active one, because validate_endpoint refuses what its host resolves to now.
Refuse(w) ==
  /\ pc[w] = "process"
  /\ Mark(w, "dead_lettered")
  /\ UNCHANGED <<rows, cand, status, locks, request, bounds, history>>

\* _process: the integration is active and its endpoint validated.
Load(w) ==
  /\ pc[w] = "process"
  /\ Loaded(w) = "active"
  /\ seen' = [seen EXCEPT ![w] = Loaded(w)]
  /\ Goto(w, "send")
  /\ UNCHANGED <<rows, cand, batch, result, row, status, locks, request, bounds, history>>

\* _process: the request is sent and the response classified; a timeout is a retry.
Send(w) ==
  /\ pc[w] = "send"
  /\ \E decision \in Decisions : result' = [result EXCEPT ![w] = decision]
  /\ Goto(w, "record")
  /\ UNCHANGED <<rows, cand, batch, seen, row, status, locks, request, bounds, history>>

\* set_status of a run: the row is locked, its status written if it differs.
SetRunStatus(w, s) ==
  LET i == Target(w) IN
  /\ Free(integrationLock, i, w)
  /\ integrationLock' = [integrationLock EXCEPT ![i] = w]
  /\ status' = [status EXCEPT ![w][i] = Assigned(seen[w], @, s)]

RecordDelivered(w) ==
  /\ pc[w] = "record" /\ result[w] = "success"
  /\ SetRunStatus(w, "active")
  /\ Mark(w, "delivered")
  /\ UNCHANGED <<rows, cand, deliveryLock, request, bounds, history>>

\* The attempts that end the retries; the age that ends them is not tracked.
Exhausted(w) == row[w][Current(w)].attempts + 1 >= MaxAttempts

\* A permanent failure, the last attempt or a delivery that has become too old.
RecordGivenUp(w) ==
  /\ pc[w] = "record" /\ result[w] \in {"permanent", "retry"}
  /\ SetRunStatus(w, "degraded")
  /\ Mark(w, "dead_lettered")
  /\ UNCHANGED <<rows, cand, deliveryLock, request, bounds, history>>

RecordRetry(w) ==
  /\ pc[w] = "record" /\ result[w] = "retry" /\ ~Exhausted(w)
  /\ Mark(w, "retrying")
  /\ UNCHANGED <<rows, cand, status, locks, request, bounds, history>>

\* job_session commits.
Commit(w) ==
  LET mine == {d \in Deliveries : deliveryLock[d] = w} IN
  /\ pc[w] = "commit"
  /\ EndRun(w)
  /\ delivery' = [d \in Deliveries |-> IF d \in mine THEN row[w][d] ELSE delivery[d]]
  /\ deadLetters' = deadLetters \cup {d \in mine : row[w][d].status = "dead_lettered"}
  /\ integration' = [i \in Integrations |->
       IF status[w][i] # "none" THEN status[w][i] ELSE integration[i]]
  /\ delivered' = [d \in Deliveries |-> delivered[d] +
       IF d \in mine /\ row[w][d].status = "delivered" THEN 1 ELSE 0]
  /\ UNCHANGED <<outbox, request, bounds, requeued>>

\* The process dies, anything else than a transport error is raised, or PostgreSQL
\* chooses the run as the victim of a deadlock (two runs with deliveries of the same
\* integrations in different orders): what was sent stays sent, and the rows are due.
Lose(w) ==
  /\ pc[w] # "idle" /\ lost < MaxLost
  /\ lost' = lost + 1
  /\ EndRun(w)
  /\ UNCHANGED <<rows, request, requests, history>>

-----------------------------------------------------------------------------

Operator(h) ==
  \/ \E i \in Integrations, op \in {"disable", "test"} : Request(h, op, i)
  \/ \E d \in Deliveries : Request(h, "retry", d)
  \/ Disable(h) \/ Test(h) \/ Retry(h) \/ Abort(h)

Progress(w) ==
  \/ Select(w) \/ Claim(w) \/ Refuse(w) \/ Load(w) \/ Send(w)
  \/ RecordDelivered(w) \/ RecordGivenUp(w) \/ RecordRetry(w) \/ Commit(w)

Next ==
  \/ \E i \in Integrations : CreateIntegration(i)
  \/ \E e \in Events : Emit(e)
  \/ \E d \in Deliveries : BackoffElapses(d) \/ Purge(d)
  \/ \E h \in Handlers : Operator(h)
  \/ \E w \in Workers : Progress(w) \/ Lose(w)

Spec == Init /\ [][Next]_vars

-----------------------------------------------------------------------------
(* Properties. *)

\* "Retries never duplicate": a delivery is recorded as delivered once, and once
\* more for every time an operator has retried it after it was settled.
DeliveredOnce == \A d \in Deliveries : delivered[d] <= 1 + requeued[d]

\* set_status(integration, "active") after a delivery never reverses an operator's
\* disable or another run's verdict: only a test of the connection does.
OnlyTestReactivates ==
  [][\A i \in Integrations :
       integration[i] \in {"degraded", "revoked"} /\ integration'[i] = "active"
         => \E h \in Handlers : request[h].op = "test" /\ request'[h] = NoRequest]_vars
=============================================================================
