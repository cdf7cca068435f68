---------------------------- MODULE AgentSensor ----------------------------
(***************************************************************************)
(* The agent activity sensor: enrolment and revocation of sensors, one     *)
(* session and the ingestion of its events (api/agent_sensor.py,           *)
(* services/agent_sensor, repositories/agent_sensor.py), and the wrapper   *)
(* that reports them with its bounded offline queue (agent_sdk/client.py). *)
(*                                                                         *)
(* A request of the wrapper is a transaction of its own on the server.     *)
(* Authentication writes last_used_at of the API key and so holds its row  *)
(* until the transaction ends: requests with one key follow each other,    *)
(* whereas what they have read before the lock may be stale.  A request    *)
(* that the wrapper has given up on may still be served.                   *)
(***************************************************************************)
EXTENDS ScopeRules

CONSTANTS
  Tokens,        \* enrolment tokens
  Enrollers,     \* concurrent enrolment requests
  Sensors,       \* ids for the sensors that enrolment creates
  Requests,      \* concurrent event requests on the server
  EventIds,      \* external_event_id of the agent's actions
  Activities,    \* the actions an agent may take
  Scopes,        \* the paths a session may be started with
  DecoyPaths,    \* paths where a decoy may be deployed
  MaxFileReads,  \* default of AgentScopePolicyDoc.maximum_file_reads
  EventLimit,    \* limit of events_for_session
  QueueLimit,    \* AgentClientConfig.queue_limit
  MaxGiveUps     \* bound: requests that are given up or aborted

ASSUME BoundAssumption ==
  /\ {MaxFileReads, MaxGiveUps, MinBreadth} \subseteq Nat
  /\ {EventLimit, QueueLimit, Window} \subseteq Nat \ {0}
ASSUME NoneAssumption ==
  /\ None \notin Tokens \cup Enrollers \cup Sensors \cup Requests \cup EventIds \cup Activities
  /\ None # "sensitive_file_access"

VARIABLES
  tokens,     \* enrolment tokens: consumed_at is set; the clock has passed expires_at
  enrolling,  \* enrolment requests: the token that was found usable
  sensors,    \* agent_sensors rows with the status of their API key
  session,    \* the agent_sessions row
  events,     \* its agent_activity_events in the order of observed_at
  violations, \* ids of the events with an agent_scope_violations row
  closing,    \* complete_session after its SELECT of the events
  decoys,     \* status of the decoys at DecoyPaths
  requests,   \* event requests on the server
  activity,   \* the agent's actions, by event id
  client,     \* the wrapper's call that is under way
  queue,      \* AgentClient._queue
  emitted,    \* event ids emit_event has been called with
  dropped,    \* event ids that left the queue undelivered
  giveUps,    \* history: requests given up or aborted
  late        \* history: events stored after the session was completed

serverVars == <<tokens, enrolling, sensors, session, events, violations, closing, decoys>>
clientVars == <<activity, client, queue, emitted, dropped, giveUps>>
vars == <<serverVars, clientVars, requests, late>>

Free == [pc |-> "free", event |-> None, scope |-> None]
Idle == [pc |-> "idle", sensor |-> None, new |-> None, left |-> 0, on |-> None]
NoSession == [status |-> "none", sensor |-> None, scope |-> None, summary |-> None]

Enrolled == {s \in Sensors : sensors[s] # None}

Init ==
  /\ tokens = [t \in Tokens |-> [consumed |-> FALSE, expired |-> FALSE]]
  /\ enrolling = [p \in Enrollers |-> None]
  /\ sensors = [s \in Sensors |-> None]
  /\ session = NoSession
  /\ events = <<>> /\ violations = {} /\ closing = None
  /\ decoys = [p \in DecoyPaths |-> "none"]
  /\ requests = [r \in Requests |-> Free]
  /\ activity \in [EventIds -> Activities]
  /\ client = Idle /\ queue = <<>>
  /\ emitted = {} /\ dropped = {} /\ giveUps = 0 /\ late = 0

-----------------------------------------------------------------------------
(* Enrolment and revocation. *)

\* enroll: the token is known, unused and in time when it is read.
FindToken(p, t) ==
  /\ enrolling[p] = None
  /\ ~tokens[t].consumed /\ ~tokens[t].expired
  /\ enrolling' = [enrolling EXCEPT ![p] = t]
  /\ UNCHANGED <<tokens, sensors, session, events, violations, closing, decoys, requests, clientVars, late>>

\* Mutant: the token is consumed by an unconditional UPDATE.
ConsumeMutant(p) ==
  LET t == enrolling[p] IN
  /\ t \in Tokens
  /\ tokens' = [tokens EXCEPT ![t].consumed = TRUE]
  /\ \E s \in Sensors \ Enrolled :
       sensors' = [sensors EXCEPT ![s] = [token |-> t, status |-> "active", key |-> "active"]]
  /\ enrolling' = [enrolling EXCEPT ![p] = None]
  /\ UNCHANGED <<session, events, violations, closing, decoys, requests, clientVars, late>>

\* The conditional UPDATE that consumes the token.  The sensor, its secret and its key
\* are written in the same transaction; a loser is answered 409.
Consume(p) ==
  LET t == enrolling[p] IN
  /\ t \in Tokens
  /\ IF tokens[t].consumed THEN UNCHANGED <<tokens, sensors>>
     ELSE /\ tokens' = [tokens EXCEPT ![t].consumed = TRUE]
          /\ \E s \in Sensors \ Enrolled :
               sensors' = [sensors EXCEPT ![s] = [token |-> t, status |-> "active", key |-> "active"]]
  /\ enrolling' = [enrolling EXCEPT ![p] = None]
  /\ UNCHANGED <<session, events, violations, closing, decoys, requests, clientVars, late>>

\* The clock passes expires_at.
Expire(t) ==
  /\ ~tokens[t].expired /\ ~tokens[t].consumed
  /\ tokens' = [tokens EXCEPT ![t].expired = TRUE]
  /\ UNCHANGED <<enrolling, sensors, session, events, violations, closing, decoys, requests, clientVars, late>>

\* revoke_sensor: the sensor and its API key in one transaction.  A status never leaves
\* "revoked", so the one that was loaded decides as the current one would.
Revoke(s) ==
  /\ s \in Enrolled /\ sensors[s].status = "active"
  /\ sensors' = [sensors EXCEPT ![s].status = "revoked", ![s].key = "revoked"]
  /\ UNCHANGED <<tokens, enrolling, session, events, violations, closing, decoys, requests, clientVars, late>>

-----------------------------------------------------------------------------
(* The session. *)

\* start_session of the wrapper and create_session: the session is created with the
\* paths of its scope, or the request is lost, which the wrapper does not retry.
StartSession(s) ==
  /\ session = NoSession /\ client = Idle /\ s \in Enrolled
  /\ client' = [Idle EXCEPT !.pc = "ready", !.sensor = s]
  /\ \/ session' = session
     \/ /\ sensors[s].key = "active" /\ sensors[s].status = "active"
        /\ \E scope \in Scopes :
             session' = [status |-> "active", sensor |-> s, scope |-> scope, summary |-> None]
  /\ UNCHANGED <<tokens, enrolling, sensors, events, violations, closing, decoys, requests,
                 activity, queue, emitted, dropped, giveUps, late>>

\* _scope_policy: the paths are the session's; tools, resource types, limits and gates
\* are the defaults, whatever the policy said that the session was created with.
ScopePolicy(scope) ==
  [allowed |-> scope.allowed, denied |-> scope.denied,
   allowedTools |-> {}, deniedTools |-> {}, resourceTypes |-> {},
   maxReads |-> MaxFileReads, maxSensitive |-> 0, allowSecrets |-> FALSE,
   allowDependencies |-> FALSE, allowDatabase |-> FALSE, allowNetwork |-> FALSE]

\* events_for_session: the oldest EventLimit events.
EventsForSession == SubSeq(events, 1, Min({EventLimit, Len(events)}))

\* session_summary
Summary(seen, violationCount) ==
  [events |-> Len(seen), violations |-> violationCount,
   decoyTouched |-> \E i \in DOMAIN seen : seen[i].decoy # None,
   escalation |-> DetectEscalation([i \in DOMAIN seen |-> seen[i].class])]

\* complete_session: the events are read first ...
ReadEvents ==
  /\ session.status # "none" /\ closing = None
  /\ closing' = EventsForSession
  /\ UNCHANGED <<tokens, enrolling, sensors, session, events, violations, decoys, requests, clientVars, late>>

\* ... then the violations, and the summary takes the place of the scope.  Nothing asks
\* whether the session is active.
CompleteSession ==
  /\ closing # None
  /\ session' = [session EXCEPT !.status = "completed", !.scope = None,
                                !.summary = Summary(closing, Cardinality(violations))]
  /\ closing' = None
  /\ UNCHANGED <<tokens, enrolling, sensors, events, violations, decoys, requests, clientVars, late>>

\* A decoy goes live, or is retired (DecoyDeployment).
DecoyChanges(p) ==
  /\ \/ decoys[p] = "none" /\ decoys' = [decoys EXCEPT ![p] = "active"]
     \/ decoys[p] = "active" /\ decoys' = [decoys EXCEPT ![p] = "retired"]
  /\ UNCHANGED <<tokens, enrolling, sensors, session, events, violations, closing, requests, clientVars, late>>

-----------------------------------------------------------------------------
(* The wrapper. *)

\* Mutant: only an answer that reports an error is a failure.
DeliveredMutant(status) == status # "error"

\* _delivered
Delivered(status) == status \in {"ok", "conflict"}

\* emit_event and finish: the queue is drained first, as long as it was at the start.
Call(new) ==
  client' = [client EXCEPT !.pc = IF Len(queue) > 0 THEN "flush" ELSE "emit",
                           !.new = new, !.left = Len(queue)]

\* An agent reports an action once, and again while it is not delivered.
EmitEvent(e) ==
  /\ client.pc = "ready" /\ e \notin emitted \ ToSet(queue)
  /\ Call(e)
  /\ emitted' = emitted \cup {e}
  /\ UNCHANGED <<serverVars, activity, queue, dropped, giveUps, requests, late>>

Finish ==
  /\ client.pc = "ready" /\ Len(queue) > 0
  /\ Call(None)
  /\ UNCHANGED <<serverVars, activity, queue, emitted, dropped, giveUps, requests, late>>

\* _safe_post of the head of the queue, or of the new event.
Post(r) ==
  LET e == IF client.pc = "flush" THEN Head(queue) ELSE client.new IN
  /\ client.pc \in {"flush", "emit"} /\ client.on = None
  /\ requests[r] = Free
  /\ client' = [client EXCEPT !.on = r]
  /\ requests' = [requests EXCEPT ![r] = [Free EXCEPT !.pc = "sent", !.event = e]]
  /\ UNCHANGED <<serverVars, activity, queue, emitted, dropped, giveUps, late>>

\* _enqueue: an event is queued once, and the oldest one makes room.
Enqueue(e) ==
  LET full == Len(queue) = QueueLimit IN
  IF e \in ToSet(queue) THEN UNCHANGED <<queue, dropped>>
  ELSE /\ queue' = Append(IF full THEN Tail(queue) ELSE queue, e)
       /\ dropped' = IF full THEN dropped \cup {Head(queue)} ELSE dropped

\* The loop of _flush goes on to the new event when it has drained the queue or failed.
AfterFlush(goesOn) ==
  [client EXCEPT !.pc = IF goesOn THEN "flush" ELSE IF client.new = None THEN "ready" ELSE "emit",
                 !.left = IF goesOn THEN @ - 1 ELSE 0, !.on = None]

Ready == [client EXCEPT !.pc = "ready", !.new = None, !.left = 0, !.on = None]

\* The answer, or the failure of the transport ("none"), reaches _flush or emit_event.
Return(status) ==
  IF client.pc = "flush"
  THEN /\ queue' = IF Delivered(status) THEN Tail(queue) ELSE queue
       /\ client' = AfterFlush(Delivered(status) /\ client.left > 1)
       /\ UNCHANGED dropped
  ELSE /\ IF Delivered(status) THEN UNCHANGED <<queue, dropped>> ELSE Enqueue(client.new)
       /\ client' = Ready

\* The transport gives up, and the request may never arrive.
GiveUp ==
  /\ client.on # None /\ giveUps < MaxGiveUps
  /\ Return("none")
  /\ giveUps' = giveUps + 1
  /\ \/ UNCHANGED requests
     \/ /\ requests[client.on].pc = "sent"
        /\ requests' = [requests EXCEPT ![client.on] = Free]
  /\ UNCHANGED <<serverVars, activity, emitted, late>>

\* The process of the wrapper ends between two calls and another one takes over the
\* session, as every call of the CLI does: the queue is in the memory of the process.
Exit ==
  /\ client.pc = "ready" /\ queue # <<>>
  /\ queue' = <<>> /\ dropped' = dropped \cup ToSet(queue)
  /\ UNCHANGED <<serverVars, activity, client, emitted, giveUps, requests, late>>

-----------------------------------------------------------------------------
(* ingest_agent_event. *)

\* A request ends with an answer, which the wrapper receives if it still waits for it.
Answer(r, status) ==
  /\ requests' = [requests EXCEPT ![r] = Free]
  /\ IF client.on = r THEN Return(status) ELSE UNCHANGED <<client, queue, dropped>>
  /\ UNCHANGED <<activity, emitted, giveUps>>

\* authenticate: the sensor's key is read ...
Authenticate(r) ==
  /\ requests[r].pc = "sent"
  /\ IF sensors[client.sensor].key = "active"
     THEN requests' = [requests EXCEPT ![r].pc = "auth"] /\ UNCHANGED clientVars
     ELSE Answer(r, "error")
  /\ UNCHANGED <<serverVars, late>>

Holders == {r \in Requests : requests[r].pc = "loaded"}

\* Mutant: authentication reads the key without writing it, and so locks nothing.
LoadSessionMutant(r) ==
  /\ requests[r].pc = "auth"
  /\ IF \/ sensors[client.sensor].status # "active"
        \/ session.status = "none" \/ session.sensor # client.sensor
     THEN Answer(r, "error")
     ELSE IF session.status # "active" THEN Answer(r, "conflict")
     ELSE /\ requests' = [requests EXCEPT ![r].pc = "loaded", ![r].scope = session.scope]
          /\ UNCHANGED clientVars
  /\ UNCHANGED <<serverVars, late>>

\* ... its row is written, once no other transaction holds it, verify_request finds the
\* sensor active and the signature its own, and the session is read: unknown, another
\* sensor's, no longer active, or loaded.
LoadSession(r) ==
  /\ requests[r].pc = "auth" /\ Holders = {}
  /\ IF \/ sensors[client.sensor].status # "active"
        \/ session.status = "none" \/ session.sensor # client.sensor
     THEN Answer(r, "error")
     ELSE IF session.status # "active" THEN Answer(r, "conflict")
     ELSE /\ requests' = [requests EXCEPT ![r].pc = "loaded", ![r].scope = session.scope]
          /\ UNCHANGED clientVars
  /\ UNCHANGED <<serverVars, late>>

ActiveDecoys == {p \in DecoyPaths : decoys[p] = "active"}

\* build_decoy_index, resolve_decoy
ResolveDecoy(path) == IF path \in ActiveDecoys THEN path ELSE None

\* The event as evaluate and add_event see it.
Minimized(e) ==
  LET path == NormalizePath(activity[e].path) IN
  [type |-> activity[e].type, path |-> path, tool |-> activity[e].tool,
   resource |-> activity[e].resource, decoy |-> ResolveDecoy(path)]

\* The decision on an event, from the stored events of its session.
Decide(ev, scope) ==
  LET policy == ScopePolicy(scope)
      agg == RebuildAggregate(EventsForSession, policy, ActiveDecoys)
  IN Evaluate(ev, policy, ActiveDecoys, agg).decision

\* add_event and add_violation; a duplicate is answered 200 and changes nothing.
Store(r) ==
  LET e == requests[r].event
      ev == Minimized(e)
      decision == Decide(ev, requests[r].scope)
      duplicate == \E i \in DOMAIN events : events[i].id = e
      record == [id |-> e, type |-> ev.type, path |-> ev.path, tool |-> ev.tool,
                 resource |-> ev.resource, decoy |-> decision.decoy, class |-> decision.class,
                 violation |-> decision.violation]
  IN
  /\ requests[r].pc = "loaded"
  /\ IF duplicate THEN UNCHANGED <<events, violations, late>>
     ELSE /\ events' = Append(events, record)
          /\ violations' = IF decision.violation = None THEN violations ELSE violations \cup {e}
          /\ late' = IF session.status = "completed" THEN late + 1 ELSE late
  /\ Answer(r, "ok")
  /\ UNCHANGED <<tokens, enrolling, sensors, session, closing, decoys>>

\* The replay store is unavailable, or the transaction is lost.
Abort(r) ==
  /\ r \in Holders /\ giveUps < MaxGiveUps
  /\ requests' = [requests EXCEPT ![r] = Free]
  /\ IF client.on = r THEN Return("error") ELSE UNCHANGED <<client, queue, dropped>>
  /\ giveUps' = giveUps + 1
  /\ UNCHANGED <<serverVars, activity, emitted, late>>

Ingest(r) ==
  Authenticate(r) \/ LoadSession(r) \/ Store(r) \/ Abort(r)

Next ==
  \/ \E p \in Enrollers, t \in Tokens : FindToken(p, t)
  \/ \E p \in Enrollers : Consume(p)
  \/ \E t \in Tokens : Expire(t)
  \/ \E s \in Sensors : Revoke(s) \/ StartSession(s)
  \/ ReadEvents \/ CompleteSession
  \/ \E p \in DecoyPaths : DecoyChanges(p)
  \/ \E e \in EventIds : EmitEvent(e)
  \/ Finish \/ GiveUp \/ Exit
  \/ \E r \in Requests : Post(r) \/ Ingest(r)

Spec == Init /\ [][Next]_vars

-----------------------------------------------------------------------------
(* Properties. *)

\* The rows, the requests under way and the wrapper's queue are as declared.
TypeOK ==
  /\ tokens \in [Tokens -> [consumed : BOOLEAN, expired : BOOLEAN]]
  /\ enrolling \in [Enrollers -> Tokens \cup {None}]
  /\ \A s \in Enrolled :
       sensors[s] \in [token : Tokens, status : {"active", "revoked"}, key : {"active", "revoked"}]
  /\ session.status \in {"none", "active", "completed"}
  /\ session.sensor \in Sensors \cup {None} /\ session.scope \in Scopes \cup {None}
  /\ \A i \in DOMAIN events : events[i].id \in EventIds /\ events[i].class \in PathClasses
  /\ violations \subseteq {events[i].id : i \in DOMAIN events}
  /\ decoys \in [DecoyPaths -> {"none", "active", "retired"}]
  /\ requests \in [Requests ->
       [pc : {"free", "sent", "auth", "loaded"},
        event : EventIds \cup {None}, scope : Scopes \cup {None}]]
  /\ client.pc \in {"idle", "ready", "flush", "emit"} /\ client.new \in EventIds \cup {None}
  /\ client.left \in 0..Len(queue) /\ client.on \in Requests \cup {None}
  /\ queue \in BoundedSeq(EventIds, QueueLimit) /\ IsInjective(queue)
  /\ emitted \subseteq EventIds /\ dropped \subseteq emitted
  /\ giveUps \in 0..MaxGiveUps /\ late \in Nat

\* An enrolment token yields one sensor, however many requests present it at once
\* (the conditional UPDATE of AgentSensorService.enroll).
EnrolledOnce ==
  \A t \in Tokens : Cardinality({s \in Enrolled : sensors[s].token = t}) <= 1

\* Sensitive accesses are counted across requests: only the first of a session is
\* reported as such, and every later one as repeated, unless the first lies beyond the
\* events that _rebuild_aggregate reads, or its path has become a decoy since.
SensitiveReadsCounted ==
  LET first(i) == events[i].violation = "sensitive_file_access"
      laterDecoy(i) == /\ events[i].decoy = None
                       /\ events[i].path \in {p \in DecoyPaths : decoys[p] # "none"}
  IN (\A i \in DOMAIN events : ~laterDecoy(i)) =>
       \A i, j \in DOMAIN events : i < j /\ first(i) /\ first(j) => i > EventLimit

\* No event is lost silently: what the agent has done is stored, queued or being
\* reported, unless the queue overflowed or its process ended, or the session was
\* completed, in which case the server's refusal counts as delivery (_delivered).  A
\* request takes effect with its answer: a commit that fails after it is left out.
AccountedFor ==
  \A e \in emitted :
    \/ \E i \in DOMAIN events : events[i].id = e
    \/ e \in ToSet(queue) \/ e = client.new
    \/ e \in dropped \/ session.status = "completed"

\* The lock that authentication takes leaves at most one request of a sensor between
\* its check that the session is active and its insert: so much may follow the end
\* of a session, and is missing from its summary.
AtMostOneLate == late <= 1
=============================================================================
