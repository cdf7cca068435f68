---------------------------- MODULE BrowserSensor ----------------------------
(***************************************************************************)
(* A browser sensor: the extension's service worker, popup and content     *)
(* script (apps/extension/src), and the endpoints it calls                 *)
(* (api/browser_sensor.py, services/browser_sensor).                       *)
(*                                                                         *)
(* The service worker keeps one blob for its state and one for its queue   *)
(* in chrome.storage.local.  Every task loads a blob, awaits, and saves    *)
(* the whole of what it loaded, so tasks that overlap overwrite each other.*)
(* The server runs at READ COMMITTED; authenticating locks the key's row.  *)
(***************************************************************************)
EXTENDS Integers, Sequences, SequencesExt, FiniteSets

CONSTANTS
  Detections,   \* messages of the content script, each handled by a task of its own
  DetectionOf,  \* per detection: the trace, the host (its labels), the minute and the field
  Flushes,      \* firings of the retry alarm
  Syncs,        \* firings of the sync alarm
  Updates,      \* PUT /browser-ai-policy
  BodyOf,       \* per update: the columns it sets
  Admins,       \* requests that revoke the sensor or rotate its secret
  AdminOp,      \* per request of an administrator: which of the two
  Popups,       \* popups in which the user presses pause
  Enrollers,    \* POST /browser-sensors/enroll with the one token
  Scenes,       \* bound: the sets of tasks that are explored together
  Tripwires,    \* the organization's rows that can enter the registry
  RegistryLimit, QueueLimit,
  BrowserNone,
  MaxFaults     \* bound: requests that fail

Reporters == Detections \cup Flushes
BrowserTasks == Reporters \cup Syncs \cup Updates \cup Admins \cup Popups \cup Enrollers

ASSUME BrowserBounds ==
  /\ RegistryLimit \in Nat /\ QueueLimit \in Nat \ {0} /\ MaxFaults \in Nat
  /\ BrowserNone \notin BrowserTasks /\ Scenes \subseteq SUBSET BrowserTasks
  /\ IsFiniteSet(Reporters) /\ Detections \cap Flushes = {}
  /\ Reporters \cap (Syncs \cup Updates \cup Admins \cup Popups \cup Enrollers) = {}

-----------------------------------------------------------------------------
(* Destinations. *)

\* _normalize_domain, normalizeDomain, on the labels of a domain.
NormalizeDomain(d) == IF Len(d) > 1 /\ d[1] = "www" THEN Tail(d) ELSE d

\* host == domain or host.endswith("." + domain)
Under(host, domain) == IsSuffix(NormalizeDomain(domain), NormalizeDomain(host))

\* classify_destination, classifyDestination: the longest rule wins, then the first.
ClassifyDestination(host, rules) ==
  LET matches == {i \in DOMAIN rules : Under(host, rules[i].domain)}
      size(i) == Len(NormalizeDomain(rules[i].domain))
      best == CHOOSE i \in matches : \A j \in matches :
                size(i) > size(j) \/ (size(i) = size(j) /\ i <= j)
  IN IF matches = {} THEN "unknown" ELSE rules[best].class

\* isMonitored, isTrustedSender
Monitored(host, domains) == \E d \in domains : Under(host, d)

\* eventTypeFor
EventTypeFor(class) ==
  CASE class = "approved" -> "approved_ai_paste_detected"
    [] class \in {"shadow", "unknown"} -> "shadow_ai_paste_detected"
    [] OTHER -> "ai_paste_trace_detected"

\* classify
BrowserExposure(type, class, tools) ==
  IF tools >= 2 \/ type = "multi_tool_ai_exposure" THEN "multi_surface_ai_exposure"
  ELSE IF type = "repeated_ai_paste" THEN "repeated_cross_tool_paste"
  ELSE IF class \in {"shadow", "unknown"} THEN "shadow_ai_exposure"
  ELSE IF class = "conditional" THEN "approved_ai_policy_violation"
  ELSE "ai_paste_leak"

\* _BASE_SEVERITY as an index of _ORDER, and severity.
BrowserSeverity(exposure, count, tools, crossSurface) ==
  LET base == CASE exposure = "multi_surface_ai_exposure" -> 4
                [] exposure \in {"shadow_ai_exposure", "repeated_cross_tool_paste"} -> 3
                [] OTHER -> 2
      bump(b) == IF b THEN 1 ELSE 0
      level == base + bump(count >= 3) + bump(tools >= 2) + bump(crossSurface)
  IN IF level < 4 THEN level ELSE 4

\* build_registry: the traces of the rows that are live on their surface, each once.
LiveStatus == [ai |-> "deployed", repository |-> "active", honey |-> "active"]

BuildRegistry ==
  LET add(seen, row) == IF row.trace \in ToSet(seen) \/ Len(seen) >= RegistryLimit
                          \/ row.status # LiveStatus[row.surface]
                        THEN seen ELSE Append(seen, row.trace)
  IN ToSet(FoldLeft(add, <<>>, Tripwires))

\* _seen_on_other_surfaces, whatever the status of the row.
SeenOnOtherSurfaces(trace) == \E i \in DOMAIN Tripwires : Tripwires[i].trace = trace

\* shouldObserve and editorKind, on the description of a paste target.
EditorKind(t) == IF t.editable THEN "contenteditable"
                 ELSE IF t.tag \in {"textarea", "input"} THEN t.tag ELSE BrowserNone
ShouldObserve(t) ==
  /\ ~t.hidden /\ EditorKind(t) # BrowserNone
  /\ EditorKind(t) = "input" => t.type \notin {"password", "hidden", "email", "tel", "number"}
  /\ t.autocomplete \notin {"cc-", "current-password", "new-password", "one-time-code"}

-----------------------------------------------------------------------------
VARIABLES
  scene,        \* the tasks of this behaviour
  token,        \* the enrollment token's row
  sensor,       \* its row: status, secret (a counter) and the status of its API key
  policyRow,    \* browser_ai_policies, BrowserNone without a row
  browserEvents,\* browser_events
  keyLock, sensorLock,  \* the task whose transaction holds the row
  stored,       \* chrome.storage: df_state
  queued,       \* chrome.storage: df_queue
  retryAlarm,
  page,         \* the configuration the content script works with
  task,         \* per task: its step
  local,        \* per task: what it loaded
  request,      \* per reporter: the step of its request at the server
  faults,
  overlap,      \* history: two tasks had the queue loaded at once
  discarded,    \* history: keys of events that made room or expired
  overwritten   \* history: keys that a save replaced although its task had not loaded them

serverVars == <<token, sensor, policyRow, browserEvents, keyLock, sensorLock>>
storageVars == <<stored, queued, retryAlarm, page>>
browserVars == <<scene, serverVars, storageVars, task, local, request, faults, overlap, discarded,
                 overwritten>>

NoSensor == [status |-> "none", secret |-> 0, key |-> "none"]

BrowserInit ==
  /\ scene \in Scenes
  /\ token = "issued" /\ sensor = NoSensor
  /\ policyRow = BrowserNone /\ browserEvents = <<>>
  /\ keyLock = BrowserNone /\ sensorLock = BrowserNone
  /\ stored = BrowserNone /\ queued = <<>> /\ retryAlarm = FALSE /\ page = BrowserNone
  /\ task = [t \in BrowserTasks |-> "idle"]
  /\ local = [t \in BrowserTasks |-> BrowserNone]
  /\ request = [t \in Reporters |-> "none"]
  /\ faults = 0 /\ overlap = FALSE /\ discarded = {} /\ overwritten = {}

At(t, pc) == t \in scene /\ task[t] = pc
Goto(t, pc) == task' = [task EXCEPT ![t] = pc]
Load(t, value) == local' = [local EXCEPT ![t] = value]

-----------------------------------------------------------------------------
(* Enrollment. *)

\* enroll: the token is found unused and not expired ...
ReadToken(t) ==
  /\ At(t, "idle") /\ t \in Enrollers
  /\ Goto(t, IF token = "issued" THEN "read" ELSE "done")
  /\ UNCHANGED <<scene, serverVars, storageVars, local, request, faults, overlap, discarded,
                 overwritten>>

\* ... and consumed by a conditional UPDATE; the popup saves a new state.
Enroll(t) ==
  /\ At(t, "read") /\ t \in Enrollers
  /\ Goto(t, "done")
  /\ IF token = "issued"
     THEN /\ token' = "consumed"
          /\ sensor' = [status |-> "active", secret |-> 1, key |-> "active"]
          /\ stored' = [secret |-> 1, policy |-> BrowserNone, registry |-> {}, paused |-> FALSE]
     ELSE UNCHANGED <<token, sensor, stored>>
  /\ UNCHANGED <<scene, policyRow, browserEvents, keyLock, sensorLock, queued, retryAlarm, page,
                 local, request, faults, overlap, discarded, overwritten>>

TokenExpires ==
  /\ token = "issued" /\ token' = "expired"
  /\ UNCHANGED <<scene, sensor, policyRow, browserEvents, keyLock, sensorLock, storageVars, task,
                 local, request, faults, overlap, discarded, overwritten>>

-----------------------------------------------------------------------------
(* Revocation and rotation. *)

\* revoke_sensor and rotate_sensor load the sensor and look at its status.
LoadSensor(t) ==
  /\ At(t, "idle") /\ t \in Admins /\ sensor.status # "none"
  /\ Goto(t, IF sensor.status = "active" THEN "loaded" ELSE "done")
  /\ UNCHANGED <<scene, serverVars, storageVars, local, request, faults, overlap, discarded,
                 overwritten>>

\* rotate_secret writes the row of the sensor.
Rotate(t) ==
  /\ At(t, "loaded") /\ t \in Admins /\ AdminOp[t] = "rotate" /\ sensorLock = BrowserNone
  /\ sensor' = [sensor EXCEPT !.secret = @ + 1]
  /\ Goto(t, "done")
  /\ UNCHANGED <<scene, token, policyRow, browserEvents, keyLock, sensorLock, storageVars, local,
                 request, faults, overlap, discarded, overwritten>>

\* One flush of revoke writes the key and the sensor, in an order that the mapper chooses ...
RevokeLocks(t) ==
  /\ At(t, "loaded") /\ t \in Admins /\ AdminOp[t] = "revoke"
  /\ \/ keyLock = BrowserNone /\ keyLock' = t /\ UNCHANGED sensorLock
     \/ sensorLock = BrowserNone /\ sensorLock' = t /\ UNCHANGED keyLock
  /\ Goto(t, "locking")
  /\ UNCHANGED <<scene, token, sensor, policyRow, browserEvents, storageVars, local, request,
                 faults, overlap, discarded, overwritten>>

\* ... and commits when it has both.
Revoke(t) ==
  /\ At(t, "locking") /\ {keyLock, sensorLock} \subseteq {t, BrowserNone}
  /\ sensor' = [sensor EXCEPT !.status = "revoked", !.key = "revoked"]
  /\ keyLock' = BrowserNone /\ sensorLock' = BrowserNone
  /\ Goto(t, "done")
  /\ UNCHANGED <<scene, token, policyRow, browserEvents, storageVars, local, request, faults,
                 overlap, discarded, overwritten>>

-----------------------------------------------------------------------------
(* The policy. *)

Default == [enabled |-> FALSE, reporting |-> TRUE, rules |-> <<>>]

\* upsert_policy loads the row ...
LoadPolicy(t) ==
  /\ At(t, "idle") /\ t \in Updates
  /\ Load(t, policyRow) /\ Goto(t, "loaded")
  /\ UNCHANGED <<scene, serverVars, storageVars, request, faults, overlap, discarded, overwritten>>

\* ... and writes the columns that differ from it, with the version it loaded plus one.
\* An INSERT that meets a row of the organization fails.
WritePolicy(t) ==
  LET old == local[t]
      set(c) == IF BodyOf[t][c] # old.row[c] THEN BodyOf[t][c] ELSE policyRow.row[c]
  IN
  /\ At(t, "loaded") /\ t \in Updates
  /\ policyRow' = IF old # BrowserNone
                  THEN [version |-> old.version + 1, row |-> [c \in DOMAIN Default |-> set(c)]]
                  ELSE IF policyRow = BrowserNone THEN [version |-> 1, row |-> BodyOf[t]]
                  ELSE policyRow
  /\ Goto(t, "done")
  /\ UNCHANGED <<scene, token, sensor, browserEvents, keyLock, sensorLock, storageVars, local,
                 request, faults, overlap, discarded, overwritten>>

\* build_policy_doc: every domain with a rule that does not ignore it is monitored.
PolicyDoc(p) ==
  [version |-> p.version, enabled |-> p.row.enabled, reporting |-> p.row.reporting,
   rules |-> p.row.rules,
   monitored |-> {NormalizeDomain(r.domain) : r \in {x \in ToSet(p.row.rules) : x.class # "ignored"}}]

-----------------------------------------------------------------------------
(* syncPolicyAndRegistry. *)

LoadState(t) ==
  /\ At(t, "idle") /\ t \in Syncs
  /\ Load(t, stored) /\ Goto(t, IF stored = BrowserNone THEN "done" ELSE "loaded")
  /\ UNCHANGED <<scene, serverVars, storageVars, request, faults, overlap, discarded, overwritten>>

\* The two answers; get_policy inserts the default policy of an organization without one.
\* Without an answer the cached documents stay.
Fetch(t) ==
  /\ At(t, "loaded") /\ t \in Syncs
  /\ \/ /\ sensor.key = "active"
        /\ policyRow' = IF policyRow = BrowserNone THEN [version |-> 1, row |-> Default] ELSE policyRow
        /\ LET next == PolicyDoc(policyRow') cached == local[t].policy IN
           Load(t, [local[t] EXCEPT
                      !.policy = IF cached = BrowserNone \/ next.version >= cached.version
                                 THEN next ELSE cached,
                      !.registry = BuildRegistry])
        /\ Goto(t, "fetched")
     \/ /\ sensor.key # "active" /\ Goto(t, "fetched") /\ UNCHANGED <<policyRow, local>>
     \/ /\ faults < MaxFaults /\ Goto(t, "done") /\ UNCHANGED <<policyRow, local>>
  /\ faults' = IF task'[t] = "done" THEN faults + 1 ELSE faults
  /\ UNCHANGED <<scene, token, sensor, browserEvents, keyLock, sensorLock, storageVars, request,
                 overlap, discarded, overwritten>>

SaveState(t) ==
  /\ At(t, "fetched") /\ stored' = local[t] /\ Goto(t, "done")
  /\ UNCHANGED <<scene, serverVars, queued, retryAlarm, page, local, request, faults, overlap,
                 discarded, overwritten>>

\* The popup shows the state it loaded, and togglePause saves that state.
OpenPopup(t) ==
  /\ At(t, "idle") /\ t \in Popups /\ stored # BrowserNone
  /\ Load(t, stored) /\ Goto(t, "open")
  /\ UNCHANGED <<scene, serverVars, storageVars, request, faults, overlap, discarded, overwritten>>

TogglePause(t) ==
  /\ At(t, "open")
  /\ stored' = [local[t] EXCEPT !.paused = ~@] /\ Goto(t, "done")
  /\ UNCHANGED <<scene, serverVars, queued, retryAlarm, page, local, request, faults, overlap,
                 discarded, overwritten>>

\* refresh of the content script, on load and when the tab becomes visible.
Refresh ==
  /\ stored # BrowserNone /\ page # stored /\ page' = stored
  /\ UNCHANGED <<scene, serverVars, stored, queued, retryAlarm, task, local, request, faults,
                 overlap, discarded, overwritten>>

-----------------------------------------------------------------------------
(* Detections and the queue. *)

HasQueue(t) == task[t] \in {"queue", "flush", "save"}

\* Two tasks with the queue in memory.
Overlaps == overlap' = (overlap \/ Cardinality({t \in Reporters : HasQueue(t)'}) > 1)

KeysOf(q) == {q[i].key : i \in DOMAIN q}

\* saveQueue replaces the stored queue, whatever has been added since the task loaded it.
Overwrites(t) ==
  overwritten' = overwritten \cup (KeysOf(queued) \ (local[t].had \cup KeysOf(queued')))

\* buildEvent and dedupeKey.
Payload(d, policy) ==
  LET x == DetectionOf[d]
      rules == IF policy = BrowserNone THEN <<>> ELSE policy.rules
  IN [det |-> d, key |-> <<x.trace, x.host, x.minute, EventTypeFor(ClassifyDestination(x.host, rules))>>]

\* handlePaste reports a trace of the page's registry while the page is active; the
\* service worker, with the state it loads, accepts it from a monitored host.
Detect(d) ==
  LET x == DetectionOf[d]
      active == /\ page # BrowserNone /\ page.policy # BrowserNone
                /\ page.policy.enabled /\ ~page.paused
                /\ Monitored(x.host, page.policy.monitored)
                /\ x.trace \in page.registry /\ ShouldObserve(x.target)
      accepted == /\ ~stored.paused /\ stored.policy # BrowserNone
                  /\ Monitored(x.host, stored.policy.monitored) /\ stored.policy.reporting
  IN
  /\ At(d, "idle") /\ d \in Detections /\ active
  /\ IF accepted
     THEN /\ Load(d, [item |-> Payload(d, stored.policy), secret |-> stored.secret])
          /\ Goto(d, "report") /\ request' = [request EXCEPT ![d] = "sent"]
     ELSE Goto(d, "done") /\ UNCHANGED <<local, request>>
  /\ UNCHANGED <<scene, serverVars, storageVars, faults, overlap, discarded, overwritten>>

\* EventQueue.enqueue: an event is queued once, and the oldest one makes room.
Enqueue(q, item) ==
  IF item.key \in KeysOf(q) THEN q
  ELSE Append(IF Len(q) = QueueLimit THEN Tail(q) ELSE q, item)

\* EventQueue.ack: what has another key stays.
Ack(q, item) ==
  LET left[i \in 0 .. Len(q)] ==
        IF i = 0 THEN <<>>
        ELSE IF q[i].key = item.key THEN left[i - 1] ELSE Append(left[i - 1], q[i])
  IN left[Len(q)]

\* handleDetection loads the queue after a report that was answered with an error ...
LoadQueue(d) ==
  /\ At(d, "failed") /\ d \in Detections
  /\ Load(d, [item |-> local[d].item, queue |-> queued, had |-> KeysOf(queued)])
  /\ Goto(d, "queue") /\ Overlaps
  /\ UNCHANGED <<scene, serverVars, storageVars, request, faults, discarded, overwritten>>

\* ... and saves it with the event.
SaveQueue(d) ==
  /\ At(d, "queue")
  /\ queued' = Enqueue(local[d].queue, local[d].item)
  /\ retryAlarm' = TRUE /\ Goto(d, "done")
  /\ discarded' = discarded \cup (KeysOf(local[d].queue) \ KeysOf(queued'))
  /\ Overwrites(d)
  /\ UNCHANGED <<scene, serverVars, stored, page, local, request, faults, overlap>>

\* Mutant: everything that was tried leaves the queue.
NextReportMutant(t, q, rest, ok) ==
  LET left == Ack(q, rest[1]) todo == Tail(rest) IN
  /\ Load(t, [item |-> IF todo = <<>> THEN BrowserNone ELSE todo[1],
              queue |-> left, todo |-> todo, secret |-> local[t].secret, had |-> local[t].had])
  /\ Goto(t, IF todo = <<>> THEN "save" ELSE "flush")
  /\ request' = [request EXCEPT ![t] = IF todo = <<>> THEN "none" ELSE "sent"]

\* The loop of flushQueue: an event that was delivered leaves the queue, and the next of
\* those that were there at the start is reported.
NextReport(t, q, rest, ok) ==
  LET left == IF ok THEN Ack(q, rest[1]) ELSE q todo == Tail(rest) IN
  /\ Load(t, [item |-> IF todo = <<>> THEN BrowserNone ELSE todo[1],
              queue |-> left, todo |-> todo, secret |-> local[t].secret, had |-> local[t].had])
  /\ Goto(t, IF todo = <<>> THEN "save" ELSE "flush")
  /\ request' = [request EXCEPT ![t] = IF todo = <<>> THEN "none" ELSE "sent"]

\* The retry alarm fires: flushQueue loads state and queue, and drops what is too old.
StartFlush(t) ==
  /\ At(t, "idle") /\ t \in Flushes /\ retryAlarm /\ retryAlarm' = FALSE
  /\ \E old \in 0 .. Len(queued) :
       LET fresh == SubSeq(queued, old + 1, Len(queued))
           item == IF fresh = <<>> THEN BrowserNone ELSE fresh[1]
       IN
       /\ Load(t, [queue |-> fresh, todo |-> fresh, secret |-> stored.secret, item |-> item,
                   had |-> KeysOf(queued)])
       /\ Goto(t, IF fresh = <<>> THEN "save" ELSE "flush")
       /\ request' = [request EXCEPT ![t] = IF fresh = <<>> THEN "none" ELSE "sent"]
       /\ discarded' = discarded \cup (KeysOf(queued) \ KeysOf(fresh))
  /\ Overlaps
  /\ UNCHANGED <<scene, serverVars, stored, queued, page, faults, overwritten>>

SaveFlushed(t) ==
  /\ At(t, "save") /\ queued' = local[t].queue
  /\ retryAlarm' = (retryAlarm \/ local[t].queue # <<>>)
  /\ Goto(t, "done") /\ Overwrites(t)
  /\ UNCHANGED <<scene, serverVars, stored, page, local, request, faults, overlap, discarded>>

\* The answer to reportEvent.  Both tasks would also take a 409 for a delivery; the endpoint
\* answers it to a nonce that was used before, and every report draws a new one.
Answer(t, ok) ==
  IF t \in Flushes THEN NextReport(t, local[t].queue, local[t].todo, ok)
  ELSE /\ Goto(t, IF ok THEN "done" ELSE "failed") /\ request' = [request EXCEPT ![t] = "none"]
       /\ UNCHANGED local

\* fetch rejects: nothing catches the exception, and the task ends where it is.  The
\* request may have arrived; a server that has not answered yet carries on without it.
Unreachable(t) ==
  /\ task[t] \in {"report", "flush"} /\ faults < MaxFaults
  /\ faults' = faults + 1 /\ Goto(t, "unreachable")
  /\ \/ request[t] = "sent" /\ request' = [request EXCEPT ![t] = "none"]
     \/ UNCHANGED request
  /\ UNCHANGED <<scene, serverVars, storageVars, local, overlap, discarded, overwritten>>

-----------------------------------------------------------------------------
(* ingest_browser_event. *)

Serve(t, pc) == request' = [request EXCEPT ![t] = pc] /\ UNCHANGED <<task, local>>

\* The answer reaches the task that still waits for it.
Respond(t, ok) ==
  IF task[t] = "unreachable" THEN Serve(t, "none") ELSE Answer(t, ok)

Release(t) ==
  /\ keyLock' = IF keyLock = t THEN BrowserNone ELSE keyLock
  /\ UNCHANGED <<scene, token, sensor, policyRow, storageVars, sensorLock>>

\* authenticate reads the key ...
Authenticate(t) ==
  /\ t \in Reporters /\ request[t] = "sent"
  /\ IF sensor.key = "active" THEN Serve(t, "read") ELSE Respond(t, FALSE)
  /\ UNCHANGED <<scene, serverVars, storageVars, faults, overlap, discarded, overwritten>>

\* Mutant: authenticating does not write, and so does not lock, the row.
LockKeyMutant(t) ==
  /\ t \in Reporters /\ request[t] = "read" /\ Serve(t, "keyed")
  /\ UNCHANGED <<scene, serverVars, storageVars, faults, overlap, discarded, overwritten>>

\* ... and writes last_used_at, once no other transaction holds the row.
LockKey(t) ==
  /\ t \in Reporters /\ request[t] = "read" /\ keyLock = BrowserNone
  /\ keyLock' = t /\ Serve(t, "keyed")
  /\ UNCHANGED <<scene, token, sensor, policyRow, browserEvents, sensorLock, storageVars, faults,
                 overlap, discarded, overwritten>>

\* verify_request reads the sensor, and checks the signature with its secret.
VerifyRequest(t) ==
  /\ t \in Reporters /\ request[t] = "keyed"
  /\ IF sensor.status = "active" /\ local[t].secret = sensor.secret
     THEN Serve(t, "verified") /\ UNCHANGED <<serverVars, scene, storageVars>>
     ELSE Respond(t, FALSE) /\ Release(t) /\ UNCHANGED browserEvents
  /\ UNCHANGED <<faults, overlap, discarded, overwritten>>

\* It writes last_seen_at; the event, classified by the policy of the moment, and the
\* answer from all events of its trace, follow.
StoreEvent(t) ==
  LET d == local[t].item.det
      x == DetectionOf[d]
      rules == IF policyRow = BrowserNone THEN <<>> ELSE PolicyDoc(policyRow).rules
      class == ClassifyDestination(x.host, rules)
      trace == {e \in ToSet(browserEvents) : DetectionOf[e.det].trace = x.trace}
      tools == Cardinality({x.host} \cup {DetectionOf[e.det].host : e \in trace})
      severity == BrowserSeverity(BrowserExposure(EventTypeFor(class), class, tools),
                                  1 + Len(SelectSeq(browserEvents, LAMBDA e : e \in trace)),
                                  tools, SeenOnOtherSurfaces(x.trace))
  IN
  /\ t \in Reporters /\ request[t] = "verified" /\ sensorLock = BrowserNone
  /\ browserEvents' = Append(browserEvents, [det |-> d, class |-> class, answer |-> severity])
  /\ Release(t) /\ Respond(t, TRUE)
  /\ UNCHANGED <<faults, overlap, discarded, overwritten>>

\* A request fails at the server: any other error, or the deadlock with a revocation.
IngestFails(t) ==
  /\ t \in Reporters /\ request[t] \in {"read", "keyed", "verified"} /\ faults < MaxFaults
  /\ faults' = faults + 1
  /\ Release(t) /\ Respond(t, FALSE)
  /\ UNCHANGED <<browserEvents, overlap, discarded, overwritten>>

\* ... of which the revocation may also be the victim.
RevokeFails(t) ==
  /\ At(t, "locking") /\ sensorLock = t /\ keyLock \notin {t, BrowserNone}
  /\ keyLock \in Reporters => request[keyLock] = "verified"
  /\ sensorLock' = BrowserNone /\ Goto(t, "done")
  /\ UNCHANGED <<scene, token, sensor, policyRow, browserEvents, keyLock, storageVars, local,
                 request, faults, overlap, discarded, overwritten>>

-----------------------------------------------------------------------------
BrowserNext ==
  \/ \E t \in scene :
       \/ ReadToken(t) \/ Enroll(t) \/ LoadSensor(t) \/ Rotate(t) \/ RevokeLocks(t) \/ Revoke(t)
       \/ LoadPolicy(t) \/ WritePolicy(t) \/ LoadState(t) \/ Fetch(t) \/ SaveState(t)
       \/ OpenPopup(t) \/ TogglePause(t)
       \/ Detect(t) \/ LoadQueue(t) \/ SaveQueue(t) \/ StartFlush(t) \/ SaveFlushed(t)
       \/ RevokeFails(t)
  \/ \E t \in Reporters \cap scene :
       \/ Unreachable(t) \/ Authenticate(t) \/ LockKey(t) \/ VerifyRequest(t) \/ StoreEvent(t)
       \/ IngestFails(t)
  \/ TokenExpires \/ Refresh

BrowserSpec == BrowserInit /\ [][BrowserNext]_browserVars

-----------------------------------------------------------------------------
BrowserTypeOK ==
  /\ scene \in Scenes /\ token \in {"issued", "consumed", "expired"}
  /\ sensor.status \in {"none", "active", "revoked"} /\ overlap \in BOOLEAN
  /\ Len(queued) <= QueueLimit /\ faults \in 0 .. MaxFaults

\* No event is stored once the revocation of its sensor is committed, although the
\* request may have been authenticated, and even verified, before it: the revocation
\* writes the row of the key, which the request holds until it ends.
RevokedIsSilent ==
  [][browserEvents' # browserEvents => sensor.status = "active"]_browserVars

KeyOf(d) == local[d].item.key
StoredAs(key) == {i \in DOMAIN browserEvents : KeyOf(browserEvents[i].det) = key}

\* The queue of the service worker, whatever overlaps.  An event whose report was answered with
\* an error is queued until one with its key is stored, unless it made room for a newer one,
\* expired, or was overwritten: it was queued after a task had loaded the queue and before that
\* task saved its copy.  Only tasks that had the queue in memory at once overwrite each other,
\* and without them and a failed request an event is stored once.  (An event whose fetch is
\* rejected is never queued: handleDetection ends there.)
OrderlyQueue ==
  /\ overwritten # {} => overlap
  /\ \A d \in Detections \cap scene :
       task[d] = "done" /\ local[d] # BrowserNone =>
         /\ KeyOf(d) \in KeysOf(queued) \cup discarded \cup overwritten \/ StoredAs(KeyOf(d)) # {}
         /\ ~overlap /\ faults = 0 => Cardinality({i \in StoredAs(KeyOf(d)) : browserEvents[i].det = d}) <= 1
=============================================================================
