----------------------------- MODULE AiTripwire -----------------------------
(***************************************************************************)
(* An AI tripwire: the connector it is published through, the endpoints of *)
(* its deployment and the ingestion of its events (api/ai_tripwire.py),    *)
(* the worker that publishes, verifies and retires the asset (services/    *)
(* ai_tripwire) and the asset in the customer's vector store or MCP server.*)
(*                                                                         *)
(* The asset has one identifier, made from the trace, so publishing twice  *)
(* overwrites.  Handlers and workers decide on the status they loaded.     *)
(***************************************************************************)
EXTENDS Integers, FiniteSets

CONSTANTS
  Handlers, Workers,
  Keys,        \* API keys of the organization
  Requester,   \* the key that created the deployment
  Drafts,      \* bodies of POST /ai-tripwire-deployments
  Requests,    \* POST /ai-tripwire-events: records of key, monitor, type and source
  None,
  MaxRequests, \* bound: requests that pass their check
  MaxFailures  \* bound: transactions that are lost

ASSUME ActorAssumption ==
  /\ Handlers \cap Workers = {} /\ None \notin Handlers \cup Workers \cup Keys
  /\ Requester \in Keys
ASSUME BoundAssumption == MaxRequests \in Nat /\ MaxFailures \in Nat

Actors == Handlers \cup Workers

-----------------------------------------------------------------------------
(* Drafts. *)

RagKinds == {"architecture_note", "escalation_summary", "pricing_exception", "support_runbook",
             "incident_handoff", "roadmap_excerpt", "billing_policy"}
McpKinds == {"mcp_resource", "mcp_config", "tool_description", "endpoint_reference"}
SurfaceTypes == {"rag_document", "mcp_resource", "mcp_config"}

\* assert_safe_content: the prose is inert by construction, its size depends on a setting.
SafeContent(d) == d.fits

\* generate_rag_document, generate_mcp_resource; an unknown kind raises.
Generates(d) ==
  /\ d.kind \in IF d.surface = "rag_document" THEN RagKinds ELSE McpKinds
  /\ SafeContent(d)

\* build_rag_preview, build_mcp_preview; only a document's collection is checked.
Previewable(d) == (d.surface = "rag_document" => d.allowedCollection) /\ Generates(d)

\* What testing a connection finds, and whether it is enough for a vector store, which
\* must also accept the secret, or an MCP server.
ConnTest == [reachable : BOOLEAN, tls : BOOLEAN, authenticated : BOOLEAN]
RagConnected(t) == t.reachable /\ t.authenticated /\ t.tls
McpConnected(t) == t.reachable /\ t.tls

-----------------------------------------------------------------------------
(* Classification of events. *)

RagEvents == {"document_retrieved", "chunk_retrieved", "trace_in_model_input", "trace_in_answer",
              "document_exported", "document_copied"}

EventSurface(type) == IF type \in RagEvents THEN "rag_document" ELSE "mcp_resource"

\* _SINGLE
Single(type) ==
  CASE type = "trace_in_answer" -> "rag_answer_leak"
    [] type \in RagEvents \ {"trace_in_answer"} -> "rag_retrieval_exposure"
    [] type = "config_loaded" -> "mcp_config_exposure"
    [] type = "agent_touched" -> "ai_agent_decoy_touch"
    [] OTHER -> "mcp_resource_access"

\* classify; the last case takes whichever type the set yields first.
Classify(types) ==
  IF Cardinality({EventSurface(t) : t \in types}) > 1 THEN "multi_surface_ai_exposure"
  ELSE IF "trace_in_answer" \in types THEN "rag_answer_leak"
  ELSE IF "config_loaded" \in types THEN "mcp_config_exposure"
  ELSE IF "agent_touched" \in types THEN "ai_agent_decoy_touch"
  ELSE Single(CHOOSE t \in types : TRUE)

\* _BASE_SEVERITY, as an index of _ORDER.
BaseSeverity(exposure) ==
  CASE exposure \in {"rag_retrieval_exposure", "mcp_resource_access"} -> 2
    [] exposure = "multi_surface_ai_exposure" -> 4
    [] OTHER -> 3

Min2(a, b) == IF a < b THEN a ELSE b
AtLeast(n, bound) == IF n >= bound THEN 1 ELSE 0

\* severity of the exposure that the stored events amount to.
Severity(stored) ==
  LET types == {r.type : r \in stored} IN
  Min2(4, BaseSeverity(Classify(types))
            + AtLeast(Cardinality(stored), 3)
            + AtLeast(Cardinality({r.source : r \in stored}), 2)
            + AtLeast(Cardinality({EventSurface(t) : t \in types}), 2))

-----------------------------------------------------------------------------
(* Deployments. *)

\* _TRANSITIONS
Transitions ==
  [draft |-> {"awaiting_approval", "cancelled"},
   awaiting_approval |-> {"approved", "rejected", "cancelled"},
   approved |-> {"deploying", "cancelled"},
   deploying |-> {"deployed", "deployed_unmonitored", "verification_failed", "failed"},
   deployed |-> {"retiring", "drift_detected", "expired"},
   deployed_unmonitored |-> {"retiring", "expired"},
   verification_failed |-> {"retiring"},
   failed |-> {"awaiting_approval", "cancelled"},
   drift_detected |-> {"retiring"},
   retiring |-> {"retired", "drift_detected", "failed"},
   expired |-> {"retiring"},
   rejected |-> {}, cancelled |-> {}, retired |-> {}]

Statuses == DOMAIN Transitions

\* can_transition, assert_transition
CanTransition(from, to) == from \in Statuses /\ to \in Transitions[from]

\* The endpoints: the status each asks for, and the job it enqueues, if any.
Target == [submit |-> "awaiting_approval", approve |-> "approved", reject |-> "rejected",
           deploy |-> "deploying", retire |-> "retiring"]
JobOf == [deploy |-> "execute", retire |-> "retire"]

\* The status in which the service acts on a job.
Expected == [execute |-> "deploying", retire |-> "retiring"]
JobTypes == DOMAIN Expected

VARIABLES
  connector,    \* the connector's row: its kind and status, "none" without one
  status, approver,     \* columns of the deployment
  assetId,              \* external_asset_id is not null
  monitoring,           \* monitoring_activated_at is not null
  jobs,         \* ai_tripwire_jobs: the row of each type, or "none"
  asset,        \* the external system: "absent", "ours" or "modified"
  pc, op,       \* per actor: next step; the endpoint or job it executes
  key,          \* per handler: the API key of its caller
  seen,         \* per worker: the status it loaded
  out,          \* per worker: the status and columns to be written
  rowLock, jobLock,
  events,       \* committed rows of ai_tripwire_events
  ingest,       \* per event request: its step
  answer,       \* per event request: the stored events it was answered from
  requests, failures,   \* counters of what is bounded
  orphaned      \* history: an asset was published whose identifier was not recorded

deployment == <<status, approver, assetId, monitoring>>
db == <<connector, deployment, jobs>>
tx == <<pc, op, key, seen, out, rowLock, jobLock>>
ingestion == <<events, ingest, answer>>
counters == <<requests, failures, orphaned>>
vars == <<db, asset, tx, ingestion, counters>>

NoWrite == [status |-> "none", published |-> FALSE]

\* Rows, transactions and locks.
TypeOK ==
  /\ connector \in [kind : {"none", "rag", "mcp"}, status : {"none", "pending", "active", "failed"}]
  /\ status \in Statuses \cup {"none"}
  /\ approver \in Keys \cup {None}
  /\ {assetId, monitoring, orphaned} \subseteq BOOLEAN
  /\ jobs \in [JobTypes -> {"none", "pending", "done", "failed"}]
  /\ asset \in {"absent", "ours", "modified"}
  /\ pc \in [Actors -> {"idle", "write", "queue", "act", "verify", "flush"}]
  /\ op \in [Actors -> DOMAIN Target \cup JobTypes \cup {"none"}]
  /\ key \in [Handlers -> Keys \cup {None}]
  /\ seen \in [Workers -> Statuses \cup {"none"}]
  /\ out \in [Workers -> [status : Statuses \cup {"none"}, published : BOOLEAN]]
  /\ rowLock \in Handlers \cup {None}
  /\ jobLock \in [JobTypes -> Workers \cup {None}]
  /\ events \subseteq Requests
  /\ ingest \in [Requests -> {"idle", "stored", "done"}]
  /\ answer \in [Requests -> SUBSET Requests]
  /\ requests \in 0..MaxRequests /\ failures \in 0..MaxFailures

Init ==
  /\ connector = [kind |-> "none", status |-> "none"]
  /\ status = "none" /\ approver = None
  /\ assetId = FALSE /\ monitoring = FALSE
  /\ jobs = [t \in JobTypes |-> "none"]
  /\ asset = "absent"
  /\ pc = [x \in Actors |-> "idle"]
  /\ op = [x \in Actors |-> "none"]
  /\ key = [h \in Handlers |-> None]
  /\ seen = [w \in Workers |-> "none"]
  /\ out = [w \in Workers |-> NoWrite]
  /\ rowLock = None
  /\ jobLock = [t \in JobTypes |-> None]
  /\ events = {}
  /\ ingest = [r \in Requests |-> "idle"]
  /\ answer = [r \in Requests |-> {}]
  /\ requests = 0 /\ failures = 0 /\ orphaned = FALSE

-----------------------------------------------------------------------------
(* Transactions, as in DatabaseHoney. *)

Goto(x, step) == pc' = [pc EXCEPT ![x] = step]
Unlocked(lock, x) == IF lock = x THEN None ELSE lock

EndTransaction(x) ==
  /\ Goto(x, "idle")
  /\ op' = [op EXCEPT ![x] = "none"]
  /\ key' = [h \in Handlers |-> IF h = x THEN None ELSE key[h]]
  /\ seen' = [w \in Workers |-> IF w = x THEN "none" ELSE seen[w]]
  /\ out' = [w \in Workers |-> IF w = x THEN NoWrite ELSE out[w]]
  /\ rowLock' = Unlocked(rowLock, x)
  /\ jobLock' = [t \in JobTypes |-> Unlocked(jobLock[t], x)]

\* What x did to the external system stays.
Rollback(x) ==
  /\ EndTransaction(x)
  /\ orphaned' = (orphaned \/ (x \in Workers /\ out[x].published))
  /\ UNCHANGED <<db, asset, ingestion, requests>>

\* The process dies or the database refuses a statement.
Crash(x) ==
  /\ pc[x] # "idle" /\ failures < MaxFailures
  /\ failures' = failures + 1
  /\ Rollback(x)

\* The transaction x waits for.
Holder(x) ==
  IF pc[x] \in {"write", "flush"} /\ rowLock # x THEN rowLock
  ELSE IF pc[x] = "queue" THEN jobLock[JobOf[op[x]]]
  ELSE None

\* PostgreSQL aborts a transaction on a cycle of waits: a handler that holds the
\* deployment's row and wants the job's, a worker that holds the job's.
DeadlockVictim(x) ==
  /\ Holder(x) # None /\ Holder(Holder(x)) = x
  /\ Rollback(x)
  /\ UNCHANGED failures

-----------------------------------------------------------------------------
(* Connectors and drafts.  Each endpoint is one step: it writes one row. *)

ConnectorStep(kind, s) ==
  /\ connector' = [kind |-> kind, status |-> s]
  /\ UNCHANGED <<deployment, jobs, asset, tx, ingestion, counters>>

\* create_rag_connector; create_mcp_connector, for an allowed server.
CreateConnector ==
  /\ connector.kind = "none"
  /\ \E kind \in {"rag", "mcp"} : ConnectorStep(kind, "pending")

\* test_rag_connector; no deployment looks at the status.
TestRagConnector ==
  /\ connector.kind = "rag"
  /\ \E s \in {IF RagConnected(t) THEN "active" ELSE "failed" : t \in ConnTest} : ConnectorStep("rag", s)

\* test_mcp_connector
TestMcpConnector ==
  /\ connector.kind = "mcp"
  /\ \E s \in {IF McpConnected(t) THEN "active" ELSE "failed" : t \in ConnTest} : ConnectorStep("mcp", s)

\* create_tripwire: a known surface, a connector of its kind, and the row with its
\* preview, or nothing.
CreateTripwire(d) ==
  /\ d.surface \in SurfaceTypes /\ status = "none"
  /\ connector.kind = IF d.surface = "rag_document" THEN "rag" ELSE "mcp"
  /\ Previewable(d)
  /\ status' = "draft"
  /\ UNCHANGED <<connector, approver, assetId, monitoring, jobs, asset, tx, ingestion, counters>>

-----------------------------------------------------------------------------
(* The deployment's endpoints. *)

\* Mutant: the requester may approve.
LoadMutant(h, o, k) ==
  /\ pc[h] = "idle" /\ requests < MaxRequests
  /\ requests' = requests + 1
  /\ CanTransition(status, Target[o])
  /\ op' = [op EXCEPT ![h] = o]
  /\ key' = [key EXCEPT ![h] = k]
  /\ Goto(h, "write")
  /\ UNCHANGED <<db, asset, seen, out, rowLock, jobLock, ingestion, failures, orphaned>>

\* An endpoint loads the deployment and checks the transition it is about to make
\* (409 otherwise); approve also wants another actor than the requester (403).
\* Elsewhere the actor makes no difference, and one stands for all.
Load(h, o, k) ==
  /\ pc[h] = "idle" /\ requests < MaxRequests
  /\ requests' = requests + 1
  /\ CanTransition(status, Target[o])
  /\ IF o = "approve" THEN k # Requester ELSE k = Requester
  /\ op' = [op EXCEPT ![h] = o]
  /\ key' = [key EXCEPT ![h] = k]
  /\ Goto(h, "write")
  /\ UNCHANGED <<db, asset, seen, out, rowLock, jobLock, ingestion, failures, orphaned>>

\* The rest of submit, approve and reject: UPDATE the status, whatever it is by now.
Decide(h) ==
  /\ pc[h] = "write" /\ op[h] \notin DOMAIN JobOf /\ rowLock = None
  /\ EndTransaction(h)
  /\ status' = Target[op[h]]
  /\ approver' = IF op[h] = "approve" THEN key[h] ELSE approver
  /\ UNCHANGED <<connector, assetId, monitoring, jobs, asset, ingestion, counters>>

\* The same UPDATE in _lifecycle, which still needs the job's row.
WriteStatus(h) ==
  /\ pc[h] = "write" /\ op[h] \in DOMAIN JobOf /\ rowLock = None
  /\ rowLock' = h
  /\ Goto(h, "queue")
  /\ UNCHANGED <<db, asset, op, key, seen, out, jobLock, ingestion, counters>>

\* Mutant: enqueue_job alone, which ignores the conflict with a finished job.
RequeueMutant(h) ==
  LET t == JobOf[op[h]] IN
  /\ pc[h] = "queue" /\ jobLock[t] = None
  /\ EndTransaction(h)
  /\ status' = Target[op[h]]
  /\ jobs' = [jobs EXCEPT ![t] = IF @ = "none" THEN "pending" ELSE @]
  /\ UNCHANGED <<connector, approver, assetId, monitoring, asset, ingestion, counters>>

\* clear_job and enqueue_job: a fresh job replaces any earlier one of its type,
\* once no worker holds it; then the commit.
Requeue(h) ==
  LET t == JobOf[op[h]] IN
  /\ pc[h] = "queue" /\ jobLock[t] = None
  /\ EndTransaction(h)
  /\ status' = Target[op[h]]
  /\ jobs' = [jobs EXCEPT ![t] = "pending"]
  /\ UNCHANGED <<connector, approver, assetId, monitoring, asset, ingestion, counters>>

-----------------------------------------------------------------------------
(* The worker: one job per run, the smallest batch. *)

\* claim_jobs, and the service loads the deployment.
Claim(w, t) ==
  /\ pc[w] = "idle"
  /\ jobs[t] = "pending" /\ jobLock[t] = None
  /\ jobLock' = [jobLock EXCEPT ![t] = w]
  /\ op' = [op EXCEPT ![w] = t]
  /\ seen' = [seen EXCEPT ![w] = status]
  /\ Goto(w, "act")
  /\ UNCHANGED <<db, asset, key, out, rowLock, ingestion, counters>>

\* The service returns because another request came first (done), or raises anything
\* but a ConnectorError, as for a secret that cannot be decrypted (failed).
NothingToDo(w) ==
  /\ pc[w] = "act"
  /\ EndTransaction(w)
  /\ jobs' = [jobs EXCEPT ![op[w]] = IF seen[w] = Expected[op[w]] THEN "failed" ELSE "done"]
  /\ UNCHANGED <<connector, deployment, asset, ingestion, counters>>

Acts(w, t) == pc[w] = "act" /\ op[w] = t /\ seen[w] = Expected[t]

\* A transition of the loaded record; the UPDATE is still to come.
SetStatus(w, s) ==
  /\ out' = [out EXCEPT ![w].status = s]
  /\ Goto(w, "flush")
  /\ UNCHANGED <<db, op, key, seen, rowLock, jobLock, ingestion, requests, failures>>

\* deploy_document, deploy_resource: idempotent by the asset's identifier, and so over
\* whatever the asset has become since.
Deploy(w) ==
  /\ Acts(w, "execute")
  /\ asset' = "ours"
  /\ out' = [out EXCEPT ![w].published = TRUE]
  /\ Goto(w, "verify")
  /\ UNCHANGED <<db, op, key, seen, rowLock, jobLock, ingestion, counters>>

\* deploy or verify raises a ConnectorError: _fail, which records no identifier.
DeployFails(w) ==
  /\ \/ /\ Acts(w, "execute")
        /\ asset' \in {asset, "ours"}
        /\ orphaned' = (orphaned \/ asset' # asset)
     \/ /\ pc[w] = "verify"
        /\ orphaned' = TRUE
        /\ UNCHANGED asset
  /\ SetStatus(w, "failed")

\* verify_document, verify_resource and _finish.
Verify(w) ==
  /\ pc[w] = "verify"
  /\ SetStatus(w, IF asset = "ours" THEN "deployed" ELSE "verification_failed")
  /\ UNCHANGED <<asset, orphaned>>

\* delete_document, retire_resource: only with the generated content; an asset that is
\* gone, or was never recorded, is retired as well.
Retire(w) ==
  /\ Acts(w, "retire")
  /\ asset' = IF assetId /\ asset = "ours" THEN "absent" ELSE asset
  /\ SetStatus(w, IF assetId /\ asset = "modified" THEN "drift_detected" ELSE "retired")
  /\ UNCHANGED orphaned

\* The deletion raises a ConnectorError, before its effect or instead of its answer.
RetireFails(w) ==
  /\ Acts(w, "retire")
  /\ asset' \in {asset, IF asset = "ours" THEN "absent" ELSE asset}
  /\ SetStatus(w, "failed")
  /\ UNCHANGED orphaned

\* Mutant: the identifier is not recorded when the verification fails.
FlushMutant(w) ==
  /\ pc[w] = "flush" /\ rowLock = None
  /\ EndTransaction(w)
  /\ status' = out[w].status
  /\ assetId' = (assetId \/ out[w].status = "deployed")
  /\ monitoring' = (monitoring \/ out[w].status = "deployed")
  /\ jobs' = [jobs EXCEPT ![op[w]] = "done"]
  /\ UNCHANGED <<connector, approver, asset, ingestion, counters>>

\* The flush of the deployment's row, complete_job and the commit.  A deployed or
\* unverified asset is recorded; monitoring is activated with deployed, for good.
Flush(w) ==
  /\ pc[w] = "flush" /\ rowLock = None
  /\ EndTransaction(w)
  /\ status' = out[w].status
  /\ assetId' = (assetId \/ out[w].status \in {"deployed", "verification_failed"})
  /\ monitoring' = (monitoring \/ out[w].status = "deployed")
  /\ jobs' = [jobs EXCEPT ![op[w]] = "done"]
  /\ UNCHANGED <<connector, approver, asset, ingestion, counters>>

\* The customer, or another tenant of the store, edits or deletes the asset.
CustomerWrites ==
  /\ asset = "ours"
  /\ asset' \in {"modified", "absent"}
  /\ UNCHANGED <<db, tx, ingestion, counters>>

-----------------------------------------------------------------------------
(* Events.  Authentication and the signature check write last_used_at of the key and *)
(* of the monitor's credential, and hold these rows to the end of the transaction.   *)

Together(r, s) == r.key = s.key \/ r.monitor = s.monitor

\* Mutant: last_used_at is not written, and no row is held.
IngestMutant(r) ==
  /\ ingest[r] = "idle" /\ monitoring
  /\ ingest' = [ingest EXCEPT ![r] = "stored"]
  /\ answer' = [answer EXCEPT ![r] = events \cup {r}]
  /\ UNCHANGED <<db, asset, tx, events, counters>>

\* ingest_tripwire_event up to its answer: a deployment with the trace whose monitoring
\* was activated, the event's row, and the events that are visible.
Ingest(r) ==
  /\ ingest[r] = "idle" /\ monitoring
  /\ \A s \in Requests : Together(r, s) => ingest[s] # "stored"
  /\ ingest' = [ingest EXCEPT ![r] = "stored"]
  /\ answer' = [answer EXCEPT ![r] = events \cup {r}]
  /\ UNCHANGED <<db, asset, tx, events, counters>>

CommitEvent(r) ==
  /\ ingest[r] = "stored"
  /\ ingest' = [ingest EXCEPT ![r] = "done"]
  /\ events' = events \cup {r}
  /\ UNCHANGED <<db, asset, tx, answer, counters>>

Next ==
  \/ CreateConnector \/ TestRagConnector \/ TestMcpConnector
  \/ \E d \in Drafts : CreateTripwire(d)
  \/ \E h \in Handlers :
       \/ \E o \in DOMAIN Target, k \in Keys : Load(h, o, k)
       \/ Decide(h) \/ WriteStatus(h) \/ Requeue(h)
  \/ \E w \in Workers :
       \/ \E t \in JobTypes : Claim(w, t)
       \/ NothingToDo(w) \/ Deploy(w) \/ DeployFails(w) \/ Verify(w)
       \/ Retire(w) \/ RetireFails(w) \/ Flush(w)
  \/ \E x \in Actors : Crash(x) \/ DeadlockVictim(x)
  \/ CustomerWrites
  \/ \E r \in Requests : Ingest(r) \/ CommitEvent(r)

\* A worker that is not waiting goes on, and one is started for a job that is pending;
\* so does a handler that has begun.  PostgreSQL breaks a cycle of waits, and serves the
\* waiters of a row in turn, which makes the fairness of a statement that waits strong.
WorkerStep(w) ==
  \/ \E t \in JobTypes : Claim(w, t)
  \/ NothingToDo(w) \/ Deploy(w) \/ Verify(w) \/ Retire(w) \/ Flush(w)
HandlerStep(h) == Decide(h) \/ WriteStatus(h) \/ Requeue(h)

Spec ==
  /\ Init /\ [][Next]_vars
  /\ \A w \in Workers : WF_vars(WorkerStep(w)) /\ SF_vars(Flush(w))
  /\ \A h \in Handlers : SF_vars(HandlerStep(h))
  /\ WF_vars(\E x \in Actors : DeadlockVictim(x))

-----------------------------------------------------------------------------
(* Properties. *)

\* Separation of duties: nothing is published that somebody other than the requester
\* has not approved.
PublishedIsApproved == asset # "absent" => approver \in Keys \ {Requester}

\* What is published can be retired: an asset in the external system is recorded with
\* the deployment, is being published, or is the leftover of a lost answer or
\* transaction; and a retirement never starts without the identifier.
AssetIsRecorded ==
  /\ asset # "absent" => assetId \/ orphaned \/ \E w \in Workers : out[w].published
  /\ status = "retiring" => assetId

\* A deployment that waits for the worker gets on, unless the job failed with an
\* exception: a fresh job is committed with the status, and a finished one is replaced.
WaitingEnds ==
  \A t \in JobTypes : status = Expected[t] ~> (status # Expected[t] \/ jobs[t] = "failed")

\* Answers about one deployment to one key or one monitor grow: a later one counts the
\* events of an earlier one, and its severity is not lower.
AnswersGrow ==
  \A r, s \in Requests :
    Together(r, s) /\ ingest[r] # "idle" /\ ingest[s] # "idle" =>
      \/ answer[r] \subseteq answer[s] /\ Severity(answer[r]) <= Severity(answer[s])
      \/ answer[s] \subseteq answer[r] /\ Severity(answer[s]) <= Severity(answer[r])
=============================================================================
