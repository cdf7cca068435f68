# A verification project for DeceptiForge

DeceptiForge plants decoys (files, database rows, AI documents and tools), watches for anybody
touching them and turns the detections into alerts and incidents. Its core is a FastAPI service
(`src/apps/api/app`), PostgreSQL, Redis and a set of jobs. The models are about what several API
workers, jobs, monitors and external systems do to the same rows at the same time.

## Inventory

| Part | State | Operations | Hard behaviour | What makes it correct |
|---|---|---|---|---|
| Replay guard (`services/replay.py`) | nonces in Redis with a TTL | `check` | delay, duplication, clock skew, outages | a request passes once |
| Ingestion (`api/pipeline.py`, `services/pipeline.py`) | events, alerts, jobs | `ingest_monitoring_event` | concurrent upserts, check-then-act, duplicates | no lost update, nothing counted twice, bounded queue |
| Rate limit, quota (`services/rate_limit.py`, `capacity.py`) | windows and counters in Redis | `allow`, `admit` | non-atomic sequences | never admits too many |
| Reconstruction (`services/incident_reconstruction`, `jobs/reconstruction.py`) | job queue, incidents | claim, process, complete | concurrent runs, crashes, deadlocks, stale reads | each job once, finished jobs visible, every job settles |
| Incident lifecycle (`jobs/incident_lifecycle.py`) | incident status | retire, archive | overlaps with reconstruction | re-tagging loses nothing |
| Decoy deployment (`api/deployments.py`, `services/deployment`) | deployment, jobs, tripwires, GitHub | submit, approve, reject, deploy, verify, retire, roll back | stale reads, effects outside the transaction, pull requests merged late | monitoring only for verified files, none after retirement, four eyes |
| Database honey (`services/database`) | connectors, honey rows | discover, insert, verify, remove | writes to a customer's database around a commit | no unrecorded row |
| AI tripwires (`services/ai_tripwire`) | connectors, deployment, jobs, the asset outside | create, approve, deploy, retire, ingest | publication around a commit, duplicate and stale requests, concurrent events | four eyes, nothing published unrecorded, nothing waits for ever, answers grow |
| Integrations (`services/integrations`) | outbox, dead letters | enqueue, lease, deliver, retry | at-least-once delivery, leases that expire | nothing lost, retries bounded |
| Agent sensor (`services/agent_sensor`, `agent_sdk`) | enrolments, sessions, events, the wrapper's queue | enrol, ingest, complete, revoke | duplicate delivery, bounded queue, late events | one-time tokens, counters span requests, no silent loss |
| Browser sensor (`services/browser_sensor`, `apps/extension`) | sensor, policy, registry, stored blobs of the extension | enrol, sync, report, flush, revoke | tasks that overlap around an await | a failed report stays queued, nothing stored after revocation |
| Incident grouping (`services/monitoring`, `alerting`, `incident_reconstruction/engine.py`) | alerts, incidents | match, deduplicate, group, upsert | jobs in any order, overwriting upserts | no detection goes unseen |
| Decoy pipeline (`services/pipeline.py` and its engines) | profiles, contexts, plans, decoys, reports | scan, plan, generate, evaluate | artifacts replaced between two requests | accepted decoys are safe |
| Learning (`services/learning`, `jobs/learning_calibration.py`) | outcomes, feedback, versions | record, calibrate, approve, activate, roll back | stale decisions, few samples | reviewed versions, earned priors |
| Coverage (`services/coverage_engine`) | snapshots, gaps, recommendations, policy | recalculate, decide | callers that overlap, weighted scores | no surface without a decoy counts as covered |
| Judge sandbox (`services/judge_*.py`) | budget, deadline, seeded rows | provision, analyze, interact, export, reset, expire | check and use apart | the budget holds |
| API keys (`security.py`, `services/api_keys.py`) | keys, monitor credentials | authenticate, create, revoke | requests under way while a key is revoked | revoked stays revoked |
| Onboarding (`services/onboarding.py`) | workspace, steps, tests | start, pause, resume, reconcile, test | reconciliation around a pause | a pause holds |
| Reliability (`services/reliability`) | failover log, drills | request, approve, advance, drill | two operators at once | no promotion without a fence |
| Scanner, naming, narratives, previews | none | functions of text | - | determinism |

The parts interact through tables: ingestion appends the jobs reconstruction drains; deployments
register the tripwires the browser sensor looks up; incidents feed integrations and narratives.
There are no callbacks between processes. An API handler is one transaction (`get_db`: commit on
success, rollback on any exception), a job is one transaction (`job_session`), and PostgreSQL runs
them at READ COMMITTED. Redis and external systems are outside every transaction.

`PROJECT.json` lists every part, the lines each definition models, and the hazards with the
properties that would catch them.

## Plan

1. Done: the modules below, the runs, and eight modules of proofs, which state every safety
   property that the passing runs check (see Proofs).
2. Next, proofs: the types that the inductive invariants contain, as theorems of their own; an
   abstract specification of the outbox (an event is delivered once, or more often only on an
   operator's word) and the refinement.

Which module uses which: `MonitoringIngest` implements `AlertLedger` (`INSTANCE ... WITH`);
`AgentSensor` extends `ScopeRules`; `MCControlPlane` puts the modules of the control plane side by
side. `MonitoringIngest` and `ReconstructionQueue` hold the interleavings of ingests and of jobs:
the first for given alerts, the second for alerts with given spans, from which a job computes what it
sees and which incident it writes. `Incidents` computes alerts and incidents in full, with an ingest
and a job as single steps.

## Modules

All transaction models share one vocabulary. A statement that writes a row takes its lock and waits
for a transaction that has written it; what a transaction writes is kept per actor and becomes
visible in the step that commits; a rollback drops it. A cycle of waits makes PostgreSQL abort one
transaction. The ORM's `merge` is two steps, the SELECT that looks for the row and the flush, and a
flush writes only the columns that changed.

**ReplayGuard.** `Send` and `Deliver` are a monitor's signed request and any delivery of it to any
worker. `Check` is `ReplayGuard.check`: skew first, then `Reserve` (SET NX EX). The key is scoped by
organization (`ScopeKey`) and lives for `Ttl`. `RedisOutage` makes Redis unreachable and reachable
again; with `FailOpen` an outage lets requests through, which production settings refuse.

**MonitoringIngest.** One action per step of the handler: `Verify` (locks the credential row through
`last_used_at`), `ReplayCheck` (reads the clock) and `Reserve` (SET NX EX, at most `MaxDelay` later) or
`ReplayRefused`, `Admit`/`Throttled`, `Scan`, `FlushEvent` or
`FlushEventConflict` (the uncaught primary key violation of two equal events), `InsertAlert` and
`MergeAlert` (`upsert_alert_atomic`), `Commit`. `Fail` ends the transaction at any step. `Drain`
stands for the reconstruction worker. What the value matched and which episode it belongs to are the
constants `EventOf` and `AlertOf`. `AlertLedger` says what this promises: committed ingests are
atomic increments, each appending one job. Its `counted` is the committed `eventCount` and its
`waiting` the committed `pendingJobs`; every step of a handler but `Commit` is a stutter of it.
A reservation expires `Ttl` after it arrived, so a request stamped ahead, or one whose reservation
reaches Redis late, passes again while its timestamp is valid, and is counted again:
`CountedAsReserved` says how often at most.

**ReconstructionQueue.** `SelectOrganizations`, `SelectJobs` and `Claim` are the fair claim;
`ReadAlerts`, `LookupIncident`, `FlushIncident` process a job; `JobError` marks it failed;
`FlushConflict`, `Crash` and `DeadlockVictim` lose the whole run, because `job_session` commits only
when the queue looks empty. Alerts have spans of time, which merges widen (`Spans`). A job sees those
of its trace that its window reaches (`InWindow`, `Related`), and computes from them which incident it
writes: trace, kind, and the bucket of the first one (`Identity`). An incident's row is abstracted to the
job that built it and the versions that job had read.
`DoneIsReflected` says that the alert of a finished job stays in the incident the job was written to,
as new as the job knew it, unless the row was replaced by a job whose window does not reach the alert;
`incident_grouping` is about that case, which one run is enough for. It is about at most two runs at a
time. With three it can fail: run *w* reads the alerts of an incident and waits for the row; run *u*
reads later, for a newer job of the same incident; a third run settles the jobs that would have kept
*u* from ending, so *u* writes and commits; *w* then overwrites it with its older reading, and the
newer job stays done.

**IncidentLifecycle.** One incident, the reconstruction of it, and overlapping lifecycle runs with
their advisory lock, which is released before the commit. Time is the age of the incident's window.

**DecoyDeployment.** One deployment. `Load` is the read and the check of the state machine in an
endpoint, `Decide`, `WriteStatus` and `Requeue` the writes that follow; `Claim`, `Execute`,
`VerifyWait`/`VerifyClosed`/`VerifyMerged`, `Activate`, `Disable`, `Remove` and `Flush` are the
worker's job. Nothing ties a write to the read it was decided on, as in the code. A step after
which a transaction waits for nothing includes its commit. GitHub is a list of pull requests and
whether the base branch has moved; maintainers merge (perhaps after editing) and close. The code has
no poller that enqueues `verify`: `EnqueueVerify` stands for it, and replaces a finished job, which
`enqueue_job` alone would not do. The batch is one job.

**IntegrationDelivery.** `Emit` is `emit_event` with its routing (`Matches`) and its idempotency key,
which no code calls yet; `Select`, `Claim`, `Load`, `Send`, `RecordDelivered`, `RecordGivenUp`,
`RecordRetry`, `Refuse` and `Commit` are a run of the export job; `Request`, `Disable`, `Test` and
`Retry` are operators; `Purge` is retention. A run is one transaction, so the status `delivering` and
its lease are never committed and row locks are what excludes two runs from a delivery. A column is
written only when it differs from what was loaded (`Assigned`). The session refers to rows weakly, so
a run reads the integration again for every delivery. Whether a delivery is too old to retry is left
open. `Lose` is a crash, an exception or the victim of a deadlock: what was sent stays sent.

**DatabaseHoney.** A connector, one deployment and its row in the customer's table. Which tables are
eligible (`Deployable`), which columns a row has (`RowColumns`) and whether the stored values compare
equal to the recorded ones (`Comparable`) are computed from a description of the table, as
`evaluate_table`, `generate_row` and `delete_owned_row` do. The endpoints are those of
`DecoyDeployment`; the worker's steps are `Insert`, `InsertFails`, `RecordExists`, `Activate`,
`DeleteRow`, `Drift`, `DeleteFails`, `MarkRecord` and `Flush`. The customer's database commits at the
step that writes it; an error may hide a commit that happened. `NothingToDo` includes the exceptions
the worker catches. `verification_failed`, `expired` and `cancelled` are in the state machine but no
code leads there with the psycopg adapter. `monitoring_activated_at` is not a variable: it is set with
`deployed` and never cleared. `jobs/database_honey.py` does not call the worker yet; one transaction
per job is assumed.

**ScopeRules, AgentSensor.** `ScopeRules` is the pure part of the agent sensor: `NormalizePath`,
`ClassifyPath`, the rules of `evaluate` in their order (`Rules`, `Evaluate`), the counters rebuilt from
stored events (`RebuildAggregate`) and `DetectEscalation`. `AgentSensor` adds enrolment (`FindToken`
and `Consume` are the check and the conditional UPDATE of `enroll`), `Revoke`, a session
(`StartSession`, `ReadEvents`, `CompleteSession`), the ingestion of its events (`Authenticate`,
`LoadSession`, `Store`) and the wrapper of `agent_sdk` (`EmitEvent`, `Finish`, `Post`, `Return`,
`Enqueue`). Authentication writes the API key's row and keeps its lock to the end of the transaction,
so requests of one key follow each other; the key's status is read before the lock. Whatever is read
between the lock and the session's row is one step, because a revocation or a completion in between
can be moved before or after it. `GiveUp` is a transport that fails while the request may still be
served, `Abort` an unavailable replay store or a lost transaction, `Exit` the end of the wrapper's
process. Events carry no `observed_at` of their own, so the server's clock, and with it the lock,
orders them. Severities and confidences decide nothing and are left out. Tokens exist at the start.

**AiTripwire.** A deployment of an AI tripwire: `CreateTripwire` with the checks of a draft, then, as in
`DecoyDeployment`, requests that `Load`, decide and `Requeue`, and a worker that publishes, verifies
and retires through the adapter. The asset has one identifier made from the trace, so publishing
twice overwrites. `Ingest` stores an event and answers with the exposure and severity of all stored
ones; authentication serializes the requests of a key, and the signature's `last_used_at` those of a
monitor. Lost answers and transactions leave an `orphaned` asset.

**BrowserSensor.** The service worker's tasks (detections, flushes of the queue, syncs), the popup,
and the endpoints. Each task has its own program counter and its copy of the blob it loaded; saving
replaces the blob. `overlap` records that two tasks had the queue in memory at once, which the code
does not exclude, and `overwritten` the events that a task's save took out of the stored queue without
having loaded them. `OrderlyQueue` says that nothing else loses an event, and that only tasks that
overlapped overwrite. An event whose fetch is rejected is never queued (see the findings). The
extension also takes a 409 for a delivery; the server answers it to a repeated nonce, and every report
draws a new one, so `Answer` has no such branch. Rules, domains and fields follow
`classifyDestination` and the content script's filter. `Scenes` are the sets of tasks explored
together.

**Learning.** Outcomes and feedback, the eligibility of a cohort (`Sufficient`: samples, distinct
actors, the share of one), the candidate the job or a request makes of it, and decisions on versions
from what was loaded (`Permitted` is the table of transitions with the approver's rule).
No row equals the value that stands for none, here as in the other small models (`LearnRows`,
`KeyAssumption`, `JudgeAssumption`).

**Coverage.** The estate (surfaces, decoys, sensors, capabilities) changes; a caller builds the
inventory and scores it (`Calculate`), takes a stamp (`StampSnapshot`), looks at the latest snapshot
(`PersistSnapshot`) and, unless `Unchanged`, commits its own with gaps and recommendations
(`CommitSnapshot`). Callers are requests and runs of the job; a run holds the advisory lock until it
has looked and not until it commits (`HoldsJobLock`), so runs overlap as well.
`SurfaceScore` is the formula of the code in integers, its `WeightedScore` the sum over the eight
dimensions.

**JudgeSandbox, ApiKeys, Reliability, Onboarding.** Small transaction models: `WriteKey` and
`TouchKey` are the write of `last_used_at`, on which the exclusion of requests with one key rests;
`ReadState`, `RecordTransition` and `CommitTransition` are the three moments of a failover step;
`ReadFact` is one of the queries of a reconciliation and `Merge` the columns that a flush writes.
The histories that a failover begins with are such as the endpoints leave (`Backed`): every state is
preceded by those that lead to it. A workspace may also begin paused and never started, or torn: a
start and a resume that overlap leave `not_started` with `started_at` set, and a view of such a row
that overlaps a pause writes the derived status over it. `PauseHolds` exempts that case and no other.

**Limits.** `TakeTime` and `Slide` are the time a request takes in its process and the pipeline of
commands in Redis that uses it; `TakeOut` removes the member of a rejected one. `IncrementBurst`,
`ExpireBurst`, `IncrementSustained` and `ExpireSustained` are the commands of the quota gate, each a
step of its own; `QuotaStoreFails` may come between. `LoadRow` and `SetLimits` are the update of a
tenant's limits. `LimitSpec` interleaves all of them; the run explores the window, the quota and the
update apart, since they share only the clock and the limits.

**Incidents.** `Match` is the matcher (exact before normalized), `AlertSeverity` the score of an
alert, `AlertId` its identity with the episode, `CombineAlerts` the row of an episode.
`RelatedAlerts`, `Groups`, `Kind`, `IncidentSeverity`, `IncidentId` and `Build` are the job's lookup
and the engine. Since all alerts a job reads overlap its window and share its trace, `Groups` yields
one group per job here; the general definition is the code's.

**DecoyPipeline.** `BuildContext`, `Discover`, `PlacementAllowed`, `Priority`, `Confidence`,
`GenerateAssets` and `Decision` are the engines with their tables and rounding, in integers;
`PlanPlacements`, `GenerateDecoys` and `EvaluateDecoys` the requests, each on the newest artifacts.
Whether a file with secrets is an example follows from its path (`ProfileAssumption`, as in
`placement_reasoning/discovery.py`).

## Runs

| Run | Shows | Bounds |
|---|---|---|
| `monitoring_ingest` | no lost update, duplicates counted only as often as their reservations expire, bounded overrun, refinement of the ledger, every request answered | 2 handlers, 2 monitors, 4 requests (two with the same event, one of another event of the same episode, one without a match; one stamped ahead), any 3 deliveries of them, window 1, delay of Redis 2 (its socket timeout), 4 ticks, queue limit 1 |
| `reconstruction_queue` | each job once, finished jobs visible, every job settles | 2 runs, 2 jobs, 3 alerts of 2 traces and tenants, two of which reach each other and one of those is widened by a merge into an earlier bucket, batch 1, one crash |
| `decoy_deployment` | tripwires only for approved merged files, none when retired, four eyes, one pull request | 2 handlers, 2 workers, 5 accepted requests (submit, approve, deploy, retire and one that races), 3 pull requests |
| `integration_delivery` | delivered once, only a test reactivates | 2 runs, 1 operator, 1 integration, 3 events (one is not routed), batch 2, 2 attempts, 2 requests, one lost run |
| `database_honey` | unrecorded rows only by lost transactions, finished removals have removed the row, nothing waits for a finished job | 2 handlers, 2 workers, 4 kinds of tables, 7 accepted requests (a failure, a second approval and a removal that races), 2 inserts |
| `agent_sensor` | a token enrols one sensor, sensitive accesses are counted across requests, no event is lost silently, at most one follows the end of its session | 2 enrolments with one token, 2 requests at once, 2 actions of 4 kinds, a queue of 1, one request given up or aborted, one decoy that comes and goes |
| `ai_tripwire` | four eyes, published assets recorded, answers grow, nothing waits for ever | 2 handlers, 2 workers, 2 keys, 5 accepted requests (the four of a life and one that races), 2 events on one key, one lost transaction |
| `control_plane` | the fifteen properties of the next table | one part at a time |
| `replay_ttl` | **violated**: with a clock that is ahead, a nonce is reused while the timestamp is valid | 2 organizations that draw the same nonce, window 2, skew up to 2 either way, 7 ticks |
| `incident_lifecycle` | **violated**: a retirement drops an alert | 2 alerts, 2 lifecycle runs, one worker |
| `deployment_transitions` | **violated**: a rejected deployment becomes approved | those of `decoy_deployment` with one worker |
| `incident_grouping` | **violated**: an alert is in no incident | one trace, 3 detections, a window of 2 episodes |

`control_plane` explores the components that share nothing that is modelled twice: the variable
`part` chooses one and the others stay as they are, so their states add up and do not multiply.
Requests to the rate limit and the quota are interchangeable and come in the order of their numbers.

| Part | Property | Bounds |
|---|---|---|
| replay | `PassesAtMostOnce`: a request whose monitor's clock is not ahead passes once | 2 organizations, window 2, skew 2, 7 ticks: beyond twice the window |
| rate | `SlidingWindowHolds`: no more than the rate in any minute less the delay | 3 requests, rate 2, a minute of 3 seconds, delay 2 (the socket timeout of Redis) |
| quota, policy | `FixedWindowsHold`: no more than a limit loaded, for each counter that may be begun, in a second or minute | the same, two policies, Redis failing between any two commands |
| keys | `RevokedStaysRevoked` | 2 keys that may revoke each other, 2 requests, 3 roles |
| failover, drills | `PromotionFollowsFence` | 2 operators, 3 histories to begin with, 3 transitions |
| workspace, tests | `PauseHolds` | 2 keys, 2 requests, 1 change of what is counted, a deployment that is there, 2 tests |
| judge | `BudgetIsKept` | 2 requests at once, budgets of 1 and 2, one reset |
| coverage | `UncoveredIsReported`, `RepeatsAreConcurrent` | 6 surfaces of all types, 5 estates, a key and two runs of the job, 2 snapshots |
| feedback, calibration | `ActiveIsReviewed`, `PriorsAreEarned` | 2 keys, 2 versions, 3 outcomes of 2 zones and 2 people |
| browser | `OrderlyQueue`, `RevokedIsSilent` | 6 scenes of up to 8 tasks, a queue of 2, 2 failed requests |
| incidents | `TouchIsNear`: every alert is listed, or one of its trace within a window is | 4 payloads of 3 kinds, 6 instants, window 2 |
| decoys | `AcceptedIsSafe`: reports agree, no name in use, no live file | 2 repositories, 8 profiles, 2 plans, 3 placements |

`FixedWindowsHold` counts how many counters of one window may be begun, `Begun`: one, and one more for
each life of a counter that fits between the first request of the window and the last late one. A burst
counter lives two seconds, for a window of one. With a delay of two, which `redis_socket_timeout`
allows, a late request finds it expired and begins another, so up to twice the limit is admitted in
that second; a delay of one second admits no more than the limit. The run has a delay of two, so that
this happens.

Two actors of a kind are where every race of these models appears: each waits for, or overwrites,
one other. `reconstruction_queue` was also explored with 3 jobs and 3 alerts of one trace (3,963,434
states, safety only) and `decoy_deployment` with 6 requests, without a violation. `DoneIsReflected`
is the exception: the failure with three runs needs five jobs, beyond what TLC explores
exhaustively. The attempt to prove it for any number of runs found it, and a scripted behaviour of
the model confirmed it.

The four violations are disagreements between the code and what it says of itself; `PROJECT.json`
quotes the lines, and others that need no run. `TerminalIsFinal` fails because `transition` checks
the status it loaded. `RetiredIsSilent` and `MonitoringVerified` hold nevertheless, because a
tripwire's row is inserted once and never switched on again, and because a removal switches it off
in the transaction that records the removal's pull request. `RelatedAreTogether` fails because an
upsert replaces an incident by what the latest job sees of it, under an identity that forgets
everything but the hour of the first alert; `TouchIsNear` is what is left of the promise.

The modules state the types of their variables (`TypeOK` and the like). The runs spend their
properties on behaviour and do not list them; they hold in the instances of the runs, and what the
proofs need of them is proved.

Deadlock checking is off where the system may stop: all deliveries made, a deployment retired,
an enrolment token expired, a bound reached. `reconstruction_queue` checks it.

## Fairness

`EveryRequestAnswered` assumes weak fairness of each handler's own next step: the server keeps
executing a handler that is not waiting for a row. Monitors, failures and the queue's consumer owe
nothing. `EveryJobSettles` assumes that the orchestrator starts runs again and lets them execute
(weak fairness of `Progress`), and that a wait for a row which ends again and again is served
(strong fairness of the two waiting statements: PostgreSQL queues the waiters of a row). With weak
fairness alone TLC finds a run that is always the victim of the next deadlock. Crashes are bounded.
`WaitingEnds` assumes that the worker of AI tripwires runs again and again (weak fairness of its
steps), that its flush and the requests are served when they wait for a row again and again, and
that PostgreSQL resolves deadlocks; lost transactions are bounded.

## Proofs

Eight modules of proofs hold for every value of the constants that satisfies the named assumptions
of the modules (finite sets where something is counted, bounds that are numbers, "no row" different
from any row). Every invariant below was first checked by TLC on the instance of its run. The
theorems marked with a hypothesis hold under it and no further.

The library's induction theorems take an operator, which the provers cannot instantiate. Three
properties are about what a loop computes: the flush of the browser's queue (`Ack`), the rebuilding of a
summary (`RebuildAggregate`) and the grouping of alerts (`Groups`). Their models are recursive functions,
on the prefixes of a sequence or the subsets of a finite set; a lemma shows that a function with the
recursive equation exists, and induction is by the least number, or the least set, without the property
(`UpTo`, `LeastNumber`, `WFMin` of the library).

**MonitoringIngestProofs.**
- `UpsertIsAtomic` (the refinement of `AlertLedger`) and `NoUpdateIsLost`. `UpsertInv` ties locks to
  steps: a handler about to commit holds its alert's lock and its `row` is the committed count plus
  one, which stays true because nobody else can commit that alert.
- `DuplicatesAreReserved`. Every commit of a request, and the one handler that may have it past the
  guard (all need the row of its credential, `CredInv`), has a reservation of its own (`PassInv`);
  reservations do not overlap and the last begins within the window and the delay (`SpacingInv`,
  `ClockInv`), so their number is bounded by a quotient. With a window of 300 seconds that is one for a
  request stamped on time while Redis is less than a second late, two otherwise, and three for one
  stamped ahead when Redis is two seconds late.
- `QueueIsBounded`. A handler that has compared the queue with its limit holds its monitor's row until
  it ends (`CredInv`), so the jobs that are there and those that may come stay below the limit plus
  the number of monitors (`OverrunInv`).

**ReconstructionQueueProofs.**
- `JobsProcessedOnce`. A locked job is pending in the table and its holder has settled it or still has
  it in its batch; the batch is empty when the run commits; the history agrees with the table. A
  commit then settles only jobs that were pending.
- `DoneJobsAreReflected`, *for at most two runs at a time*. A job whose
  window reaches an alert reaches its later versions too (`WindowReaches`), so it suffices that the row's
  builder had read the alert late enough. `ReflectInv` compares readings: what a run
  has read is late enough for its job and no older than the incident in the table, and what the other
  run has written is no later, or that run is detained: it cannot commit before it has claimed, or
  waited for, a job that the first one holds. The last part is what a third run breaks.
- `TouchesAreNear` (module `Incidents`). A job's alerts always form one group: each is at most a window
  from the alert the job was made for (`OneGroup`). `NearInv`: a job for the alert is pending, or an
  incident of no later bucket than the alert's own lists one that began before the end of that bucket
  and reaches the alert's window. When a job overwrites that incident and does not load the one
  listed, it has loaded one that was active later and began in the same bucket, which takes its place.

**DecoyDeploymentProofs.** Nothing ties the status that a transaction writes to the one it loaded, so
the invariants speak of facts that never change back.
- `DeploymentTypes`.
- `SeparationOfDuties`. `ApprovalInv`: every status that follows an approval, in the row, in a worker's
  copy or in what it is about to write, stands for an approver other than the requester.
- `MonitoringAfterMerge`, `RemovalSilences`. `ActivationInv`, `RecordInv`, `PastInv` and `SilenceInv`:
  a worker activates a merged pull request with the approved files, before which there were no
  tripwires; the recorded pull request changes only to that of a removal; a status past the deployment
  stands for a verification that has come to its conclusion; and a removal that is recorded, or
  about to be, has switched the tripwires off or found none.
- `DuplicatesAreOrphans`. The lock of the job and the recorded number exclude a second pull request
  unless the first one's transaction was lost.

**IntegrationDeliveryProofs.** `RetriesNeverDuplicate`: a locked delivery is open and an open one has
been delivered no more often than it was requeued (`OutboxInv`). `ReactivationIsTested`: a run that
sends has loaded an active integration, so its "active" is no change, and the only status it writes
is `degraded` (`RunInv`).

**DatabaseHoneyProofs.** `WaitingIsQueued`, `RemovalsDelete`: a status that waits is committed with its
job, a handler replaces a job only when no worker holds it, and the record is retired in the
transaction that has found no row left (`HoneyInv`). `StraysAreLosses`: the keys that neither the
record nor an insert under way accounts for are no more than the transactions lost (`StrayInv`).

**AiTripwireProofs.** `PublicationIsApproved` as in the deployment of files; `AssetsAreRecorded`: a
status that stands for an asset comes with its identifier (`RecordedInv`). `AnswersOnlyGrow`: the
requests of one key or monitor see chains of sets of events, and lemmas about `Classify` say that a
severity grows with the set, whichever type the code happens to take first.

**AgentSensorProofs.** `OneSensorPerToken` (a sensor stands for a consumed token), `OneEventMayBeLate`
(the lock of the API key leaves one request between its check of the session and its insert) and
`EventsAreAccountedFor` (what the wrapper's call is about, and the request it waits for).
`SensitiveReadsAreCounted`: every request has loaded the scope the session was created with, and an
access that was reported under that scope is counted by each later rebuilding of the summary, while
its path is no decoy and it is among the last `EventLimit` rows (`CountInv`); the lemmas say what
`Evaluate` and `RebuildAggregate` answer. No constant may make the classes of a path and "no class"
the same (`NoneAssumption`).

**ControlPlaneProofs.** One section for each part.
- `ReplayedNonceRefused`: the reservation of a passed request expires only after the request has
  become too old (`GuardInv`).
- `JudgeBudget`: the row of the API key is the lock that keeps a loaded counter current until it is
  written (`JudgeInv`). `RevocationIsFinal`: the same for the status of a key.
- `ReviewPrecedesActivation`, `WeightsAreEarned`: what a request decided when it loaded a version still
  holds when it writes, because approvals, outcomes and the rows of a cohort only grow (`LearnInv`).
- `FenceBeforePromotion`: every row of the log, and every row that an operator is about to write, is
  backed by those before it (`RelInv`), which no later row takes away.
- `PauseIsKept`: a visit that neither starts nor resumes writes a pause, the status it has loaded, or
  nothing (`VisitsKeep`).
- `RateIsKept`: whoever has been allowed is in the sorted set with its own time until a minute later,
  so an interval counts no more than the set held (`RateInv`). `QuotasAreKept`, for every delay: the
  requests that have taken the same turn of a window's counters are no more than the counters that have
  lapsed and the present one, and a counter lapses no sooner than a life after it began (`TurnsInv`), so
  their number is bounded by a quotient; admitted requests have turns up to a limit, and a set in so many
  parts has no more members than the product (`PartsCount`).
- `RevokedSensorIsSilent`: a request that has been verified holds the row that the revocation needs
  (`SilentInv`). `QueueIsOrderly`: whatever overlaps, a task's copy lacks of
  what the task had loaded only what was received or discarded, so a save loses nothing else that is
  not counted as overwritten (`KeptInv`); without an overlap one task has the queue in memory and the
  stored one is what it loaded, and without a failed request either, nothing that is still queued was
  received (`SoloInv`). The kinds of tasks are disjoint (`BrowserBounds`).
- `UncoveredIsNeverCovered`: without an active decoy the weighted score is at most 54,900 of 100,000,
  and 60,000 counts as covered. `RepeatsOverlap`: a caller stores a
  snapshot only if the latest of those it has looked at is of another state (`SnapshotInv`).
- `RegisteredIsSafe`: a profile is written once, so all artifacts and all decisions of a repository are
  those it determines (`PipelineInv`); and with one piece of evidence the confidence stays below the
  650 that the generation asks for, so that only example files get decoys, one for a path.

Only model-checked:
- liveness (`EveryRequestAnswered`, `EveryJobSettles`, `WaitingEnds`): the prover has no fairness;
- the types of the variables where no theorem states them; of `IntegrationDelivery`, that `delivering`
  is never committed (`SelectSeq` again).

## Not modelled

Signatures and encryption are assumed to work. The scanner and the naming analysis, narratives,
previews and the rendering of files are deterministic functions of text and appear as constants or
as nondeterministic outcomes; the analysis lab, the demo, the settings, the middleware and the web
dashboard have no protocol of their own. Audit records, metrics and response bodies are left out; a
refused request is one without an effect.

Hazards that no property covers: the commit of `get_db` runs after the response was sent, so a
client may see success for what is then rolled back (what a client observes is not modelled); a
provider error during the removal of a deployment leaves it in `failed`, from which no endpoint leads
back to a removal (that something remains possible is not what TLC checks); an exception that is not
a transport error rolls back a whole run of the export job, whose oldest rows come first again, so
one bad row can hold up every tenant (a liveness property would have to assume it away).
