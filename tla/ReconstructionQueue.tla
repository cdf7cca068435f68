------------------------ MODULE ReconstructionQueue ------------------------
(***************************************************************************)
(* `python -m app.jobs.reconstruction`: workers that drain the queue of    *)
(* reconstruction jobs, each run in one transaction that is committed when *)
(* the queue looks empty (jobs/reconstruction.py, jobs/_runtime.py,        *)
(* services/incident_reconstruction/worker.py, repositories/artifacts.py). *)
(*                                                                         *)
(* The transactions are those of MonitoringIngest: READ COMMITTED, a write *)
(* waits for the transaction that wrote the row before, and a cycle of     *)
(* such waits costs one of the transactions its life.  A job reads the     *)
(* alerts of its trace that its window reaches, all of them within a       *)
(* window of its trigger, so the engine makes one group and one incident   *)
(* of them (Incidents models the grouping for jobs that end one by one).   *)
(* An incident's row is abstracted to the job it was built by and to what  *)
(* that job has read.  Rows are sealed, so a rewritten row always differs. *)
(***************************************************************************)
EXTENDS Integers, Sequences, FiniteSets, FiniteSetsExt

CONSTANTS
  Workers,        \* concurrent runs of the job
  Alerts,
  Traces,
  Organizations,
  TraceOf,        \* the trace of an alert: of one decoy, placement and correlation id
  OrgOf,          \* the organization of a trace
  SurfaceOf,      \* the monitor an alert comes from
  Spans,          \* [first, last] of an alert after each detection merged into it (bound: so many)
  Window,         \* correlation_window_seconds
  None,
  Batch,          \* jobs claimed by one run_once, _DEFAULT_BATCH
  MaxJobs,        \* bound: jobs ever enqueued
  MaxCrashes      \* bound: runs lost to a crash or a database error

\* Jobs are numbered by created_at, the start of the transaction that enqueued
\* them; transactions commit in any order.
Jobs == 1..MaxJobs

ASSUME QueueAssumption ==
  /\ TraceOf \in [Alerts -> Traces]
  /\ OrgOf \in [Traces -> Organizations]
  /\ Window \in Nat \ {0}
  /\ None \notin Workers /\ None \notin Alerts /\ None \notin Jobs
\* combine_alerts only widens an alert.
ASSUME SpanAssumption ==
  /\ Spans \in [Alerts -> Seq([first : Nat, last : Nat])]
  /\ \A a \in Alerts : \A m, n \in 1..Len(Spans[a]) :
       m <= n => /\ Spans[a][n].first <= Spans[a][m].first
                 /\ Spans[a][m].first <= Spans[a][m].last
                 /\ Spans[a][m].last <= Spans[a][n].last
ASSUME BoundAssumption == Batch \in Nat \ {0} /\ MaxJobs \in Nat /\ MaxCrashes \in Nat

VARIABLES
  version,        \* alerts: how often the row was merged, 0 without a row
  status,         \* reconstruction_jobs.status, "none" without a row
  trigger,        \* the alert a job was enqueued for
  incident,       \* incidents: the job and the versions of its alerts a row was built from
  pc,             \* per worker: the next step of its run
  orgs, share,    \* claim_fair: oldest job of each organization to visit; its share
  cand,           \* candidate_ids still to be claimed
  batch,          \* claimed jobs still to be processed
  outcome,        \* statuses written by the run and not yet committed
  snap, found,    \* the versions of the alerts of its trace as read; the merge found a row
  written,        \* incident rows written by the run and not yet committed
  jobLock, incidentLock,
  crashes,
  required,       \* history: the version a job was enqueued for
  completions,    \* history: how often the processing of a job was committed
  builtIn         \* history: the incident a job was last written to

tables == <<version, status, trigger, incident>>
claims == <<orgs, share, cand>>
work == <<batch, outcome, snap, found, written>>
locks == <<jobLock, incidentLock>>
history == <<required, completions, builtIn>>
vars == <<tables, pc, claims, work, locks, crashes, history>>

Steps == {"idle", "orgs", "jobs", "claim", "read", "lookup", "flush", "commit"}
Statuses == {"none", "pending", "claimed", "done", "failed"}
Contents == [Alerts -> Nat]
Rows == [by : Jobs \cup {None}, at : Contents]

\* _build: an incident is identified by its trace, its kind and the bucket it begins in.
Surfaces == {SurfaceOf[a] : a \in Alerts}
Buckets == UNION {{Spans[a][n].first \div Window : n \in 1..Len(Spans[a])} : a \in Alerts}
Incidents == [trace : Traces, kind : Surfaces \cup {"multi_surface"}, bucket : Buckets]

NoAlerts == [a \in Alerts |-> 0]
NoOutcome == [j \in Jobs |-> "none"]
NoRow == [by |-> None, at |-> NoAlerts]
NoRows == [i \in Incidents |-> NoRow]

\* One type invariant for tables, runs and locks.
TypeOK ==
  /\ version \in Contents
  /\ status \in [Jobs -> {"none", "pending", "done", "failed"}]
  /\ trigger \in [Jobs -> Alerts \cup {None}]
  /\ incident \in [Incidents -> Rows]
  /\ pc \in [Workers -> Steps]
  /\ orgs \in [Workers -> SUBSET Jobs]
  /\ share \in [Workers -> Nat]
  /\ cand \in [Workers -> SUBSET Jobs]
  /\ batch \in [Workers -> Seq(Jobs)]
  /\ outcome \in [Workers -> [Jobs -> Statuses]]
  /\ snap \in [Workers -> Contents]
  /\ found \in [Workers -> BOOLEAN]
  /\ written \in [Workers -> [Incidents -> Rows]]
  /\ jobLock \in [Jobs -> Workers \cup {None}]
  /\ incidentLock \in [Incidents -> Workers \cup {None}]
  /\ crashes \in Nat
  /\ required \in [Jobs -> Nat]
  /\ completions \in [Jobs -> Nat]
  /\ builtIn \in [Jobs -> Incidents \cup {None}]

Init ==
  /\ version = NoAlerts
  /\ status = [j \in Jobs |-> "none"]
  /\ trigger = [j \in Jobs |-> None]
  /\ incident = NoRows
  /\ pc = [w \in Workers |-> "idle"]
  /\ orgs = [w \in Workers |-> {}]
  /\ share = [w \in Workers |-> 0]
  /\ cand = [w \in Workers |-> {}]
  /\ batch = [w \in Workers |-> <<>>]
  /\ outcome = [w \in Workers |-> NoOutcome]
  /\ snap = [w \in Workers |-> NoAlerts]
  /\ found = [w \in Workers |-> FALSE]
  /\ written = [w \in Workers |-> NoRows]
  /\ jobLock = [j \in Jobs |-> None]
  /\ incidentLock = [i \in Incidents |-> None]
  /\ crashes = 0
  /\ required = [j \in Jobs |-> 0]
  /\ completions = [j \in Jobs |-> 0]
  /\ builtIn = [j \in Jobs |-> None]

-----------------------------------------------------------------------------
(* Transactions. *)

Goto(w, step) == pc' = [pc EXCEPT ![w] = step]

Free(lock, x, w) == lock[x] \in {None, w}

Release(lock, w) == [x \in DOMAIN lock |-> IF lock[x] = w THEN None ELSE lock[x]]

\* The session is closed: the run ends, its locks and unwritten rows with it.
EndRun(w) ==
  /\ Goto(w, "idle")
  /\ orgs' = [orgs EXCEPT ![w] = {}]
  /\ share' = [share EXCEPT ![w] = 0]
  /\ cand' = [cand EXCEPT ![w] = {}]
  /\ batch' = [batch EXCEPT ![w] = <<>>]
  /\ outcome' = [outcome EXCEPT ![w] = NoOutcome]
  /\ snap' = [snap EXCEPT ![w] = NoAlerts]
  /\ found' = [found EXCEPT ![w] = FALSE]
  /\ written' = [written EXCEPT ![w] = NoRows]
  /\ jobLock' = Release(jobLock, w)
  /\ incidentLock' = Release(incidentLock, w)

\* An exception leaves run(): all the jobs the run claimed are pending again.
Rollback(w) == EndRun(w) /\ UNCHANGED <<tables, history>>

TraceOfJob(j) == TraceOf[trigger[j]]
OrgOfJob(j) == OrgOf[TraceOfJob(j)]

\* The job Head(batch[w]).
Job(w) == Head(batch[w])

\* status == "pending" as a statement of w sees it: uncommitted claims of other
\* runs are not visible, its own are.
Pending(w) == {j \in Jobs : status[j] = "pending" /\ jobLock[j] # w}

\* ORDER BY created_at LIMIT n
Oldest(n, S) == {j \in S : Cardinality({k \in S : k <= j}) <= n}

-----------------------------------------------------------------------------
(* The queue's producer: a committed ingest of MonitoringIngest merges the
   alert and enqueues a job for it.                                        *)

Ingest(a, j) ==
  /\ status[j] = "none" /\ version[a] < Len(Spans[a])
  /\ version' = [version EXCEPT ![a] = @ + 1]
  /\ status' = [status EXCEPT ![j] = "pending"]
  /\ trigger' = [trigger EXCEPT ![j] = a]
  /\ required' = [required EXCEPT ![j] = version[a] + 1]
  /\ UNCHANGED <<incident, pc, claims, work, locks, crashes, completions, builtIn>>

-----------------------------------------------------------------------------
(* A worker's run. *)

\* run: the session is opened and drain starts its first run_once.
Start(w) ==
  /\ pc[w] = "idle"
  /\ Goto(w, "orgs")
  /\ UNCHANGED <<tables, claims, work, locks, crashes, history>>

\* The oldest pending job of every organization that has one.
Heads(w) ==
  {j \in Pending(w) : \A k \in Pending(w) : OrgOfJob(k) = OrgOfJob(j) => j <= k}

\* _claim_reconstruction_jobs_fair: the organizations with pending jobs, the one
\* waiting longest first.  No organization: run_once returns 0 and drain ends.
SelectOrganizations(w) ==
  LET heads == Oldest(Batch, Heads(w)) IN
  /\ pc[w] = "orgs"
  /\ orgs' = [orgs EXCEPT ![w] = heads]
  /\ share' = [share EXCEPT ![w] =
       IF heads = {} THEN 0 ELSE Max({1, Batch \div Cardinality(heads)})]
  /\ Goto(w, IF heads = {} THEN "commit" ELSE "jobs")
  /\ UNCHANGED <<tables, cand, work, locks, crashes, history>>

\* Where a claim leads: the next candidate, the next organization, the jobs that
\* were claimed or, when every candidate was lost to others, the end of drain.
AfterClaim(candidates, organizations, claimed) ==
  IF candidates # {} THEN "claim"
  ELSE IF organizations # {} THEN "jobs"
  ELSE IF claimed # <<>> THEN "read" ELSE "commit"

\* _claim_reconstruction_jobs_for_org: candidate_ids of the next organization.
SelectJobs(w) ==
  LET head == Min(orgs[w])
      candidates == Oldest(share[w], {j \in Pending(w) : OrgOfJob(j) = OrgOfJob(head)})
  IN
  /\ pc[w] = "jobs"
  /\ orgs' = [orgs EXCEPT ![w] = @ \ {head}]
  /\ cand' = [cand EXCEPT ![w] = candidates]
  /\ Goto(w, AfterClaim(candidates, orgs[w] \ {head}, batch[w]))
  /\ UNCHANGED <<tables, share, work, locks, crashes, history>>

\* The candidate whose turn it is.
FirstCandidate(w) == {j \in cand[w] : \A k \in cand[w] : j <= k}

\* Mutant: the UPDATE is by id alone, without "status = pending".
ClaimMutant(w) ==
  /\ pc[w] = "claim"
  /\ \E j \in FirstCandidate(w) :
       /\ Free(jobLock, j, w)
       /\ cand' = [cand EXCEPT ![w] = @ \ {j}]
       /\ jobLock' = [jobLock EXCEPT ![j] = w]
       /\ outcome' = [outcome EXCEPT ![w][j] = "claimed"]
       /\ batch' = [batch EXCEPT ![w] = Append(@, j)]
       /\ Goto(w, AfterClaim(cand[w] \ {j}, orgs[w], batch'[w]))
  /\ UNCHANGED <<tables, orgs, share, snap, found, written, incidentLock, crashes, history>>

\* Mutant: FOR UPDATE SKIP LOCKED, a job another run has claimed is passed over.
SkipLockedMutant(w) ==
  /\ pc[w] = "claim"
  /\ \E j \in FirstCandidate(w) :
       LET won == status[j] = "pending" /\ Free(jobLock, j, w)
           claimed == IF won THEN Append(batch[w], j) ELSE batch[w]
       IN
       /\ cand' = [cand EXCEPT ![w] = @ \ {j}]
       /\ jobLock' = [jobLock EXCEPT ![j] = IF won THEN w ELSE @]
       /\ outcome' = [outcome EXCEPT ![w][j] = IF won THEN "claimed" ELSE @]
       /\ batch' = [batch EXCEPT ![w] = claimed]
       /\ Goto(w, AfterClaim(cand[w] \ {j}, orgs[w], claimed))
  /\ UNCHANGED <<tables, orgs, share, snap, found, written, incidentLock, crashes, history>>

\* UPDATE ... SET status = 'claimed' WHERE id = j AND status = 'pending' waits for
\* a run that has claimed j, and then changes a row only if that run rolled back.
Claim(w) ==
  /\ pc[w] = "claim"
  /\ \E j \in FirstCandidate(w) :
       LET won == status[j] = "pending"
           claimed == IF won THEN Append(batch[w], j) ELSE batch[w]
       IN
       /\ Free(jobLock, j, w)
       /\ cand' = [cand EXCEPT ![w] = @ \ {j}]
       /\ jobLock' = [jobLock EXCEPT ![j] = IF won THEN w ELSE @]
       /\ outcome' = [outcome EXCEPT ![w][j] = IF won THEN "claimed" ELSE @]
       /\ batch' = [batch EXCEPT ![w] = claimed]
       /\ Goto(w, AfterClaim(cand[w] \ {j}, orgs[w], claimed))
  /\ UNCHANGED <<tables, orgs, share, snap, found, written, incidentLock, crashes, history>>

\* The n-th version of alert a overlaps the window of job j: a window before and after the
\* trigger, as it was when the job was enqueued.
InWindow(j, a, n) ==
  LET span == Spans[trigger[j]][required[j]] IN
  /\ Spans[a][n].last >= span.first - Window
  /\ Spans[a][n].first <= span.last + Window

\* related_alerts: of the alerts of its trace that are read, those the window of j reaches.
Related(j, at) ==
  {a \in Alerts : TraceOf[a] = TraceOfJob(j) /\ at[a] # 0 /\ InWindow(j, a, at[a])}

\* The alerts of the job's trace as they are committed now.
ReadAlerts(w) ==
  /\ pc[w] = "read"
  /\ snap' = [snap EXCEPT ![w] =
       [a \in Alerts |-> IF TraceOf[a] = TraceOfJob(Job(w)) THEN version[a] ELSE 0]]
  /\ Goto(w, "lookup")
  /\ UNCHANGED <<tables, claims, batch, outcome, found, written, locks, crashes, history>>

\* _kind: the one surface of the alerts, or several.
KindOf(S) ==
  LET surfaces == {SurfaceOf[a] : a \in S}
  IN IF Cardinality(surfaces) > 1 THEN "multi_surface" ELSE CHOOSE s \in surfaces : TRUE

\* The identity a job computes from the alerts it sees.
Identity(j, at) ==
  LET S == Related(j, at)
  IN [trace |-> TraceOfJob(j), kind |-> KindOf(S),
      bucket |-> Min({Spans[a][at[a]].first : a \in S}) \div Window]

IncidentFor(w) == Identity(Job(w), snap[w])

\* session.merge first looks for the incident's row.
LookupIncident(w) ==
  LET i == IncidentFor(w) IN
  /\ pc[w] = "lookup"
  /\ found' = [found EXCEPT ![w] = incident[i] # NoRow \/ written[w][i] # NoRow]
  /\ Goto(w, "flush")
  /\ UNCHANGED <<tables, claims, batch, outcome, snap, written, locks, crashes, history>>

\* complete_reconstruction_job, and on to the next job or the next batch.
Complete(w, result) ==
  /\ outcome' = [outcome EXCEPT ![w][Job(w)] = result]
  /\ batch' = [batch EXCEPT ![w] = Tail(@)]
  /\ Goto(w, IF Len(batch[w]) > 1 THEN "read" ELSE "orgs")

\* upsert_incidents_for_organization: the flush UPDATEs the row that was found or
\* INSERTs a new one, and waits for a run that has written it.
FlushIncident(w) ==
  LET i == IncidentFor(w) IN
  /\ pc[w] = "flush"
  /\ Free(incidentLock, i, w)
  /\ found[w] \/ incident[i] = NoRow
  /\ incidentLock' = [incidentLock EXCEPT ![i] = w]
  /\ written' = [written EXCEPT ![w][i] = [by |-> Job(w), at |-> snap[w]]]
  /\ builtIn' = [builtIn EXCEPT ![Job(w)] = i]
  /\ Complete(w, "done")
  /\ UNCHANGED <<tables, claims, snap, found, jobLock, crashes, required, completions>>

\* The row was inserted by another run since the lookup: the INSERT fails, the
\* session refuses the handler's statement too, and the whole run is lost.
FlushConflict(w) ==
  LET i == IncidentFor(w) IN
  /\ pc[w] = "flush"
  /\ Free(incidentLock, i, w)
  /\ ~found[w] /\ incident[i] # NoRow
  /\ Rollback(w)
  /\ UNCHANGED crashes

\* Mutant: the exception handler only logs, the job stays claimed.
JobErrorMutant(w) ==
  /\ pc[w] \in {"read", "lookup"}
  /\ Complete(w, "claimed")
  /\ UNCHANGED <<tables, claims, snap, found, written, locks, crashes, history>>

\* Decoding, reconstructing or sealing raises: the job is marked failed.
JobError(w) ==
  /\ pc[w] \in {"read", "lookup"}
  /\ Complete(w, "failed")
  /\ UNCHANGED <<tables, claims, snap, found, written, locks, crashes, history>>

\* job_session commits the run: every job it claimed, every row it wrote.
Commit(w) ==
  /\ pc[w] = "commit"
  /\ EndRun(w)
  /\ status' = [j \in Jobs |-> IF jobLock[j] = w THEN outcome[w][j] ELSE status[j]]
  /\ incident' = [i \in Incidents |->
       IF incidentLock[i] = w THEN written[w][i] ELSE incident[i]]
  /\ completions' = [j \in Jobs |-> completions[j] + IF jobLock[j] = w THEN 1 ELSE 0]
  /\ UNCHANGED <<version, trigger, crashes, required, builtIn>>

\* The process dies or the database refuses a statement.
Crash(w) ==
  /\ pc[w] # "idle" /\ crashes < MaxCrashes
  /\ crashes' = crashes + 1
  /\ Rollback(w)

\* The run a blocked run waits for.
Holder(w) ==
  IF pc[w] = "claim" /\ ~Free(jobLock, Min(cand[w]), w) THEN jobLock[Min(cand[w])]
  ELSE IF pc[w] = "flush" /\ ~Free(incidentLock, IncidentFor(w), w)
       THEN incidentLock[IncidentFor(w)] ELSE None

\* PostgreSQL's deadlock detector aborts a transaction on a cycle of waits.
DeadlockVictim(w) ==
  /\ \E cycle \in SUBSET Workers :
       w \in cycle /\ {Holder(u) : u \in cycle} = cycle
  /\ Rollback(w)
  /\ UNCHANGED crashes

Progress(w) ==
  \/ Start(w) \/ SelectOrganizations(w) \/ SelectJobs(w) \/ Claim(w)
  \/ ReadAlerts(w) \/ LookupIncident(w) \/ FlushIncident(w) \/ FlushConflict(w)
  \/ JobError(w) \/ Commit(w) \/ DeadlockVictim(w)

Next ==
  \/ \E a \in Alerts, j \in Jobs : Ingest(a, j)
  \/ \E w \in Workers : Progress(w) \/ Crash(w)

Spec == Init /\ [][Next]_vars

\* The orchestrator starts a new run after every run and lets it execute, and
\* PostgreSQL looks for cycles of waits and serves the waiters of a row in turn,
\* so a wait that ends again and again is not in vain; crashes and ingests may stop.
Fairness ==
  \A w \in Workers :
    WF_vars(Progress(w)) /\ SF_vars(Claim(w)) /\ SF_vars(FlushIncident(w) \/ FlushConflict(w))

FairSpec == Spec /\ Fairness

-----------------------------------------------------------------------------
(* Properties. *)

\* "Concurrent workers never double-process": the processing of a job is
\* committed by at most one run.
ProcessedOnce == \A j \in Jobs : completions[j] <= 1

\* Two runs at a time, say the deployed worker and one started by hand.
AtMostTwoRuns == \A u, v, w \in Workers : u = v \/ v = w \/ u = w

\* A job that is done stays visible in the incident it was written to: whatever jobs have
\* replaced the row since, their runs had read the alert as it was when the job was enqueued, or
\* later, so the row shows it if the window of its builder reaches it (RelatedAreTogether in
\* Incidents has one that does not).  With a third run this may fail: a run ends once all the
\* candidates it waited for were committed by another one, although a third run holds a job of
\* the same organization and an older reading.
DoneIsReflected ==
  AtMostTwoRuns =>
    \A j \in Jobs : status[j] = "done" =>
      LET row == incident[builtIn[j]] IN
      /\ row # NoRow
      /\ InWindow(row.by, trigger[j], required[j]) =>
           trigger[j] \in Related(row.by, row.at) /\ row.at[trigger[j]] >= required[j]

\* Every job is processed, or marked failed, in the end.
EveryJobSettles ==
  \A j \in Jobs : status[j] = "pending" ~> status[j] \in {"done", "failed"}
=============================================================================
