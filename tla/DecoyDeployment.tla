-------------------------- MODULE DecoyDeployment --------------------------
(***************************************************************************)
(* One decoy deployment: the HTTP handlers that approve, deploy, retire    *)
(* and roll it back (api/deployments.py), the workers that open pull       *)
(* requests and verify their merge (services/deployment), its rows         *)
(* (repositories/deployments.py) and the repository it is deployed to.     *)
(*                                                                         *)
(* Handlers and workers each run in a READ COMMITTED transaction.  Both    *)
(* load the deployment, decide on what they loaded and write the columns   *)
(* they changed later: neither a lock nor a version ties the write to the  *)
(* read.  What happens on GitHub is outside every transaction.             *)
(***************************************************************************)
EXTENDS Integers, Sequences, FiniteSets

CONSTANTS
  Handlers, Workers,
  Keys,         \* API keys of the organization
  Requester,    \* the key that created the deployment
  None,
  MaxRequests,  \* bound: requests that pass their check
  MaxPulls      \* bound: pull requests ever opened

ASSUME ActorAssumption ==
  /\ Handlers \cap Workers = {} /\ None \notin Handlers \cup Workers
  /\ Requester \in Keys /\ None \notin Keys /\ None \notin Nat
ASSUME BoundAssumption == MaxRequests \in Nat /\ MaxPulls \in Nat

Actors == Handlers \cup Workers

\* _TRANSITIONS, the closed state machine.
Transitions ==
  [draft |-> {"awaiting_approval", "cancelled"},
   awaiting_approval |-> {"approved", "rejected", "preview_stale", "cancelled"},
   preview_stale |-> {"reapproval_required"},
   reapproval_required |-> {"awaiting_approval", "cancelled"},
   approved |-> {"deploying", "preview_stale", "cancelled"},
   deploying |-> {"deployed", "deployed_unmonitored", "verification_failed",
                  "failed_activation", "failed", "cancelled"},
   deployed |-> {"retiring", "rollback_pending", "expired"},
   deployed_unmonitored |-> {"retiring", "rollback_pending", "expired"},
   verification_failed |-> {"rollback_pending", "retiring"},
   failed_activation |-> {"rollback_pending", "retiring"},
   failed |-> {"awaiting_approval", "cancelled"},
   retiring |-> {"retired", "failed"},
   rollback_pending |-> {"rolled_back", "failed"},
   expired |-> {"retiring"},
   rejected |-> {}, cancelled |-> {}, retired |-> {}, rolled_back |-> {}]

Statuses == DOMAIN Transitions
Terminal == {s \in Statuses : Transitions[s] = {}}

\* can_transition, assert_transition
CanTransition(from, to) == from \in Statuses /\ to \in Transitions[from]

\* The endpoints: the status each asks for, and the job it enqueues, if any.
Target == [submit |-> "awaiting_approval", approve |-> "approved", reject |-> "rejected",
           deploy |-> "deploying", retire |-> "retiring", rollback |-> "rollback_pending"]
JobOf == [deploy |-> "execute", retire |-> "retire", rollback |-> "rollback"]

JobTypes == {"execute", "verify", "retire", "rollback"}
Removals == {"retire", "rollback"}

VARIABLES
  status, pr, approver,   \* columns of the deployment; pr indexes pulls, 0 for NULL
  tripwires,     \* status of the deployment's rows in deployment_tripwires, or "none"
  jobs,          \* deployment_jobs: the row of each type, or "none"
  pulls,         \* GitHub: pull requests [kind, state, files at the merge commit]
  moved,         \* GitHub: the base branch is no longer at base_commit_sha
  pc, op,        \* per actor: next step; the endpoint or job it executes
  key,           \* per handler: the API key of its caller
  seen,          \* per worker: the columns [status, pr] it loaded
  out,           \* per worker: the columns it will write, "none" or 0 if unchanged
  rowLock, jobLock, tripwireLock,
  requests,      \* requests that passed their check
  orphans,       \* history: decoy pull requests no transaction has recorded
  closed         \* history: a terminal status was committed

db == <<status, pr, approver, tripwires, jobs>>
github == <<pulls, moved>>
locks == <<rowLock, jobLock, tripwireLock>>
vars == <<db, github, pc, op, key, seen, out, locks, requests, orphans, closed>>

Unread == [status |-> "none", pr |-> 0]
NoWrite == [status |-> "none", pr |-> 0, tripwires |-> "none"]

TripwireStatuses == {"none", "active", "retired", "disabled"}

\* One type invariant for rows, pull requests, transactions and locks.
TypeOK ==
  /\ status \in Statuses \cup {"none"}
  /\ pr \in 0..Len(pulls)
  /\ approver \in Keys \cup {None}
  /\ tripwires \in TripwireStatuses
  /\ jobs \in [JobTypes -> {"none", "pending", "done", "failed"}]
  /\ pulls \in Seq([kind : {"deploy", "removal"}, state : {"open", "merged", "closed"},
                    files : {"unknown", "approved", "other", "none"}])
  /\ moved \in BOOLEAN
  /\ pc \in [Actors -> {"idle", "write", "queue", "act", "activate", "remove", "flush"}]
  /\ op \in [Actors -> DOMAIN Target \cup JobTypes \cup {"none"}]
  /\ key \in [Handlers -> Keys \cup {None}]
  /\ seen \in [Workers -> [status : Statuses \cup {"none"}, pr : 0..Len(pulls)]]
  /\ out \in [Workers -> [status : Statuses \cup {"none"}, pr : 0..Len(pulls),
                          tripwires : TripwireStatuses]]
  /\ rowLock \in Handlers \cup {None}
  /\ jobLock \in [JobTypes -> Workers \cup {None}]
  /\ tripwireLock \in Workers \cup {None}
  /\ requests \in Nat /\ orphans \in Nat
  /\ closed \in BOOLEAN

Init ==
  /\ status = "none" /\ pr = 0 /\ approver = None
  /\ tripwires = "none"
  /\ jobs = [t \in JobTypes |-> "none"]
  /\ pulls = <<>> /\ moved = FALSE
  /\ pc = [x \in Actors |-> "idle"]
  /\ op = [x \in Actors |-> "none"]
  /\ key = [h \in Handlers |-> None]
  /\ seen = [w \in Workers |-> Unread]
  /\ out = [w \in Workers |-> NoWrite]
  /\ rowLock = None /\ tripwireLock = None
  /\ jobLock = [t \in JobTypes |-> None]
  /\ requests = 0 /\ orphans = 0 /\ closed = FALSE

-----------------------------------------------------------------------------
(* Transactions.  A statement after which a transaction waits for nothing is
   one step with its commit: until then it would only keep others waiting.   *)

Goto(x, step) == pc' = [pc EXCEPT ![x] = step]
Free(lock, x) == lock \in {None, x}
Unlocked(lock, x) == IF lock = x THEN None ELSE lock

EndTransaction(x) ==
  /\ Goto(x, "idle")
  /\ UNCHANGED requests
  /\ op' = [op EXCEPT ![x] = "none"]
  /\ key' = [h \in Handlers |-> IF h = x THEN None ELSE key[h]]
  /\ seen' = [w \in Workers |-> IF w = x THEN Unread ELSE seen[w]]
  /\ out' = [w \in Workers |-> IF w = x THEN NoWrite ELSE out[w]]
  /\ rowLock' = Unlocked(rowLock, x)
  /\ tripwireLock' = Unlocked(tripwireLock, x)
  /\ jobLock' = [t \in JobTypes |-> Unlocked(jobLock[t], x)]

\* What x did on GitHub stays.
Rollback(x) ==
  /\ EndTransaction(x)
  /\ orphans' = orphans + IF op[x] = "execute" /\ out[x].pr # 0 THEN 1 ELSE 0
  /\ UNCHANGED <<db, github, closed>>

\* The process dies or the database refuses a statement.
Crash(x) == pc[x] # "idle" /\ Rollback(x)

\* The transaction x waits for.
Holder(x) ==
  IF pc[x] \in {"write", "flush"} /\ ~Free(rowLock, x) THEN rowLock
  ELSE IF pc[x] = "queue" THEN jobLock[JobOf[op[x]]]
  ELSE IF pc[x] = "activate" /\ ~Free(tripwireLock, x) THEN tripwireLock
  ELSE None

\* PostgreSQL's deadlock detector aborts a transaction on a cycle of waits.
DeadlockVictim(x) ==
  /\ \E cycle \in SUBSET Actors : x \in cycle /\ {Holder(y) : y \in cycle} = cycle
  /\ Rollback(x)

-----------------------------------------------------------------------------
(* The HTTP handlers. *)

\* create_deployment: the row and its preview, in one transaction of its own.
Create ==
  /\ status = "none"
  /\ status' = "draft"
  /\ UNCHANGED <<pr, approver, tripwires, jobs, github, pc, op, key, seen, out, locks, requests, orphans, closed>>

\* Mutant: the requester may approve.
LoadMutant(h, o, k) ==
  /\ pc[h] = "idle" /\ requests < MaxRequests
  /\ requests' = requests + 1
  /\ CanTransition(status, Target[o])
  /\ op' = [op EXCEPT ![h] = o]
  /\ key' = [key EXCEPT ![h] = k]
  /\ Goto(h, "write")
  /\ UNCHANGED <<db, github, seen, out, locks, orphans, closed>>

\* An endpoint loads the deployment and checks the transition it is about to make
\* (409 otherwise); approve also wants another actor than the requester (403).
\* Elsewhere the actor makes no difference, and one stands for all.
Load(h, o, k) ==
  /\ pc[h] = "idle" /\ requests < MaxRequests
  /\ requests' = requests + 1
  /\ CanTransition(status, Target[o])
  /\ IF o = "approve" THEN k # Requester ELSE k = Requester
  /\ op' = [op EXCEPT ![h] = o]
  /\ key' = [key EXCEPT ![h] = k]
  /\ Goto(h, "write")
  /\ UNCHANGED <<db, github, seen, out, locks, orphans, closed>>

\* repo.transition, the rest of submit, approve and reject: UPDATE the status,
\* whatever it is by now, and commit.
Decide(h) ==
  /\ pc[h] = "write" /\ op[h] \notin DOMAIN JobOf /\ rowLock = None
  /\ EndTransaction(h)
  /\ status' = Target[op[h]]
  /\ approver' = IF op[h] = "approve" THEN key[h] ELSE approver
  /\ closed' = (closed \/ Target[op[h]] \in Terminal)
  /\ UNCHANGED <<pr, tripwires, jobs, github, orphans>>

\* The same UPDATE in _lifecycle_action, which still needs the job's row.
WriteStatus(h) ==
  /\ pc[h] = "write" /\ op[h] \in DOMAIN JobOf /\ rowLock = None
  /\ rowLock' = h
  /\ Goto(h, "queue")
  /\ UNCHANGED <<db, github, op, key, seen, out, jobLock, tripwireLock, requests, orphans, closed>>

\* clear_job and enqueue_job: a fresh job replaces any earlier one of its type,
\* once no worker holds it; then the commit.
Requeue(h) ==
  LET t == JobOf[op[h]] IN
  /\ pc[h] = "queue" /\ jobLock[t] = None
  /\ EndTransaction(h)
  /\ status' = Target[op[h]]
  /\ jobs' = [jobs EXCEPT ![t] = "pending"]
  /\ UNCHANGED <<pr, approver, tripwires, github, orphans, closed>>

-----------------------------------------------------------------------------
(* The worker: one job per run, the smallest batch. *)

\* claim_jobs: UPDATE ... WHERE id = job AND status = 'pending'; the service then
\* loads the deployment.
Claim(w, t) ==
  /\ pc[w] = "idle"
  /\ jobs[t] = "pending" /\ jobLock[t] = None
  /\ jobLock' = [jobLock EXCEPT ![t] = w]
  /\ op' = [op EXCEPT ![w] = t]
  /\ seen' = [seen EXCEPT ![w] = [status |-> status, pr |-> pr]]
  /\ Goto(w, "act")
  /\ UNCHANGED <<db, github, key, out, rowLock, tripwireLock, requests, orphans, closed>>

\* The service returns, or raises, without a write: complete_job, commit.
Finish(w, result) ==
  /\ EndTransaction(w)
  /\ jobs' = [jobs EXCEPT ![op[w]] = result]
  /\ UNCHANGED <<status, pr, approver, tripwires, github, orphans, closed>>

\* repo.transition on the record as it was loaded; the UPDATE is still to come.
SetStatus(w, s) ==
  /\ out' = [out EXCEPT ![w].status = s]
  /\ Goto(w, "flush")
  /\ UNCHANGED <<db, github, op, key, seen, locks, requests, orphans, closed>>

\* A branch, a commit and a pull request, recorded in the loaded row.
OpenPull(w, kind) ==
  /\ Len(pulls) < MaxPulls
  /\ pulls' = Append(pulls, [kind |-> kind, state |-> "open", files |-> "unknown"])
  /\ out' = [out EXCEPT ![w].pr = Len(pulls) + 1]
  /\ Goto(w, "flush")
  /\ UNCHANGED <<db, moved, op, key, seen, locks, requests, orphans, closed>>

\* Mutant: a pull request that exists already is not looked at.
ExecuteMutant(w) ==
  /\ pc[w] = "act" /\ op[w] = "execute"
  /\ \/ seen[w].status # "deploying" /\ Finish(w, "done")
     \/ seen[w].status = "deploying" /\ SetStatus(w, "failed")
     \/ seen[w].status = "deploying" /\ ~moved /\ OpenPull(w, "deploy")

\* execute: only a deploying record.  Safety, drift and the provider are checked
\* first and fail the deployment; an existing pull request is not opened again.
Execute(w) ==
  /\ pc[w] = "act" /\ op[w] = "execute"
  /\ \/ seen[w].status # "deploying" /\ Finish(w, "done")
     \/ seen[w].status = "deploying" /\ SetStatus(w, "failed")
     \/ seen[w].status = "deploying" /\ ~moved /\ seen[w].pr # 0 /\ Finish(w, "done")
     \/ seen[w].status = "deploying" /\ ~moved /\ seen[w].pr = 0 /\ OpenPull(w, "deploy")

\* get_pull_request of the number that was loaded.
PullState(w) == IF seen[w].pr = 0 THEN "none" ELSE pulls[seen[w].pr].state

\* verify, while there is nothing to conclude, or when the provider fails.
VerifyWait(w) ==
  /\ pc[w] = "act" /\ op[w] = "verify"
  /\ \/ PullState(w) \in {"none", "open"} /\ Finish(w, "done")
     \/ PullState(w) # "none" /\ Finish(w, "failed")

\* A pull request closed without a merge cancels the deployment, where the state
\* machine lets it; elsewhere the exception fails the job.
VerifyClosed(w) ==
  /\ pc[w] = "act" /\ op[w] = "verify" /\ PullState(w) = "closed"
  /\ IF CanTransition(seen[w].status, "cancelled")
       THEN SetStatus(w, "cancelled") ELSE Finish(w, "failed")

\* The merged files are the approved ones: on to the tripwires.
PassVerification(w) ==
  /\ Goto(w, "activate")
  /\ UNCHANGED <<db, github, op, key, seen, out, locks, requests, orphans, closed>>

\* Mutant: the merge is trusted and its files are not compared.
VerifyMergedMutant(w) ==
  LET is(s) == seen[w].status = s IN
  /\ pc[w] = "act" /\ op[w] = "verify" /\ PullState(w) = "merged"
  /\ \/ is("deploying") /\ PassVerification(w)
     \/ is("retiring") /\ SetStatus(w, "retired")
     \/ is("rollback_pending") /\ SetStatus(w, "rolled_back")

\* A merged one is checked for what its status waits for: the approved files, or
\* none of the deployment's files.
VerifyMerged(w) ==
  LET files == pulls[seen[w].pr].files
      is(s) == seen[w].status = s
  IN
  /\ pc[w] = "act" /\ op[w] = "verify" /\ PullState(w) = "merged"
  /\ \/ is("deploying") /\ files = "approved" /\ PassVerification(w)
     \/ is("deploying") /\ files # "approved" /\ SetStatus(w, "verification_failed")
     \/ is("retiring") /\ files = "none" /\ SetStatus(w, "retired")
     \/ is("rollback_pending") /\ files = "none" /\ SetStatus(w, "rolled_back")
     \/ (is("retiring") \/ is("rollback_pending")) /\ files # "none" /\ Finish(w, "done")
     \/ seen[w].status \notin {"deploying", "retiring", "rollback_pending"} /\ Finish(w, "done")

\* activate_tripwires inserts the rows that are not there yet; active_tripwires
\* then counts, and a row that was switched off is not switched on again.
Activate(w) ==
  /\ pc[w] = "activate"
  /\ tripwires = "none" => Free(tripwireLock, w)
  /\ tripwireLock' = IF tripwires = "none" THEN w ELSE tripwireLock
  /\ out' = [out EXCEPT ![w].tripwires = IF tripwires = "none" THEN "active" ELSE @,
                        ![w].status = IF tripwires \in {"none", "active"}
                                        THEN "deployed" ELSE "deployed_unmonitored"]
  /\ Goto(w, "flush")
  /\ UNCHANGED <<db, github, op, key, seen, rowLock, jobLock, requests, orphans, closed>>

Expected == [retire |-> "retiring", rollback |-> "rollback_pending"]

SwitchedOff == [retire |-> "retired", rollback |-> "disabled"]

\* Mutant: the tripwires are left alone until the removal is verified.
DisableMutant(w) ==
  /\ pc[w] = "act" /\ op[w] \in Removals
  /\ \/ seen[w].status # Expected[op[w]] /\ Finish(w, "done")
     \/ /\ seen[w].status = Expected[op[w]]
        /\ Goto(w, "remove")
        /\ UNCHANGED <<db, github, op, key, seen, out, locks, requests, orphans, closed>>

\* _open_removal: first the rows of the tripwires, if there are any ...
Disable(w) ==
  /\ pc[w] = "act" /\ op[w] \in Removals
  /\ \/ seen[w].status # Expected[op[w]] /\ Finish(w, "done")
     \/ /\ seen[w].status = Expected[op[w]]
        /\ tripwires # "none" => Free(tripwireLock, w)
        /\ tripwireLock' = IF tripwires # "none" THEN w ELSE tripwireLock
        /\ out' = [out EXCEPT ![w].tripwires =
             IF tripwires # "none" THEN SwitchedOff[op[w]] ELSE @]
        /\ Goto(w, "remove")
        /\ UNCHANGED <<db, github, op, key, seen, rowLock, jobLock, requests, orphans, closed>>

\* ... then the removal's pull request; a provider error fails the deployment.
Remove(w) ==
  /\ pc[w] = "remove"
  /\ OpenPull(w, "removal") \/ SetStatus(w, "failed")

\* The flush of the deployment's row, complete_job and the commit: the columns
\* that were changed, over whatever the others hold by now.
Flush(w) ==
  /\ pc[w] = "flush" /\ rowLock = None
  /\ EndTransaction(w)
  /\ status' = IF out[w].status # "none" THEN out[w].status ELSE status
  /\ pr' = IF out[w].pr # 0 THEN out[w].pr ELSE pr
  /\ tripwires' = IF out[w].tripwires # "none" THEN out[w].tripwires ELSE tripwires
  /\ jobs' = [jobs EXCEPT ![op[w]] = "done"]
  /\ closed' = (closed \/ out[w].status \in Terminal)
  /\ UNCHANGED <<approver, github, orphans>>

-----------------------------------------------------------------------------
(* The world outside. *)

\* A poller or webhook, which is not part of the code yet, asks for a verify.
EnqueueVerify ==
  /\ status # "none" /\ jobs["verify"] # "pending" /\ jobLock["verify"] = None
  /\ jobs' = [jobs EXCEPT !["verify"] = "pending"]
  /\ UNCHANGED <<status, pr, approver, tripwires, github, pc, op, key, seen, out, locks, requests, orphans, closed>>

\* A maintainer merges a pull request, as it is or after editing it ...
MergePull(n) ==
  /\ n \in DOMAIN pulls /\ pulls[n].state = "open"
  /\ \E files \in {IF pulls[n].kind = "deploy" THEN "approved" ELSE "none", "other"} :
       pulls' = [pulls EXCEPT ![n].state = "merged", ![n].files = files]
  /\ moved' = TRUE
  /\ UNCHANGED <<db, pc, op, key, seen, out, locks, requests, orphans, closed>>

\* ... or closes it.
ClosePull(n) ==
  /\ n \in DOMAIN pulls /\ pulls[n].state = "open"
  /\ pulls' = [pulls EXCEPT ![n].state = "closed"]
  /\ UNCHANGED <<db, moved, pc, op, key, seen, out, locks, requests, orphans, closed>>

\* Somebody else pushes to the base branch.
PushBase ==
  /\ ~moved
  /\ moved' = TRUE
  /\ UNCHANGED <<db, pulls, pc, op, key, seen, out, locks, requests, orphans, closed>>

Next ==
  \/ Create
  \/ \E h \in Handlers :
       \/ \E o \in DOMAIN Target, k \in Keys : Load(h, o, k)
       \/ Decide(h) \/ WriteStatus(h) \/ Requeue(h)
  \/ \E w \in Workers :
       \/ \E t \in JobTypes : Claim(w, t)
       \/ Execute(w)
       \/ VerifyWait(w) \/ VerifyClosed(w) \/ VerifyMerged(w) \/ Activate(w)
       \/ Disable(w) \/ Remove(w) \/ Flush(w)
  \/ \E x \in Actors : Crash(x) \/ DeadlockVictim(x)
  \/ EnqueueVerify \/ PushBase
  \/ \E n \in 1..MaxPulls : MergePull(n) \/ ClosePull(n)

Spec == Init /\ [][Next]_vars

-----------------------------------------------------------------------------
(* Properties. *)

\* The deployment's pull requests that add the decoys.
DeployPulls == {n \in DOMAIN pulls : pulls[n].kind = "deploy"}

\* "Tripwires activate only after a human merges and verification passes": active
\* tripwires stand for approved files that were merged.
MonitoringVerified ==
  tripwires = "active" =>
    \E n \in DeployPulls : pulls[n].state = "merged" /\ pulls[n].files = "approved"

\* "No active registry after retire": a deployment that is retired or rolled back
\* has no active tripwires, however its handlers and workers overlapped.
RetiredIsSilent ==
  status \in {"retired", "rolled_back"} => tripwires # "active"

\* Nothing is written to the repository that somebody other than the requester
\* has not approved.
PullIsApproved == DeployPulls # {} => approver \in Keys \ {Requester}

\* "A duplicate deploy request never creates a second PR": it takes a transaction
\* that is rolled back after it opened a pull request to open another one.
OnePullRequest == Cardinality(DeployPulls) <= 1 + orphans

\* "A transition not listed here is rejected": a rejected, cancelled, retired or
\* rolled back deployment stays so.
TerminalIsFinal == closed => status \in Terminal
=============================================================================
