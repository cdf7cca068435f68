------------------------- MODULE IncidentLifecycle -------------------------
(***************************************************************************)
(* `python -m app.jobs.incident_lifecycle` beside the reconstruction of    *)
(* the same incident (jobs/incident_lifecycle.py, jobs/_runtime.py,        *)
(* repositories/artifacts.py).                                             *)
(*                                                                         *)
(* One incident row; its alerts all fall into one correlation window, so   *)
(* what matters of time is how long ago that was: less than                *)
(* incident_stale_after_seconds (age 0), more (1), or more than            *)
(* incident_archive_after_seconds (2).  After an outage of the workers     *)
(* jobs of an old window are still pending when the lifecycle job runs.    *)
(* The row has the columns status and data, and data repeats the           *)
(* lifecycle; a merge writes only the columns that differ from what it     *)
(* loaded (data is sealed afresh and always differs).                      *)
(***************************************************************************)
EXTENDS Integers

CONSTANTS
  Alerts,      \* alerts of the incident's correlation window
  Runs,        \* runs of the lifecycle job that may overlap
  None

VARIABLES
  alerts,      \* committed alerts
  jobs,        \* alerts with a pending reconstruction job
  age,         \* 0: recent, 1: past the stale cutoff, 2: past the archive cutoff
  incident,    \* the committed row, [exists, alerts, lifecycle, status]
  advisory,    \* the run holding the advisory lock _LOCK_KEY, or None
  rowLock,     \* who has written the row and not committed, or None
  pc,          \* per actor: its next step
  copy,        \* per actor: the incident it will write
  loaded,      \* per actor: the status its merge loaded, "none" without a row
  write        \* per actor: its uncommitted row

vars == <<alerts, jobs, age, incident, advisory, rowLock, pc, copy, loaded, write>>

Worker == "worker"
Actors == Runs \cup {Worker}

NoRow == [exists |-> FALSE, alerts |-> {}, lifecycle |-> "none", status |-> "none"]

Init ==
  /\ alerts = {} /\ jobs = {} /\ age = 0
  /\ incident = NoRow
  /\ advisory = None /\ rowLock = None
  /\ pc = [x \in Actors |-> "idle"]
  /\ copy = [x \in Actors |-> NoRow]
  /\ loaded = [x \in Actors |-> "none"]
  /\ write = [x \in Actors |-> NoRow]

Goto(x, step) == pc' = [pc EXCEPT ![x] = step]
RowFree(x) == rowLock \in {None, x}

\* The row as a statement of x sees it: its own writes, else what is committed.
Visible(x) == IF rowLock = x THEN write[x] ELSE incident

\* The columns a merge of x writes over the row that is there.
Merged(x, row) ==
  [exists |-> TRUE, alerts |-> copy[x].alerts, lifecycle |-> copy[x].lifecycle,
   status |-> IF copy[x].status = loaded[x] THEN row.status ELSE copy[x].status]

\* A transaction of x ends: its row appears, or its writes vanish.
End(x, row) ==
  /\ incident' = row
  /\ rowLock' = IF rowLock = x THEN None ELSE rowLock
  /\ copy' = [copy EXCEPT ![x] = NoRow]
  /\ loaded' = [loaded EXCEPT ![x] = "none"]
  /\ write' = [write EXCEPT ![x] = NoRow]
  /\ Goto(x, "idle")

-----------------------------------------------------------------------------
(* Ingest and time. *)

\* A detection of the window: its alert and its job are committed.
Ingest(a) ==
  /\ age = 0 /\ a \notin alerts
  /\ alerts' = alerts \cup {a}
  /\ jobs' = jobs \cup {a}
  /\ UNCHANGED <<age, incident, advisory, rowLock, pc, copy, loaded, write>>

\* The correlation window is over and a cutoff passes.
Age ==
  /\ age < 2 /\ alerts # {}
  /\ age' = age + 1
  /\ UNCHANGED <<alerts, jobs, incident, advisory, rowLock, pc, copy, loaded, write>>

-----------------------------------------------------------------------------
(* The reconstruction worker, as far as this row is concerned. *)

\* related_alerts and reconstruct: an OPEN incident of the alerts seen now.
Reconstruct ==
  /\ pc[Worker] = "idle" /\ jobs # {}
  /\ copy' = [copy EXCEPT ![Worker] =
       [exists |-> TRUE, alerts |-> alerts, lifecycle |-> "open", status |-> "open"]]
  /\ Goto(Worker, "lookup")
  /\ UNCHANGED <<alerts, jobs, age, incident, advisory, rowLock, loaded, write>>

\* session.merge loads the row, if there is one.
Lookup(x, next) ==
  /\ loaded' = [loaded EXCEPT ![x] = Visible(x).status]
  /\ Goto(x, next)
  /\ UNCHANGED <<alerts, jobs, age, incident, advisory, rowLock, copy, write>>

\* The flush: the row must still be as the merge found it, present or absent.
Flush(x, next) ==
  /\ RowFree(x)
  /\ incident.exists = (loaded[x] # "none")
  /\ rowLock' = x
  /\ write' = [write EXCEPT ![x] = Merged(x, incident)]
  /\ Goto(x, next)
  /\ UNCHANGED <<alerts, jobs, age, incident, advisory, copy, loaded>>

WorkerLookup == pc[Worker] = "lookup" /\ Lookup(Worker, "flush")
WorkerFlush == pc[Worker] = "flush" /\ Flush(Worker, "commit")

\* The row was deleted since: the UPDATE matches none and the run is rolled back.
WorkerConflict ==
  /\ pc[Worker] = "flush" /\ RowFree(Worker)
  /\ incident.exists # (loaded[Worker] # "none")
  /\ End(Worker, incident)
  /\ UNCHANGED <<alerts, jobs, age, advisory>>

WorkerCommit ==
  /\ pc[Worker] = "commit"
  /\ jobs' = jobs \ copy[Worker].alerts
  /\ End(Worker, write[Worker])
  /\ UNCHANGED <<alerts, age, advisory>>

-----------------------------------------------------------------------------
(* The lifecycle job. *)

\* pg_try_advisory_lock, or log "skipped_locked" and return.
Begin(r) ==
  /\ pc[r] = "idle" /\ advisory = None
  /\ advisory' = r
  /\ Goto(r, "read")
  /\ UNCHANGED <<alerts, jobs, age, incident, rowLock, copy, loaded, write>>

\* retire_stale_incidents: every incident is read; one that is not stale yet and
\* older than the cutoff is copied and re-tagged.
ReadIncidents(r) ==
  /\ pc[r] = "read"
  /\ IF incident.exists /\ incident.lifecycle # "stale" /\ age >= 1
       THEN /\ copy' = [copy EXCEPT ![r] = [incident EXCEPT !.lifecycle = "stale", !.status = "stale"]]
            /\ Goto(r, "lookup")
       ELSE Goto(r, "select") /\ UNCHANGED copy
  /\ UNCHANGED <<alerts, jobs, age, incident, advisory, rowLock, loaded, write>>

RetireLookup(r) == pc[r] = "lookup" /\ Lookup(r, "flush")
RetireFlush(r) == pc[r] = "flush" /\ Flush(r, "select")

\* The row went away under the merge: the job fails, its lock is given back.
RetireConflict(r) ==
  /\ pc[r] = "flush" /\ RowFree(r)
  /\ incident.exists # (loaded[r] # "none")
  /\ End(r, incident)
  /\ advisory' = IF advisory = r THEN None ELSE advisory
  /\ UNCHANGED <<alerts, jobs, age>>

\* archive_incidents: SELECT the ids of stale incidents past the cutoff ...
ArchiveSelect(r) ==
  /\ pc[r] = "select"
  /\ Goto(r, IF Visible(r).status = "stale" /\ age = 2 THEN "delete" ELSE "unlock")
  /\ UNCHANGED <<alerts, jobs, age, incident, advisory, rowLock, copy, loaded, write>>

\* ... and DELETE by id, whatever the row says by now.
ArchiveDelete(r) ==
  /\ pc[r] = "delete" /\ RowFree(r)
  /\ rowLock' = r
  /\ write' = [write EXCEPT ![r] = NoRow]
  /\ Goto(r, "unlock")
  /\ UNCHANGED <<alerts, jobs, age, incident, advisory, copy, loaded>>

\* The advisory lock is left before job_session commits.
Unlock(r) ==
  /\ pc[r] = "unlock"
  /\ advisory' = None
  /\ Goto(r, "commit")
  /\ UNCHANGED <<alerts, jobs, age, incident, rowLock, copy, loaded, write>>

LifecycleCommit(r) ==
  /\ pc[r] = "commit"
  /\ End(r, IF rowLock = r THEN write[r] ELSE incident)
  /\ UNCHANGED <<alerts, jobs, age, advisory>>

Next ==
  \/ \E a \in Alerts : Ingest(a)
  \/ Age
  \/ Reconstruct \/ WorkerLookup \/ WorkerFlush \/ WorkerConflict \/ WorkerCommit
  \/ \E r \in Runs :
       \/ Begin(r) \/ ReadIncidents(r) \/ RetireLookup(r) \/ RetireFlush(r) \/ RetireConflict(r)
       \/ ArchiveSelect(r) \/ ArchiveDelete(r) \/ Unlock(r) \/ LifecycleCommit(r)

Spec == Init /\ [][Next]_vars

-----------------------------------------------------------------------------
(* Property. *)

\* "Non-destructive: incidents are re-tagged": as long as the row exists, an alert
\* whose job was processed stays in the incident.
RetireIsNonDestructive ==
  incident.exists => alerts \ jobs \subseteq incident.alerts
=============================================================================
