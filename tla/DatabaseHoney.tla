--------------------------- MODULE DatabaseHoney ---------------------------
(***************************************************************************)
(* A database honey record: the connector it is planted through and the    *)
(* deployment's endpoints (api/database_honey.py), the worker that inserts *)
(* and removes the row (services/database), its own rows (repositories/    *)
(* database_honey.py) and the table of the customer's database.            *)
(*                                                                         *)
(* As for decoy files, handlers and workers decide on the status they have *)
(* loaded.  The customer's database commits on its own: when the worker's  *)
(* transaction is lost, the row it inserted or deleted stays so.           *)
(***************************************************************************)
EXTENDS Integers, FiniteSets

CONSTANTS
  Handlers, Workers,
  Keys,         \* API keys of the organization
  Requester,    \* the key that created the deployment
  Tables,       \* TableInfo of the tables the schema snapshot can hold
  None,
  MaxRequests,  \* bound: requests that pass their check
  MaxInserts    \* bound: rows ever inserted

ASSUME ActorAssumption ==
  /\ Handlers \cap Workers = {} /\ None \notin Handlers \cup Workers
  /\ Requester \in Keys /\ None \notin Keys /\ None \notin Tables
ASSUME BoundAssumption == MaxRequests \in Nat /\ MaxInserts \in Nat

Actors == Handlers \cup Workers

-----------------------------------------------------------------------------
(* Tables.  A column is a record of its name, type, sensitivity and flags. *)

Blocking == {"secret", "credential", "regulated_identifier", "payment", "health", "authentication"}

IsPrimary(t, c) == c.name \in t.primaryKey

\* _pk_insertable: every key column is a UUID or supplied by the database.
PkInsertable(t) ==
  \A n \in t.primaryKey :
    \E c \in t.columns : c.name = n /\ (c.type = "uuid" \/ c.default \/ c.generated)

\* evaluate_table: the default is to reject.
Deployable(t) ==
  /\ t.allowedSchema /\ ~t.blockedName /\ ~t.triggers
  /\ \A c \in t.columns : c.sensitivity \notin Blocking
  /\ \A c \in t.columns : ~(c.foreign /\ ~c.nullable /\ ~c.default)
  /\ PkInsertable(t)

RequiredFields(t) ==
  {c \in t.columns : ~(c.nullable \/ c.default \/ c.generated \/ c.foreign \/ IsPrimary(t, c))}

\* The key columns generate_row fills in itself.
SuppliedKey(t) ==
  {c \in t.columns : IsPrimary(t, c) /\ c.type = "uuid" /\ ~c.default /\ ~c.generated}

\* _trace_carrier, by the kind of column; which one of a kind does not matter here.
Carriers(columns) ==
  LET kind(s) == {c \in columns : c.sensitivity = s} IN
  IF kind("synthetic_email") # {} THEN kind("synthetic_email")
  ELSE IF kind("reference_number") # {} THEN kind("reference_number")
  ELSE kind("free_text")

\* generate_row: the columns of the row.  A carrier of the trace is looked for among
\* the columns that have a value already, and in the whole table only without any.
RowColumns(t) ==
  LET filled == SuppliedKey(t) \cup RequiredFields(t)
      carriers == Carriers(t.columns)
  IN IF filled = {} /\ carriers # {} THEN {CHOOSE c \in carriers : TRUE} ELSE filled

\* Types whose values psycopg returns as something else than the text or number that
\* was written: a UUID, a datetime, an amount with its currency.
ReadBackTypes == {"uuid", "timestamp", "money"}

\* delete_owned_row finds the stored values equal to those kept with the record,
\* which have been through JSON.
Comparable(t) == \A c \in RowColumns(t) : c.type \notin ReadBackTypes

-----------------------------------------------------------------------------
(* Deployments. *)

\* _TRANSITIONS, the closed state machine.
Transitions ==
  [draft |-> {"awaiting_approval", "cancelled"},
   awaiting_approval |-> {"approved", "rejected", "cancelled"},
   approved |-> {"deploying", "cancelled"},
   deploying |-> {"deployed", "deployed_unmonitored", "verification_failed",
                  "failed_activation", "failed"},
   deployed |-> {"retiring", "rollback_pending", "drift_detected", "expired"},
   deployed_unmonitored |-> {"retiring", "rollback_pending", "expired"},
   verification_failed |-> {"rollback_pending"},
   failed_activation |-> {"rollback_pending", "retiring"},
   failed |-> {"awaiting_approval", "cancelled"},
   drift_detected |-> {"retiring", "rollback_pending"},
   retiring |-> {"retired", "drift_detected", "failed"},
   rollback_pending |-> {"rolled_back", "drift_detected", "failed"},
   expired |-> {"retiring"},
   rejected |-> {}, cancelled |-> {}, retired |-> {}, rolled_back |-> {}]

Statuses == DOMAIN Transitions

\* can_transition, assert_transition
CanTransition(from, to) == from \in Statuses /\ to \in Transitions[from]

\* The endpoints: the status each asks for, and the job it enqueues, if any.  The
\* rotate endpoint is the same as retire.
Target == [submit |-> "awaiting_approval", approve |-> "approved", reject |-> "rejected",
           deploy |-> "deploying", retire |-> "retiring", rollback |-> "rollback_pending"]
JobOf == [deploy |-> "execute", retire |-> "retire", rollback |-> "rollback"]

\* The status in which the service acts on a job, and the one a removal leads to.
Expected == [execute |-> "deploying", retire |-> "retiring", rollback |-> "rollback_pending"]
Removed == [retire |-> "retired", rollback |-> "rolled_back"]

JobTypes == DOMAIN Expected
Removals == DOMAIN Removed

VARIABLES
  connector,     \* database_connectors.status, "none" without a row
  synced,        \* a schema snapshot of the connector has been stored
  table,         \* the table the deployment targets
  status, approver,   \* columns of the deployment
  record,        \* database_honey_records: status and target_primary_key
  jobs,          \* database_honey_jobs: the row of each type, or "none"
  rows,          \* the customer's table: honey rows [key, intact]
  pc, op,        \* per actor: next step; the endpoint or job it executes
  key,           \* per handler: the API key of its caller
  seen,          \* per worker: the status it loaded
  out,           \* per worker: [status, record] to be written, [inserted] the row it owns
  rowLock, jobLock, recordLock,
  requests, inserts,  \* counters of what is bounded
  lost           \* history: inserted rows that no transaction has recorded

deployment == <<table, status, approver>>
db == <<connector, synced, deployment, record, jobs>>
locks == <<rowLock, jobLock, recordLock>>
tx == <<pc, op, key, seen, out, locks>>
counters == <<requests, inserts, lost>>
vars == <<db, rows, tx, counters>>

NoRecord == [status |-> "none", key |-> 0]
NoWrite == [status |-> "none", record |-> "none", inserted |-> 0]

\* Rows, transactions and locks; a job is never committed as merely claimed.
TypeOK ==
  /\ connector \in {"none", "pending", "active", "failed", "revoked"}
  /\ synced \in BOOLEAN
  /\ table \in Tables \cup {None}
  /\ status \in Statuses \cup {"none"}
  /\ approver \in Keys \cup {None}
  /\ record \in [status : {"none", "inserted", "retired"}, key : 0..MaxInserts]
  /\ jobs \in [JobTypes -> {"none", "pending", "done", "failed"}]
  /\ rows \subseteq [key : 1..MaxInserts, intact : BOOLEAN]
  /\ \A r, s \in rows : r.key = s.key => r = s
  /\ pc \in [Actors -> {"idle", "write", "queue", "act", "activate", "mark", "flush"}]
  /\ op \in [Actors -> DOMAIN Target \cup JobTypes \cup {"none"}]
  /\ key \in [Handlers -> Keys \cup {None}]
  /\ seen \in [Workers -> Statuses \cup {"none"}]
  /\ out \in [Workers -> [status : Statuses \cup {"none"}, inserted : 0..MaxInserts,
                          record : {"none", "inserted", "retired"}]]
  /\ rowLock \in Handlers \cup {None}
  /\ jobLock \in [JobTypes -> Workers \cup {None}]
  /\ recordLock \in Workers \cup {None}
  /\ {requests, inserts, lost} \subseteq Nat

Init ==
  /\ connector = "none" /\ synced = FALSE
  /\ table = None /\ status = "none" /\ approver = None
  /\ record = NoRecord
  /\ jobs = [t \in JobTypes |-> "none"]
  /\ rows = {}
  /\ pc = [x \in Actors |-> "idle"]
  /\ op = [x \in Actors |-> "none"]
  /\ key = [h \in Handlers |-> None]
  /\ seen = [w \in Workers |-> "none"]
  /\ out = [w \in Workers |-> NoWrite]
  /\ rowLock = None /\ recordLock = None
  /\ jobLock = [t \in JobTypes |-> None]
  /\ requests = 0 /\ inserts = 0 /\ lost = 0

-----------------------------------------------------------------------------
(* Transactions.  A statement after which a transaction waits for nothing is
   one step with its commit.                                                *)

Goto(x, step) == pc' = [pc EXCEPT ![x] = step]
Free(lock, x) == lock \in {None, x}
Unlocked(lock, x) == IF lock = x THEN None ELSE lock

EndTransaction(x) ==
  /\ Goto(x, "idle")
  /\ op' = [op EXCEPT ![x] = "none"]
  /\ key' = [h \in Handlers |-> IF h = x THEN None ELSE key[h]]
  /\ seen' = [w \in Workers |-> IF w = x THEN "none" ELSE seen[w]]
  /\ out' = [w \in Workers |-> IF w = x THEN NoWrite ELSE out[w]]
  /\ rowLock' = Unlocked(rowLock, x)
  /\ recordLock' = Unlocked(recordLock, x)
  /\ jobLock' = [t \in JobTypes |-> Unlocked(jobLock[t], x)]

\* What x did to the customer's table stays.
Rollback(x) ==
  /\ EndTransaction(x)
  /\ lost' = lost + IF x \in Workers /\ out[x].inserted # 0 THEN 1 ELSE 0
  /\ UNCHANGED <<db, rows, requests, inserts>>

\* The process dies or the database refuses a statement.
Crash(x) == pc[x] # "idle" /\ Rollback(x)

\* The transaction x waits for.
Holder(x) ==
  IF pc[x] \in {"write", "flush"} /\ ~Free(rowLock, x) THEN rowLock
  ELSE IF pc[x] = "queue" THEN jobLock[JobOf[op[x]]]
  ELSE IF pc[x] = "mark" /\ ~Free(recordLock, x) THEN recordLock
  ELSE None

\* PostgreSQL aborts a transaction on a cycle of waits.  For a worker the exception
\* reaches complete_job, which the aborted session refuses.
DeadlockVictim(x) ==
  /\ \E cycle \in SUBSET Actors : x \in cycle /\ {Holder(y) : y \in cycle} = cycle
  /\ Rollback(x)

-----------------------------------------------------------------------------
(* Connectors.  Each endpoint is one step: it writes one column of one row.  *)

ConnectorStep(s) ==
  /\ connector' = s
  /\ UNCHANGED <<deployment, record, jobs, rows, tx, counters>>

\* create_connector
CreateConnector == connector = "none" /\ ConnectorStep("pending") /\ UNCHANGED synced

\* test_connector: whatever the status was, a revoked connector's too.
TestConnector ==
  /\ connector # "none"
  /\ \E s \in {"active", "failed"} : ConnectorStep(s)
  /\ UNCHANGED synced

\* sync_schema, when the schema can be read.
SyncSchema == connector # "none" /\ ConnectorStep("active") /\ synced' = TRUE

\* delete_connector: no deployment is looked at, and none looks at the status.
DeleteConnector == connector # "none" /\ ConnectorStep("revoked") /\ UNCHANGED synced

-----------------------------------------------------------------------------
(* The deployment's endpoints. *)

\* create_deployment: a table of the latest snapshot that is eligible, and its preview.
Create(t) ==
  /\ status = "none" /\ synced
  /\ Deployable(t)
  /\ table' = t
  /\ status' = "draft"
  /\ UNCHANGED <<connector, synced, approver, record, jobs, rows, tx, counters>>

\* An endpoint loads the deployment and checks the transition it is about to make
\* (409 otherwise); approve also wants another actor than the requester (403).
\* Elsewhere the actor makes no difference, and one stands for all.
Load(h, o, k) ==
  /\ pc[h] = "idle" /\ requests < MaxRequests
  /\ requests' = requests + 1
  /\ CanTransition(status, Target[o])
  /\ IF o = "approve" THEN k # Requester ELSE k = Requester
  /\ op' = [op EXCEPT ![h] = o]
  /\ key' = [key EXCEPT ![h] = k]
  /\ Goto(h, "write")
  /\ UNCHANGED <<db, rows, seen, out, locks, inserts, lost>>

\* The rest of submit, approve and reject: UPDATE the status, whatever it is by now.
Decide(h) ==
  /\ pc[h] = "write" /\ op[h] \notin DOMAIN JobOf /\ rowLock = None
  /\ EndTransaction(h)
  /\ status' = Target[op[h]]
  /\ approver' = IF op[h] = "approve" THEN key[h] ELSE approver
  /\ UNCHANGED <<connector, synced, table, record, jobs, rows, counters>>

\* The same UPDATE in _lifecycle, which still needs the job's row.
WriteStatus(h) ==
  /\ pc[h] = "write" /\ op[h] \in DOMAIN JobOf /\ rowLock = None
  /\ rowLock' = h
  /\ Goto(h, "queue")
  /\ UNCHANGED <<db, rows, op, key, seen, out, jobLock, recordLock, counters>>

\* Mutant: enqueue_job alone, which ignores the conflict with a finished job.
RequeueMutant(h) ==
  LET t == JobOf[op[h]] IN
  /\ pc[h] = "queue" /\ jobLock[t] = None
  /\ EndTransaction(h)
  /\ status' = Target[op[h]]
  /\ jobs' = [jobs EXCEPT ![t] = IF @ = "none" THEN "pending" ELSE @]
  /\ UNCHANGED <<connector, synced, table, approver, record, rows, counters>>

\* clear_job and enqueue_job: a fresh job replaces any earlier one of its type,
\* once no worker holds it; then the commit.
Requeue(h) ==
  LET t == JobOf[op[h]] IN
  /\ pc[h] = "queue" /\ jobLock[t] = None
  /\ EndTransaction(h)
  /\ status' = Target[op[h]]
  /\ jobs' = [jobs EXCEPT ![t] = "pending"]
  /\ UNCHANGED <<connector, synced, table, approver, record, rows, counters>>

-----------------------------------------------------------------------------
(* The worker: one job per run, the smallest batch. *)

\* claim_jobs: UPDATE ... WHERE id = job AND status = 'pending'; the service then
\* loads the deployment.
Claim(w, t) ==
  /\ pc[w] = "idle"
  /\ jobs[t] = "pending" /\ jobLock[t] = None
  /\ jobLock' = [jobLock EXCEPT ![t] = w]
  /\ op' = [op EXCEPT ![w] = t]
  /\ seen' = [seen EXCEPT ![w] = status]
  /\ Goto(w, "act")
  /\ UNCHANGED <<db, rows, key, out, rowLock, recordLock, counters>>

\* The service returns, or raises, without a write: complete_job, commit.
Finish(w, result) ==
  /\ EndTransaction(w)
  /\ jobs' = [jobs EXCEPT ![op[w]] = result]
  /\ UNCHANGED <<connector, synced, deployment, record, rows, counters>>

\* The status is not the one the job is for (another request came first), or anything
\* but a ConnectorError is raised: a secret that cannot be decrypted, a SET that fails.
NothingToDo(w) ==
  /\ pc[w] = "act"
  /\ \/ seen[w] # Expected[op[w]] /\ Finish(w, "done")
     \/ seen[w] = Expected[op[w]] /\ Finish(w, "failed")

Acts(w, kinds) == pc[w] = "act" /\ op[w] \in kinds /\ seen[w] = Expected[op[w]]

\* _fail and the other transitions of the loaded record; the UPDATE is still to come.
SetStatus(w, s) ==
  /\ out' = [out EXCEPT ![w].status = s]
  /\ Goto(w, "flush")
  /\ UNCHANGED <<db, op, key, seen, locks, requests>>

\* execute gives up before it connects: evaluate_table on the stored snapshot under
\* stricter settings, or a generated row other than the previewed one.
SafetyFails(w) == Acts(w, {"execute"}) /\ SetStatus(w, "failed") /\ UNCHANGED <<rows, inserts, lost>>

\* insert_row: the key is generate_row's, the same at every attempt, or the database's.
NewKey == IF SuppliedKey(table) # {} THEN 1 ELSE inserts + 1
KeyTaken == \E r \in rows : r.key = NewKey

\* A row is committed in the customer's table.
InsertRow ==
  /\ ~KeyTaken /\ inserts < MaxInserts
  /\ inserts' = inserts + 1
  /\ rows' = rows \cup {[key |-> NewKey, intact |-> TRUE]}

\* Mutant: record_exists is not asked.
InsertMutant(w) ==
  /\ Acts(w, {"execute"})
  /\ InsertRow
  /\ out' = [out EXCEPT ![w].inserted = NewKey]
  /\ Goto(w, "activate")
  /\ UNCHANGED <<db, op, key, seen, locks, requests, lost>>

\* execute: the row has no record yet and is inserted.
Insert(w) ==
  /\ Acts(w, {"execute"}) /\ record = NoRecord
  /\ InsertRow
  /\ out' = [out EXCEPT ![w].inserted = NewKey]
  /\ Goto(w, "activate")
  /\ UNCHANGED <<db, op, key, seen, locks, requests, lost>>

\* execute: a ConnectorError, because nothing was inserted or because the answer to
\* the commit was lost.  The status of the connector is not looked at.
InsertFails(w) ==
  /\ Acts(w, {"execute"}) /\ record = NoRecord
  /\ SetStatus(w, "failed")
  /\ \/ UNCHANGED <<rows, inserts, lost>>
     \/ InsertRow /\ lost' = lost + 1

\* execute: "the same fingerprint is never inserted twice", a retired record's neither.
RecordExists(w) ==
  /\ Acts(w, {"execute"}) /\ record # NoRecord
  /\ Goto(w, "activate")
  /\ UNCHANGED <<db, rows, op, key, seen, out, locks, counters>>

\* add_record, unless there is one by now, and _activate, which counts the records
\* that are not retired.
Activate(w) ==
  LET added == out[w].inserted # 0 /\ record = NoRecord IN
  /\ pc[w] = "activate"
  /\ out' = [out EXCEPT
       ![w].record = IF added THEN "inserted" ELSE "none",
       ![w].status = IF added \/ record.status = "inserted" THEN "deployed" ELSE "deployed_unmonitored"]
  /\ Goto(w, "flush")
  /\ UNCHANGED <<db, rows, op, key, seen, locks, counters>>

\* _remove: no record is left to remove.
RemoveNothing(w) ==
  /\ Acts(w, Removals) /\ record.status # "inserted"
  /\ SetStatus(w, Removed[op[w]])
  /\ UNCHANGED <<rows, inserts, lost>>

Owned == {r \in rows : r.key = record.key}

\* set_record_status(honey, "retired") and the end of _remove.
Retire(w) ==
  /\ out' = [out EXCEPT ![w].record = "retired", ![w].status = Removed[op[w]]]
  /\ Goto(w, "mark")
  /\ UNCHANGED <<db, op, key, seen, locks, counters>>

\* delete_owned_row: the row of the recorded key, if it still has the recorded values,
\* or none if it is gone.  Without a primary key the statement has no predicate and fails.
DeleteRow(w) ==
  /\ Acts(w, Removals) /\ record.status = "inserted"
  /\ table.primaryKey # {}
  /\ \A r \in Owned : r.intact /\ Comparable(table)
  /\ rows' = rows \ Owned
  /\ Retire(w)

\* Mutant: the record is retired although its row is not deleted.
DriftMutant(w) ==
  /\ Acts(w, Removals) /\ record.status = "inserted"
  /\ table.primaryKey # {}
  /\ \E r \in Owned : ~(r.intact /\ Comparable(table))
  /\ Retire(w)
  /\ UNCHANGED rows

\* delete_owned_row: the stored values are not the recorded ones.
Drift(w) ==
  /\ Acts(w, Removals) /\ record.status = "inserted"
  /\ table.primaryKey # {}
  /\ \E r \in Owned : ~(r.intact /\ Comparable(table))
  /\ SetStatus(w, "drift_detected")
  /\ UNCHANGED <<rows, inserts, lost>>

\* delete_owned_row: a ConnectorError before the commit, or instead of its answer.
DeleteFails(w) ==
  /\ Acts(w, Removals) /\ record.status = "inserted"
  /\ SetStatus(w, "failed")
  /\ \/ UNCHANGED rows
     \/ /\ table.primaryKey # {}
        /\ \A r \in Owned : r.intact /\ Comparable(table)
        /\ rows' = rows \ Owned
  /\ UNCHANGED <<inserts, lost>>

\* The UPDATE of the record's row, which another removal may hold.
MarkRecord(w) ==
  /\ pc[w] = "mark" /\ Free(recordLock, w)
  /\ recordLock' = w
  /\ Goto(w, "flush")
  /\ UNCHANGED <<db, rows, op, key, seen, out, rowLock, jobLock, counters>>

\* The flush of the deployment's row, complete_job and the commit.
Flush(w) ==
  /\ pc[w] = "flush" /\ rowLock = None
  /\ EndTransaction(w)
  /\ status' = out[w].status
  /\ record' = [status |-> IF out[w].record # "none" THEN out[w].record ELSE record.status,
                key |-> IF out[w].record = "inserted" THEN out[w].inserted ELSE record.key]
  /\ jobs' = [jobs EXCEPT ![op[w]] = "done"]
  /\ UNCHANGED <<connector, synced, table, approver, rows, counters>>

-----------------------------------------------------------------------------
(* The customer's applications. *)

\* They change the row, or delete it.
CustomerWrites(r) ==
  /\ r.intact
  /\ \/ rows' = (rows \ {r}) \cup {[r EXCEPT !.intact = FALSE]}
     \/ rows' = rows \ {r}
  /\ UNCHANGED <<db, tx, counters>>

Next ==
  \/ CreateConnector \/ TestConnector \/ SyncSchema \/ DeleteConnector
  \/ \E t \in Tables : Create(t)
  \/ \E h \in Handlers :
       \/ \E o \in DOMAIN Target, k \in Keys : Load(h, o, k)
       \/ Decide(h) \/ WriteStatus(h) \/ Requeue(h)
  \/ \E w \in Workers :
       \/ \E t \in JobTypes : Claim(w, t)
       \/ NothingToDo(w) \/ SafetyFails(w) \/ Insert(w) \/ InsertFails(w) \/ RecordExists(w)
       \/ Activate(w) \/ RemoveNothing(w) \/ DeleteRow(w) \/ Drift(w) \/ DeleteFails(w)
       \/ MarkRecord(w) \/ Flush(w)
  \/ \E x \in Actors : Crash(x) \/ DeadlockVictim(x)
  \/ \E r \in rows : CustomerWrites(r)

Spec == Init /\ [][Next]_vars

-----------------------------------------------------------------------------
(* Properties. *)

\* "A retried job never inserts a duplicate row", as far as the code keeps it: a row
\* without a record takes a transaction that was lost after the insert.
UnrecordedRowsBounded ==
  LET owned(r) == record # NoRecord /\ r.key = record.key
      inFlight == {w \in Workers : out[w].inserted # 0}
  IN Cardinality({r \in rows : ~owned(r)}) <= lost + Cardinality(inFlight)

\* Retirement and rollback delete the owned row: when either is recorded as done, the
\* record is retired and its row is gone, whatever was retried, overtaken or lost.
RemovedIsGone ==
  status \in {"retired", "rolled_back"} => record.status = "retired" /\ Owned = {}

\* A deployment that waits for the worker has a job that is still to run, or one that
\* failed: a job is never finished without moving the status on.
PendingIsQueued ==
  \A t \in JobTypes : status = Expected[t] => jobs[t] \in {"pending", "failed"}
=============================================================================
