------------------------ MODULE DatabaseHoneyProofs -------------------------
(***************************************************************************)
(* What a database honey record guarantees for any tables and any number   *)
(* of handlers, workers and requests: a deployment that waits has a job to *)
(* run, a removal that is recorded as done has left no row of the record,  *)
(* and a row without a record stands for a transaction that was lost.      *)
(***************************************************************************)
EXTENDS DatabaseHoney, FiniteSetTheorems, TLAPS

-----------------------------------------------------------------------------
(* The invariant. *)

Removing == {"retiring", "rollback_pending"}
Settled == {"retired", "rolled_back"}

\* The statuses of a deployment that has a record, and what a worker may conclude.
Recorded == {"deployed", "deployed_unmonitored", "verification_failed", "failed_activation",
             "drift_detected", "expired"} \cup Removing \cup Settled
Verdicts == {"none", "failed", "deployed", "deployed_unmonitored", "drift_detected"} \cup Settled

OutRows == [status : Statuses \cup {"none"}, inserted : Nat, record : {"none", "inserted", "retired"}]

RowKeys == {r.key : r \in rows}

\* The customer's table: a primary key identifies a row.
RowsShaped ==
  /\ IsFiniteSet(rows)
  /\ rows \subseteq [key : Nat \ {0}, intact : BOOLEAN]
  /\ \A r, s \in rows : r.key = s.key => r = s
  /\ inserts \in Nat /\ lost \in Nat

\* The part of TypeOK that the arguments need, what a transaction executes, and the lock of
\* the job that a worker executes.
Shapes ==
  /\ pc \in [Actors -> {"idle", "write", "queue", "act", "activate", "mark", "flush"}]
  /\ op \in [Actors -> DOMAIN Target \cup JobTypes \cup {"none"}]
  /\ DOMAIN seen = Workers
  /\ out \in [Workers -> OutRows]
  /\ DOMAIN jobs = JobTypes
  /\ jobLock \in [JobTypes -> Workers \cup {None}]
  /\ \A h \in Handlers : pc[h] # "idle" => op[h] \in DOMAIN Target
  /\ \A h \in Handlers : pc[h] = "queue" => op[h] \in DOMAIN JobOf
  /\ \A w \in Workers : pc[w] # "idle" => op[w] \in JobTypes /\ jobLock[op[w]] = w
  /\ \A w \in Workers : pc[w] \in {"idle", "act"} => out[w] = NoWrite

HasRecord == record.status # "none"

\* The deployment's and the record's row.
RowInv ==
  /\ record.status \in {"none", "inserted", "retired"}
  /\ HasRecord \/ record = NoRecord
  /\ status \in Recorded => HasRecord
  /\ \A h \in Handlers : op[h] \in {"retire", "rollback"} => HasRecord
  /\ record.status = "retired" => Owned = {}
  /\ status \in Settled => record.status = "retired"
  /\ PendingIsQueued

\* A worker: a job that found another status is still out of date; only the one that holds
\* the execute job has inserted a row, and there is no record until it commits; what it is
\* about to write agrees with the record and with the customer's table.
Sound(w) ==
  /\ pc[w] # "idle" /\ seen[w] # Expected[op[w]] => status # Expected[op[w]]
  /\ seen[w] \in Removing => HasRecord
  /\ out[w].status \in Verdicts
  /\ out[w].inserted # 0 => pc[w] \in {"activate", "flush"} /\ op[w] = "execute" /\ ~HasRecord
  /\ out[w].record = "inserted" => out[w].inserted # 0 /\ out[w].status = "deployed"
  /\ pc[w] = "flush" /\ out[w].inserted # 0 => out[w].record = "inserted"
  /\ pc[w] = "activate" => HasRecord \/ out[w].inserted # 0
  /\ out[w].status \in Recorded => HasRecord \/ out[w].record = "inserted"
  /\ out[w].record = "retired" => HasRecord /\ Owned = {}
  /\ out[w].status \in Settled => out[w].record = "retired" \/ record.status = "retired"

HoneyInv == Shapes /\ RowsShaped /\ RowInv /\ \A w \in Workers : Sound(w)

\* Keys of rows that neither the record nor a transaction under way accounts for.
Stray == {k \in RowKeys : ~(HasRecord /\ k = record.key) /\ \A w \in Workers : out[w].inserted # k}

StrayInv == Cardinality(Stray) <= lost

-----------------------------------------------------------------------------
(* The names of the state machine and the shapes of the steps. *)

\* The statuses and the jobs.
LEMMA StatusNames ==
  /\ Statuses = {"draft", "awaiting_approval", "approved", "deploying", "deployed", "deployed_unmonitored",
                 "verification_failed", "failed_activation", "failed", "drift_detected", "retiring",
                 "rollback_pending", "expired", "rejected", "cancelled", "retired", "rolled_back"}
  /\ JobTypes = {"execute", "retire", "rollback"} /\ Removals = {"retire", "rollback"}
  /\ Expected["execute"] = "deploying" /\ Expected["retire"] = "retiring"
  /\ Expected["rollback"] = "rollback_pending"
  /\ Removed["retire"] = "retired" /\ Removed["rollback"] = "rolled_back"
  BY DEF Statuses, Transitions, JobTypes, Expected, Removals, Removed

\* The endpoints, what they ask for and what they enqueue.
LEMMA EndpointNames ==
  /\ DOMAIN Target = {"submit", "approve", "reject", "deploy", "retire", "rollback"}
  /\ DOMAIN JobOf = {"deploy", "retire", "rollback"}
  /\ JobOf["deploy"] = "execute" /\ JobOf["retire"] = "retire" /\ JobOf["rollback"] = "rollback"
  /\ Target["submit"] = "awaiting_approval" /\ Target["approve"] = "approved"
  /\ Target["reject"] = "rejected" /\ Target["deploy"] = "deploying"
  /\ Target["retire"] = "retiring" /\ Target["rollback"] = "rollback_pending"
  BY DEF Target, JobOf

\* A removal starts from a status that has a record.
LEMMA RemovalStartsFrom ==
  ASSUME NEW s, NEW to \in Removing, CanTransition(s, to) PROVE s \in Recorded
  <1>1. s \in Statuses /\ to \in Transitions[s]
    BY DEF CanTransition
  <1>2. s \notin {"draft", "awaiting_approval", "approved", "deploying", "failed", "rejected", "cancelled"}
    BY <1>1 DEF Transitions, Removing
  <1>3. QED
    BY <1>1, <1>2, StatusNames DEF Recorded, Removing, Settled

\* x moves, and no other transaction.
Alone(x) ==
  /\ \A y \in Actors : y # x => pc'[y] = pc[y] /\ op'[y] = op[y]
  /\ \A w \in Workers : w # x => seen'[w] = seen[w] /\ out'[w] = out[w]
  /\ \A w \in Workers, t \in JobTypes : w # x /\ jobLock[t] = w => jobLock'[t] = w
  /\ DOMAIN seen' = Workers
  /\ pc' \in [Actors -> {"idle", "write", "queue", "act", "activate", "mark", "flush"}]
  /\ op' \in [Actors -> DOMAIN Target \cup JobTypes \cup {"none"}]
  /\ out' \in [Workers -> OutRows]
  /\ jobLock' \in [JobTypes -> Workers \cup {None}]

\* The transaction of x is over.
Gone(x) ==
  /\ pc'[x] = "idle" /\ op'[x] = "none"
  /\ x \in Workers => seen'[x] = "none" /\ out'[x] = NoWrite

\* A transaction that has written nothing yet.
LEMMA NoWriteShape ==
  NoWrite \in OutRows /\ NoWrite.status = "none" /\ NoWrite.record = "none" /\ NoWrite.inserted = 0
  BY DEF NoWrite, OutRows

\* The end of a transaction.
LEMMA EndShape ==
  ASSUME Shapes, NEW x \in Actors, EndTransaction(x) PROVE Alone(x) /\ Gone(x)
  <1>1. jobLock' \in [JobTypes -> Workers \cup {None}]
        /\ \A w \in Workers, t \in JobTypes : w # x /\ jobLock[t] = w => jobLock'[t] = w
    BY DEF EndTransaction, Unlocked, Shapes
  <1>2. out' \in [Workers -> OutRows] /\ \A w \in Workers : w # x => out'[w] = out[w]
    BY NoWriteShape DEF EndTransaction, Shapes
  <1>3. Alone(x)
    BY <1>1, <1>2 DEF EndTransaction, Goto, Alone, Shapes
  <1>4. pc'[x] = "idle" /\ op'[x] = "none"
    BY DEF EndTransaction, Goto, Shapes
  <1>5. x \in Workers => seen'[x] = "none" /\ out'[x] = NoWrite
    BY DEF EndTransaction
  <1>6. QED
    BY <1>3, <1>4, <1>5 DEF Gone

\* The handlers; the job that one enqueues is not held by a worker.
LEMMA HandlerShape ==
  ASSUME Shapes, NEW h \in Handlers
  PROVE  /\ \A o \in DOMAIN Target, k \in Keys : Load(h, o, k) =>
              /\ Alone(h) /\ pc'[h] = "write" /\ op'[h] = o /\ CanTransition(status, Target[o])
              /\ UNCHANGED <<status, record, jobs, rows, inserts, lost>>
         /\ WriteStatus(h) =>
              /\ Alone(h) /\ pc[h] = "write" /\ pc'[h] = "queue" /\ op'[h] = op[h] /\ op[h] \in DOMAIN JobOf
              /\ UNCHANGED <<status, record, jobs, rows, inserts, lost>>
         /\ Decide(h) =>
              /\ Alone(h) /\ Gone(h) /\ op[h] \in DOMAIN Target \ DOMAIN JobOf /\ status' = Target[op[h]]
              /\ UNCHANGED <<record, jobs, rows, inserts, lost>>
         /\ Requeue(h) =>
              /\ Alone(h) /\ Gone(h) /\ op[h] \in DOMAIN JobOf /\ status' = Target[op[h]]
              /\ jobLock[JobOf[op[h]]] = None /\ jobs' = [jobs EXCEPT ![JobOf[op[h]]] = "pending"]
              /\ UNCHANGED <<record, rows, inserts, lost>>
  <1>0. h \in Actors /\ h \notin Workers
    BY ActorAssumption DEF Actors
  <1>1. ASSUME NEW o \in DOMAIN Target, NEW k \in Keys, Load(h, o, k)
        PROVE  /\ Alone(h) /\ pc'[h] = "write" /\ op'[h] = o /\ CanTransition(status, Target[o])
               /\ UNCHANGED <<status, record, jobs, rows, inserts, lost>>
    BY <1>0, <1>1 DEF Load, Goto, Alone, Shapes, db, deployment, locks
  <1>2. ASSUME WriteStatus(h)
        PROVE  /\ Alone(h) /\ pc[h] = "write" /\ pc'[h] = "queue" /\ op'[h] = op[h] /\ op[h] \in DOMAIN JobOf
               /\ UNCHANGED <<status, record, jobs, rows, inserts, lost>>
    BY <1>0, <1>2 DEF WriteStatus, Goto, Alone, Shapes, db, deployment, counters
  <1>3. ASSUME Decide(h)
        PROVE  /\ Alone(h) /\ Gone(h) /\ op[h] \in DOMAIN Target \ DOMAIN JobOf /\ status' = Target[op[h]]
               /\ UNCHANGED <<record, jobs, rows, inserts, lost>>
    <2>1. EndTransaction(h) /\ pc[h] # "idle" /\ op[h] \notin DOMAIN JobOf /\ status' = Target[op[h]]
          /\ UNCHANGED <<record, jobs, rows, inserts, lost>>
      BY <1>3 DEF Decide, counters
    <2>2. QED
      BY <1>0, <2>1, EndShape DEF Shapes
  <1>4. ASSUME Requeue(h)
        PROVE  /\ Alone(h) /\ Gone(h) /\ op[h] \in DOMAIN JobOf /\ status' = Target[op[h]]
               /\ jobLock[JobOf[op[h]]] = None /\ jobs' = [jobs EXCEPT ![JobOf[op[h]]] = "pending"]
               /\ UNCHANGED <<record, rows, inserts, lost>>
    <2>1. EndTransaction(h) /\ pc[h] = "queue" /\ status' = Target[op[h]] /\ jobLock[JobOf[op[h]]] = None
          /\ jobs' = [jobs EXCEPT ![JobOf[op[h]]] = "pending"] /\ UNCHANGED <<record, rows, inserts, lost>>
      BY <1>4 DEF Requeue, counters
    <2>2. QED
      BY <1>0, <2>1, EndShape DEF Shapes
  <1>5. QED
    BY <1>1, <1>2, <1>3, <1>4

\* It has claimed a job.
LEMMA ClaimShape ==
  ASSUME Shapes, NEW w \in Workers, NEW t \in JobTypes, Claim(w, t)
  PROVE  /\ Alone(w) /\ pc[w] = "idle" /\ pc'[w] = "act" /\ op'[w] = t /\ seen'[w] = status
         /\ out'[w] = out[w] /\ jobLock'[t] = w
         /\ UNCHANGED <<status, record, jobs, rows, inserts, lost>>
  <1>1. w \in Actors /\ w # None
    BY ActorAssumption DEF Actors
  <1>2. jobLock[t] = None /\ jobLock' = [jobLock EXCEPT ![t] = w]
    BY DEF Claim
  <1>3. jobLock' \in [JobTypes -> Workers \cup {None}] /\ jobLock'[t] = w
        /\ \A v \in Workers, u \in JobTypes : jobLock[u] = v => jobLock'[u] = v
    BY <1>2, ActorAssumption DEF Shapes
  <1>4. QED
    BY <1>1, <1>3 DEF Claim, Goto, Alone, Shapes, db, deployment, counters

\* A worker that goes on with its job, with something to write.
GoesOn(w) ==
  /\ Alone(w) /\ op'[w] = op[w] /\ seen'[w] = seen[w] /\ jobLock' = jobLock
  /\ UNCHANGED <<status, record, jobs>>

\* It has decided on a status.
LEMMA SetStatusShape ==
  ASSUME Shapes, NEW w \in Workers, NEW s \in Statuses, SetStatus(w, s)
  PROVE  /\ GoesOn(w) /\ pc'[w] = "flush" /\ out'[w].status = s
         /\ out'[w].record = out[w].record /\ out'[w].inserted = out[w].inserted
  <1> DEFINE new == [out[w] EXCEPT !.status = s]
  <1>1. w \in Actors /\ out' = [out EXCEPT ![w] = new] /\ out[w] \in OutRows
    BY DEF Actors, SetStatus, Shapes
  <1>2. new \in OutRows /\ new.status = s /\ new.record = out[w].record /\ new.inserted = out[w].inserted
    BY <1>1 DEF OutRows
  <1> HIDE DEF new
  <1>3. GoesOn(w) /\ pc'[w] = "flush"
    BY <1>1, <1>2 DEF SetStatus, Goto, GoesOn, Alone, Shapes, db, deployment, locks
  <1>4. QED
    BY <1>1, <1>2, <1>3 DEF Shapes

\* It has inserted a row, with a key that is not taken.
LEMMA InsertShape ==
  ASSUME Shapes, RowsShaped, NEW w \in Workers, Insert(w)
  PROVE  /\ GoesOn(w) /\ pc'[w] = "activate" /\ out'[w].status = out[w].status
         /\ out'[w].record = out[w].record /\ out'[w].inserted = NewKey /\ NewKey \in Nat \ {0}
  <1> DEFINE new == [out[w] EXCEPT !.inserted = NewKey]
  <1>1. w \in Actors /\ out' = [out EXCEPT ![w] = new] /\ out[w] \in OutRows
    BY DEF Actors, Insert, Shapes
  <1>2. NewKey \in Nat \ {0}
    BY DEF NewKey, RowsShaped
  <1> HIDE DEF NewKey
  <1>3. new \in OutRows /\ new.status = out[w].status /\ new.record = out[w].record /\ new.inserted = NewKey
    BY <1>1, <1>2 DEF OutRows
  <1> HIDE DEF new
  <1>4. GoesOn(w) /\ pc'[w] = "activate"
    BY <1>1, <1>3 DEF Insert, Goto, GoesOn, Alone, Shapes, db, deployment, locks
  <1>5. QED
    BY <1>1, <1>2, <1>3, <1>4 DEF Shapes

\* It has added the record, unless there is one.
LEMMA ActivateShape ==
  ASSUME Shapes, NEW w \in Workers, Activate(w)
  PROVE  LET added == out[w].inserted # 0 /\ record = NoRecord IN
         /\ GoesOn(w) /\ pc[w] = "activate" /\ pc'[w] = "flush" /\ out'[w].inserted = out[w].inserted
         /\ out'[w].record = IF added THEN "inserted" ELSE "none"
         /\ out'[w].status = IF added \/ record.status = "inserted" THEN "deployed" ELSE "deployed_unmonitored"
         /\ UNCHANGED <<rows, inserts, lost>>
  <1> DEFINE added == out[w].inserted # 0 /\ record = NoRecord
             rec == IF added THEN "inserted" ELSE "none"
             s == IF added \/ record.status = "inserted" THEN "deployed" ELSE "deployed_unmonitored"
             new == [out[w] EXCEPT !.record = rec, !.status = s]
  <1>1. w \in Actors /\ out[w] \in OutRows
    BY DEF Actors, Shapes
  <1>2. out' = [out EXCEPT ![w] = new] /\ UNCHANGED <<rows, inserts, lost>> /\ pc[w] = "activate"
    BY <1>1 DEF Activate, counters, Shapes
  <1>3. rec \in {"none", "inserted"} /\ s \in Statuses
    BY StatusNames
  <1>4. new \in OutRows /\ new.status = s /\ new.record = rec /\ new.inserted = out[w].inserted
    <2> HIDE DEF rec, s
    <2>1. QED
      BY <1>1, <1>3 DEF OutRows
  <1> HIDE DEF new, rec, s, added
  <1>5. GoesOn(w) /\ pc'[w] = "flush"
    <2>1. UNCHANGED <<op, seen, jobLock, status, record, jobs>> /\ pc' = [pc EXCEPT ![w] = "flush"]
      BY DEF Activate, Goto, db, deployment, locks
    <2>2. QED
      BY <1>1, <1>2, <1>4, <2>1 DEF GoesOn, Alone, Shapes
  <1>6. out'[w] = new
    BY <1>2 DEF Shapes
  <1>7. QED
    BY <1>2, <1>4, <1>5, <1>6 DEF rec, s, added

\* It has deleted the row, and retires the record.
LEMMA RetireShape ==
  ASSUME Shapes, NEW w \in Workers, Retire(w), op[w] \in Removals
  PROVE  /\ GoesOn(w) /\ pc'[w] = "mark" /\ out'[w].inserted = out[w].inserted
         /\ out'[w].record = "retired" /\ out'[w].status \in Settled /\ UNCHANGED <<inserts, lost>>
  <1> DEFINE s == Removed[op[w]]
             new == [out[w] EXCEPT !.record = "retired", !.status = s]
  <1>1. w \in Actors /\ out[w] \in OutRows
    BY DEF Actors, Shapes
  <1>2. out' = [out EXCEPT ![w] = new] /\ UNCHANGED <<inserts, lost>>
    BY <1>1 DEF Retire, counters, Shapes
  <1>3. s \in Settled /\ s \in Statuses
    BY StatusNames DEF Settled
  <1> HIDE DEF s
  <1>4. new \in OutRows /\ new.status = s /\ new.record = "retired" /\ new.inserted = out[w].inserted
    BY <1>1, <1>3 DEF OutRows
  <1> HIDE DEF new
  <1>5. GoesOn(w) /\ pc'[w] = "mark"
    BY <1>1, <1>2, <1>4 DEF Retire, Goto, GoesOn, Alone, Shapes, db, deployment, locks
  <1>6. out'[w] = new
    BY <1>2 DEF Shapes
  <1>7. QED
    BY <1>2, <1>3, <1>4, <1>5, <1>6

\* It goes on to its next statement.
LEMMA NextStatementShape ==
  ASSUME Shapes, NEW w \in Workers, RecordExists(w) \/ MarkRecord(w)
  PROVE  /\ GoesOn(w) /\ out'[w] = out[w] /\ UNCHANGED <<rows, inserts, lost>>
         /\ RecordExists(w) => pc[w] = "act" /\ pc'[w] = "activate" /\ record # NoRecord
         /\ MarkRecord(w) => pc[w] = "mark" /\ pc'[w] = "flush"
  <1>1. w \in Actors
    BY DEF Actors
  <1>2. UNCHANGED <<op, seen, out, jobLock, status, record, jobs, rows, inserts, lost>>
    BY DEF RecordExists, MarkRecord, db, deployment, locks, counters
  <1>3. CASE RecordExists(w)
    <2>1. pc' = [pc EXCEPT ![w] = "activate"] /\ pc[w] = "act" /\ record # NoRecord
      BY <1>3 DEF RecordExists, Goto, Acts
    <2>2. pc[w] # "mark"
      BY <2>1
    <2>3. ~MarkRecord(w)
      BY <2>2 DEF MarkRecord
    <2>4. QED
      BY <1>1, <1>2, <2>1, <2>3 DEF GoesOn, Alone, Shapes
  <1>4. CASE MarkRecord(w)
    <2>1. pc' = [pc EXCEPT ![w] = "flush"] /\ pc[w] = "mark"
      BY <1>4 DEF MarkRecord, Goto
    <2>2. ~RecordExists(w)
      BY <2>1 DEF RecordExists, Acts
    <2>3. QED
      BY <1>1, <1>2, <2>1, <2>2 DEF GoesOn, Alone, Shapes
  <1>5. QED
    BY <1>3, <1>4

-----------------------------------------------------------------------------
(* The invariant is inductive. *)

\* The initial state.
LEMMA HoneyInit == Init => HoneyInv
  <1> SUFFICES ASSUME Init PROVE HoneyInv
    OBVIOUS
  <1>1. Handlers \cup Workers = Actors
    BY DEF Actors
  <1>2. Shapes
    BY <1>1, NoWriteShape DEF Init, Shapes
  <1>3. RowsShaped
    BY FS_EmptySet DEF Init, RowsShaped
  <1>4. record = NoRecord /\ record.status = "none" /\ status = "none"
    BY DEF Init, NoRecord
  <1>5. RowInv
    <2>1. "none" \notin Recorded /\ "none" \notin Settled
      BY DEF Recorded, Removing, Settled
    <2>2. PendingIsQueued
      BY <1>4, StatusNames DEF PendingIsQueued
    <2>3. \A h \in Handlers : op[h] = "none"
      BY <1>1 DEF Init
    <2>4. QED
      BY <1>4, <2>1, <2>2, <2>3 DEF RowInv, HasRecord
  <1>6. ASSUME NEW w \in Workers PROVE Sound(w)
    <2>1. pc[w] = "idle" /\ seen[w] = "none" /\ out[w] = NoWrite
      BY <1>1 DEF Init
    <2>2. QED
      BY <2>1, NoWriteShape DEF Sound, Removing, Verdicts, Recorded, Settled
  <1>7. QED
    BY <1>2, <1>3, <1>5, <1>6 DEF HoneyInv

\* The row of a record that exists does not come back: rows are inserted only without one.
NoNewOwner == HasRecord => RowKeys' \subseteq RowKeys

\* What is gone stays gone.
LEMMA OwnedStaysEmpty ==
  ASSUME NoNewOwner, HasRecord, UNCHANGED record, Owned = {} PROVE Owned' = {}
  BY DEF NoNewOwner, HasRecord, Owned, RowKeys

\* A worker that does not move stays sound while the record is the same.
LEMMA SoundKept ==
  ASSUME HoneyInv, NEW v \in Workers, pc'[v] = pc[v], op'[v] = op[v], seen'[v] = seen[v], out'[v] = out[v],
         UNCHANGED record, NoNewOwner,
         \A t \in JobTypes : status' = Expected[t] => status = Expected[t] \/ jobLock[t] = None
  PROVE  Sound(v)'
  <1>1. Sound(v) /\ (HasRecord' <=> HasRecord)
    BY DEF HoneyInv, HasRecord
  <1>2. HasRecord /\ Owned = {} => Owned' = {}
    BY OwnedStaysEmpty
  <1>3. pc'[v] # "idle" /\ seen'[v] # Expected[op'[v]] => status' # Expected[op'[v]]
    <2>1. pc[v] # "idle" => op[v] \in JobTypes /\ jobLock[op[v]] # None
      BY ActorAssumption DEF HoneyInv, Shapes
    <2>2. QED
      BY <1>1, <2>1 DEF Sound
  <1>4. QED
    BY <1>1, <1>2, <1>3 DEF Sound

\* A worker that is idle is sound.
LEMMA SoundIdle ==
  ASSUME NEW w \in Workers, Gone(w) PROVE Sound(w)'
  <1>1. pc'[w] = "idle" /\ seen'[w] = "none" /\ out'[w] = NoWrite
    BY DEF Gone
  <1>2. out'[w].status = "none" /\ out'[w].record = "none" /\ out'[w].inserted = 0
    BY <1>1, NoWriteShape
  <1>3. QED
    BY <1>1, <1>2 DEF Sound, Removing, Verdicts, Recorded, Settled

\* The rows of the deployment and of the record, when a step moves on the status only.
LEMMA RowInvKept ==
  ASSUME HoneyInv, UNCHANGED record, NoNewOwner, status' \in Recorded => HasRecord,
         status' \in Settled => record.status = "retired", PendingIsQueued',
         \A h \in Handlers : op'[h] \in {"retire", "rollback"} => HasRecord
  PROVE  RowInv'
  <1>1. HasRecord' <=> HasRecord
    BY DEF HasRecord
  <1>2. record.status = "retired" => Owned' = {}
    BY OwnedStaysEmpty DEF HoneyInv, RowInv, HasRecord
  <1>3. QED
    BY <1>1, <1>2 DEF HoneyInv, RowInv

\* Steps outside the transactions: connectors and drafts, and the customer.
LEMMA HoneyOutside ==
  ASSUME HoneyInv, UNCHANGED <<pc, op, seen, out, jobLock, jobs, record>>,
         status' = status \/ status' = "draft", RowsShaped', NoNewOwner
  PROVE  HoneyInv'
  <1>1. \A t \in JobTypes : status' = Expected[t] => status = Expected[t]
    BY StatusNames
  <1>2. "draft" \notin Recorded /\ "draft" \notin Settled
    BY DEF Recorded, Removing, Settled
  <1>3. Shapes'
    BY DEF HoneyInv, Shapes
  <1>4. PendingIsQueued'
    BY <1>1 DEF HoneyInv, RowInv, PendingIsQueued
  <1>5. RowInv'
    BY <1>2, <1>4, RowInvKept DEF HoneyInv, RowInv
  <1>6. QED
    BY <1>1, <1>3, <1>5, SoundKept DEF HoneyInv

\* A handler checks its transition, or updates the status and waits for the job.
LEMMA HoneyRequest ==
  ASSUME HoneyInv, NEW h \in Handlers, (\E o \in DOMAIN Target, k \in Keys : Load(h, o, k)) \/ WriteStatus(h)
  PROVE  HoneyInv'
  <1>0. Handlers \cap Workers = {} /\ Handlers \cup Workers = Actors /\ Shapes
    BY ActorAssumption DEF Actors, HoneyInv
  <1>1. Alone(h) /\ UNCHANGED <<status, record, jobs, rows, inserts, lost>>
    BY <1>0, HandlerShape
  <1>2. \A w \in Workers : pc'[w] = pc[w] /\ op'[w] = op[w] /\ seen'[w] = seen[w] /\ out'[w] = out[w]
    BY <1>0, <1>1 DEF Alone
  <1>3. \A g \in Handlers : g # h => pc'[g] = pc[g] /\ op'[g] = op[g]
    BY <1>0, <1>1 DEF Alone
  <1>4. NoNewOwner /\ RowsShaped'
    BY <1>1 DEF NoNewOwner, RowKeys, HoneyInv, RowsShaped
  <1>5. /\ op'[h] \in DOMAIN Target /\ (pc'[h] = "queue" => op'[h] \in DOMAIN JobOf)
        /\ (op'[h] \in {"retire", "rollback"} => HasRecord)
    <2>1. ASSUME NEW o \in DOMAIN Target, NEW k \in Keys, Load(h, o, k)
          PROVE  pc'[h] = "write" /\ op'[h] = o /\ (o \in {"retire", "rollback"} => HasRecord)
      <3>1. pc'[h] = "write" /\ op'[h] = o /\ CanTransition(status, Target[o])
        BY <1>0, <2>1, HandlerShape
      <3>2. o \in {"retire", "rollback"} => Target[o] \in Removing
        BY EndpointNames DEF Removing
      <3>3. o \in {"retire", "rollback"} => status \in Recorded
        BY <3>1, <3>2, RemovalStartsFrom
      <3>4. QED
        BY <3>1, <3>3 DEF HoneyInv, RowInv
    <2>2. CASE WriteStatus(h)
      <3>1. pc[h] = "write" /\ op'[h] = op[h] /\ op[h] \in DOMAIN JobOf
        BY <1>0, <2>2, HandlerShape
      <3>2. QED
        BY <3>1 DEF HoneyInv, Shapes, RowInv
    <2>3. QED
      BY <2>1, <2>2
  <1>6. Shapes'
    BY <1>0, <1>1, <1>2, <1>3, <1>5 DEF Shapes, Alone
  <1>7. PendingIsQueued'
    BY <1>1 DEF HoneyInv, RowInv, PendingIsQueued
  <1>8. RowInv'
    BY <1>1, <1>3, <1>4, <1>5, <1>7, RowInvKept DEF HoneyInv, RowInv
  <1>9. QED
    BY <1>1, <1>2, <1>4, <1>6, <1>8, SoundKept DEF HoneyInv

\* A handler commits: the job is enqueued together with the status that waits for it.
LEMMA HoneyCommit ==
  ASSUME HoneyInv, NEW h \in Handlers, Decide(h) \/ Requeue(h) PROVE HoneyInv'
  <1>0. Handlers \cap Workers = {} /\ Handlers \cup Workers = Actors /\ Shapes
    BY ActorAssumption DEF Actors, HoneyInv
  <1>1. /\ Alone(h) /\ Gone(h) /\ status' = Target[op[h]] /\ UNCHANGED <<record, rows, inserts, lost>>
        /\ \/ op[h] \in DOMAIN Target \ DOMAIN JobOf /\ jobs' = jobs
           \/ /\ op[h] \in DOMAIN JobOf /\ jobLock[JobOf[op[h]]] = None
              /\ jobs' = [jobs EXCEPT ![JobOf[op[h]]] = "pending"]
    BY <1>0, HandlerShape
  <1>2. \A w \in Workers : pc'[w] = pc[w] /\ op'[w] = op[w] /\ seen'[w] = seen[w] /\ out'[w] = out[w]
    BY <1>0, <1>1 DEF Alone
  <1>3. \A g \in Handlers : g # h => pc'[g] = pc[g] /\ op'[g] = op[g]
    BY <1>0, <1>1 DEF Alone
  <1>4. NoNewOwner /\ RowsShaped'
    BY <1>1 DEF NoNewOwner, RowKeys, HoneyInv, RowsShaped
  <1>5. pc'[h] = "idle" /\ op'[h] = "none"
    BY <1>1 DEF Gone
  <1>6. \A t \in JobTypes : status' = Expected[t] => op[h] \in DOMAIN JobOf /\ JobOf[op[h]] = t
    BY <1>1, EndpointNames, StatusNames
  <1>7. DOMAIN jobs' = JobTypes /\ DOMAIN jobs = JobTypes
    BY <1>1 DEF HoneyInv, Shapes
  <1>8. Shapes'
    BY <1>0, <1>1, <1>2, <1>3, <1>5, <1>7 DEF Shapes, Alone
  <1>9. PendingIsQueued'
    BY <1>1, <1>6, <1>7 DEF PendingIsQueued
  <1>10. (status' \in Recorded => op[h] \in {"retire", "rollback"}) /\ status' \notin Settled
    BY <1>1, EndpointNames DEF Recorded, Removing, Settled
  <1>11. RowInv'
    <2>1. status' \in Recorded => HasRecord
      BY <1>10 DEF HoneyInv, RowInv
    <2>2. \A g \in Handlers : op'[g] \in {"retire", "rollback"} => HasRecord
      BY <1>3, <1>5 DEF HoneyInv, RowInv
    <2>3. QED
      BY <1>1, <1>4, <1>9, <1>10, <2>1, <2>2, RowInvKept
  <1>12. \A t \in JobTypes : status' = Expected[t] => jobLock[t] = None
    BY <1>1, <1>6
  <1>13. QED
    BY <1>1, <1>2, <1>4, <1>8, <1>11, <1>12, SoundKept DEF HoneyInv

\* A worker claims a job: what it loads is the status of the row.
LEMMA HoneyClaim ==
  ASSUME HoneyInv, NEW w \in Workers, NEW t \in JobTypes, Claim(w, t) PROVE HoneyInv'
  <1>0. Handlers \cap Workers = {} /\ Handlers \cup Workers = Actors /\ Shapes
    BY ActorAssumption DEF Actors, HoneyInv
  <1>1. /\ Alone(w) /\ pc[w] = "idle" /\ pc'[w] = "act" /\ op'[w] = t /\ seen'[w] = status
        /\ out'[w] = out[w] /\ jobLock'[t] = w /\ UNCHANGED <<status, record, jobs, rows, inserts, lost>>
    BY <1>0, ClaimShape
  <1>2. \A h \in Handlers : pc'[h] = pc[h] /\ op'[h] = op[h]
    BY <1>0, <1>1 DEF Alone
  <1>3. \A v \in Workers : v # w => pc'[v] = pc[v] /\ op'[v] = op[v] /\ seen'[v] = seen[v] /\ out'[v] = out[v]
    BY <1>0, <1>1 DEF Alone
  <1>4. NoNewOwner /\ RowsShaped'
    BY <1>1 DEF NoNewOwner, RowKeys, HoneyInv, RowsShaped
  <1>5. out'[w] = NoWrite
    BY <1>0, <1>1 DEF Shapes
  <1>6. Shapes'
    BY <1>0, <1>1, <1>2, <1>3, <1>5 DEF Shapes, Alone
  <1>7. PendingIsQueued'
    BY <1>1 DEF HoneyInv, RowInv, PendingIsQueued
  <1>8. RowInv'
    BY <1>1, <1>2, <1>4, <1>7, RowInvKept DEF HoneyInv, RowInv
  <1>9. Sound(w)'
    <2>1. out'[w].status = "none" /\ out'[w].record = "none" /\ out'[w].inserted = 0
      BY <1>5, NoWriteShape
    <2>2. seen'[w] \in Removing => HasRecord'
      BY <1>1 DEF HoneyInv, RowInv, Recorded, HasRecord
    <2>3. QED
      BY <1>1, <2>1, <2>2 DEF Sound, Verdicts, Recorded, Removing, Settled
  <1>10. QED
    BY <1>1, <1>3, <1>4, <1>6, <1>8, <1>9, SoundKept DEF HoneyInv

\* A transaction that ends without writing the deployment's row.
LEMMA HoneyEnds ==
  ASSUME HoneyInv, NEW x \in Actors, Alone(x), Gone(x), UNCHANGED <<status, record, rows, inserts>>,
         lost' \in Nat, DOMAIN jobs' = JobTypes, PendingIsQueued'
  PROVE  HoneyInv'
  <1>0. Handlers \cup Workers = Actors /\ Shapes
    BY DEF Actors, HoneyInv
  <1>1. NoNewOwner /\ RowsShaped'
    BY DEF NoNewOwner, RowKeys, HoneyInv, RowsShaped
  <1>2. Shapes'
    BY <1>0 DEF Shapes, Alone, Gone
  <1>3. \A h \in Handlers : op'[h] \in {"retire", "rollback"} => HasRecord
    BY <1>0 DEF HoneyInv, RowInv, Alone, Gone
  <1>4. RowInv'
    BY <1>1, <1>3, RowInvKept DEF HoneyInv, RowInv
  <1>5. ASSUME NEW v \in Workers PROVE Sound(v)'
    <2>1. CASE v = x
      BY <2>1, SoundIdle
    <2>2. CASE v # x
      BY <1>0, <1>1, <2>2, SoundKept DEF Alone
    <2>3. QED
      BY <2>1, <2>2
  <1>6. QED
    BY <1>1, <1>2, <1>4, <1>5 DEF HoneyInv

\* The service had nothing to do or raised, the process died, or the database broke a cycle.
LEMMA HoneyLost ==
  ASSUME HoneyInv, NEW x \in Actors, (x \in Workers /\ NothingToDo(x)) \/ Crash(x) \/ DeadlockVictim(x)
  PROVE  /\ HoneyInv' /\ Alone(x) /\ Gone(x) /\ UNCHANGED <<record, rows>>
         /\ lost' = lost + IF x \in Workers /\ out[x].inserted # 0 THEN 1 ELSE 0
  <1>0. Shapes /\ lost \in Nat
    BY DEF HoneyInv, RowsShaped
  <1>1. CASE x \in Workers /\ NothingToDo(x)
    <2>1. PICK result \in {"done", "failed"} :
            Finish(x, result) /\ pc[x] = "act" /\ (result = "done" => seen[x] # Expected[op[x]])
      BY <1>1 DEF NothingToDo
    <2>2. /\ EndTransaction(x) /\ jobs' = [jobs EXCEPT ![op[x]] = result]
          /\ UNCHANGED <<status, record, rows, inserts, lost>>
      BY <2>1 DEF Finish, deployment, counters
    <2>3. op[x] \in JobTypes /\ DOMAIN jobs' = JobTypes /\ out[x].inserted = 0
      BY <1>0, <1>1, <2>1, <2>2, NoWriteShape DEF Shapes
    <2>4. PendingIsQueued'
      <3>1. result = "done" => status # Expected[op[x]]
        BY <1>1, <2>1 DEF HoneyInv, Sound
      <3>2. ASSUME NEW t \in JobTypes, status' = Expected[t] PROVE jobs'[t] \in {"pending", "failed"}
        <4>1. jobs[t] \in {"pending", "failed"} /\ status = Expected[t]
          BY <2>2, <3>2 DEF HoneyInv, RowInv, PendingIsQueued
        <4>2. jobs'[t] = IF t = op[x] THEN result ELSE jobs[t]
          BY <1>0, <2>2 DEF Shapes
        <4>3. QED
          BY <3>1, <4>1, <4>2
      <3>3. QED
        BY <3>2 DEF PendingIsQueued
    <2>5. lost' = lost + IF x \in Workers /\ out[x].inserted # 0 THEN 1 ELSE 0
      BY <1>0, <2>2, <2>3
    <2>6. QED
      BY <1>0, <2>2, <2>3, <2>4, <2>5, EndShape, HoneyEnds
  <1>2. CASE Crash(x) \/ DeadlockVictim(x)
    <2>1. /\ EndTransaction(x) /\ UNCHANGED <<status, record, jobs, rows, inserts>>
          /\ lost' = lost + IF x \in Workers /\ out[x].inserted # 0 THEN 1 ELSE 0
      BY <1>2 DEF Crash, DeadlockVictim, Rollback, db, deployment
    <2>2. lost' \in Nat
      BY <1>0, <2>1
    <2>3. DOMAIN jobs' = JobTypes /\ PendingIsQueued'
      BY <2>1 DEF HoneyInv, Shapes, RowInv, PendingIsQueued
    <2>4. QED
      BY <1>0, <2>1, <2>2, <2>3, EndShape, HoneyEnds
  <1>3. QED
    BY <1>1, <1>2

\* A worker that goes on stays sound, if what it is about to write is.
LEMMA HoneyGoesOn ==
  ASSUME HoneyInv, NEW w \in Workers, GoesOn(w), pc[w] # "idle", pc'[w] \in {"activate", "mark", "flush"},
         RowsShaped', NoNewOwner, out'[w].status \in Verdicts,
         out'[w].inserted # 0 => pc'[w] \in {"activate", "flush"} /\ op[w] = "execute" /\ ~HasRecord,
         out'[w].record = "inserted" => out'[w].inserted # 0 /\ out'[w].status = "deployed",
         pc'[w] = "flush" /\ out'[w].inserted # 0 => out'[w].record = "inserted",
         pc'[w] = "activate" => HasRecord \/ out'[w].inserted # 0,
         out'[w].status \in Recorded => HasRecord \/ out'[w].record = "inserted",
         out'[w].record = "retired" => HasRecord /\ Owned' = {},
         out'[w].status \in Settled => out'[w].record = "retired" \/ record.status = "retired"
  PROVE  HoneyInv'
  <1>0. Handlers \cap Workers = {} /\ Handlers \cup Workers = Actors /\ Shapes
    BY ActorAssumption DEF Actors, HoneyInv
  <1>1. /\ Alone(w) /\ op'[w] = op[w] /\ seen'[w] = seen[w] /\ jobLock' = jobLock
        /\ UNCHANGED <<status, record, jobs>>
    BY DEF GoesOn
  <1>2. \A h \in Handlers : pc'[h] = pc[h] /\ op'[h] = op[h]
    BY <1>0, <1>1 DEF Alone
  <1>3. \A v \in Workers : v # w => pc'[v] = pc[v] /\ op'[v] = op[v] /\ seen'[v] = seen[v] /\ out'[v] = out[v]
    BY <1>0, <1>1 DEF Alone
  <1>4. Shapes'
    BY <1>0, <1>1, <1>2, <1>3 DEF Shapes, Alone
  <1>5. PendingIsQueued'
    BY <1>1 DEF HoneyInv, RowInv, PendingIsQueued
  <1>6. RowInv'
    BY <1>1, <1>2, <1>5, RowInvKept DEF HoneyInv, RowInv
  <1>7. Sound(w)'
    <2>1. HasRecord' <=> HasRecord
      BY <1>1 DEF HasRecord
    <2>2. Sound(w)
      BY DEF HoneyInv
    <2>3. /\ (seen'[w] # Expected[op'[w]] => status' # Expected[op'[w]])
          /\ (seen'[w] \in Removing => HasRecord')
      BY <1>1, <2>1, <2>2 DEF Sound
    <2>4. QED
      BY <1>1, <2>1, <2>3 DEF Sound
  <1>8. QED
    BY <1>1, <1>3, <1>4, <1>6, <1>7, SoundKept DEF HoneyInv

\* A row is inserted.
LEMMA InsertRowShape ==
  ASSUME RowsShaped, InsertRow, lost' \in Nat
  PROVE  RowsShaped' /\ RowKeys' = RowKeys \cup {NewKey} /\ NewKey \notin RowKeys /\ NewKey \in Nat \ {0}
  <1> DEFINE new == [key |-> NewKey, intact |-> TRUE]
  <1>1. NewKey \in Nat \ {0} /\ inserts \in Nat
    BY DEF NewKey, RowsShaped
  <1>2. rows' = rows \cup {new} /\ inserts' = inserts + 1 /\ \A r \in rows : r.key # NewKey
    BY DEF InsertRow, KeyTaken
  <1> HIDE DEF NewKey
  <1>3. new \in [key : Nat \ {0}, intact : BOOLEAN] /\ new.key = NewKey
    BY <1>1
  <1> HIDE DEF new
  <1>4. IsFiniteSet(rows')
    BY <1>2, FS_AddElement DEF RowsShaped
  <1>5. rows' \subseteq [key : Nat \ {0}, intact : BOOLEAN] /\ inserts' \in Nat
    BY <1>1, <1>2, <1>3 DEF RowsShaped
  <1>6. \A r, s \in rows' : r.key = s.key => r = s
    BY <1>2, <1>3 DEF RowsShaped
  <1>7. RowKeys' = RowKeys \cup {NewKey} /\ NewKey \notin RowKeys
    BY <1>2, <1>3 DEF RowKeys
  <1>8. QED
    BY <1>1, <1>4, <1>5, <1>6, <1>7 DEF RowsShaped

\* The owned row is deleted.
LEMMA DeleteRowShape ==
  ASSUME RowsShaped, rows' = rows \ Owned, UNCHANGED <<record, inserts, lost>>
  PROVE  RowsShaped' /\ RowKeys' \subseteq RowKeys /\ Owned' = {}
  <1>1. IsFiniteSet(rows')
    BY FS_Subset DEF RowsShaped
  <1>2. RowsShaped'
    BY <1>1 DEF RowsShaped
  <1>3. QED
    BY <1>2 DEF RowKeys, Owned

\* The customer's applications change or delete a row.
LEMMA CustomerShape ==
  ASSUME RowsShaped, NEW r \in rows, CustomerWrites(r) PROVE RowsShaped' /\ RowKeys' \subseteq RowKeys
  <1> DEFINE new == [r EXCEPT !.intact = FALSE]
  <1>1. r \in [key : Nat \ {0}, intact : BOOLEAN] /\ UNCHANGED <<inserts, lost>>
    BY DEF RowsShaped, CustomerWrites, counters
  <1>2. new \in [key : Nat \ {0}, intact : BOOLEAN] /\ new.key = r.key
    BY <1>1
  <1>3. rows' = (rows \ {r}) \cup {new} \/ rows' = rows \ {r}
    BY DEF CustomerWrites
  <1> HIDE DEF new
  <1>4. IsFiniteSet(rows \ {r})
    BY FS_RemoveElement DEF RowsShaped
  <1>5. IsFiniteSet(rows')
    BY <1>3, <1>4, FS_AddElement
  <1>6. rows' \subseteq [key : Nat \ {0}, intact : BOOLEAN]
    BY <1>2, <1>3 DEF RowsShaped
  <1>7. \A p, q \in rows' : p.key = q.key => p = q
    BY <1>2, <1>3 DEF RowsShaped
  <1>8. RowKeys' \subseteq RowKeys
    BY <1>2, <1>3 DEF RowKeys
  <1>9. QED
    BY <1>1, <1>5, <1>6, <1>7, <1>8 DEF RowsShaped

\* What a worker that acts on its job knows.
LEMMA ActsKnows ==
  ASSUME HoneyInv, NEW w \in Workers, NEW kinds, Acts(w, kinds)
  PROVE  /\ pc[w] = "act" /\ op[w] \in kinds /\ seen[w] = Expected[op[w]]
         /\ out[w].status = "none" /\ out[w].record = "none" /\ out[w].inserted = 0
         /\ op[w] \in Removals => HasRecord
  <1>1. pc[w] = "act" /\ op[w] \in kinds /\ seen[w] = Expected[op[w]]
    BY DEF Acts
  <1>2. out[w] = NoWrite
    BY <1>1 DEF HoneyInv, Shapes
  <1>3. op[w] \in Removals => HasRecord
    BY <1>1, StatusNames DEF HoneyInv, Sound, Removing
  <1>4. QED
    BY <1>1, <1>2, <1>3, NoWriteShape

\* A worker gives up, or finds no record to remove, or finds that the row has changed.
LEMMA HoneyConcludes ==
  ASSUME HoneyInv, NEW w \in Workers, NEW kinds, Acts(w, kinds), NEW s \in {"failed", "drift_detected"} \cup Settled,
         SetStatus(w, s), RowsShaped', NoNewOwner, s # "failed" => HasRecord,
         s \in Settled => record.status = "retired"
  PROVE  HoneyInv'
  <1>1. s \in Statuses /\ s \in Verdicts /\ "failed" \notin Recorded
    BY StatusNames DEF Verdicts, Settled, Recorded, Removing
  <1>2. /\ GoesOn(w) /\ pc'[w] = "flush" /\ out'[w].status = s
        /\ out'[w].record = "none" /\ out'[w].inserted = 0 /\ pc[w] = "act"
    BY <1>1, SetStatusShape, ActsKnows DEF HoneyInv
  <1>3. QED
    BY <1>1, <1>2, HoneyGoesOn

\* The steps of a worker.
LEMMA HoneyWorks ==
  ASSUME HoneyInv, NEW w \in Workers,
         \/ SafetyFails(w) \/ Insert(w) \/ InsertFails(w) \/ RecordExists(w) \/ Activate(w)
         \/ RemoveNothing(w) \/ DeleteRow(w) \/ Drift(w) \/ DeleteFails(w) \/ MarkRecord(w)
  PROVE  HoneyInv'
  <1>0. Shapes /\ RowsShaped /\ Sound(w) /\ lost \in Nat
    BY DEF HoneyInv, RowsShaped
  <1>1. RowInv /\ (HasRecord \/ record = NoRecord) /\ record.status \in {"none", "inserted", "retired"}
        /\ (record = NoRecord <=> ~HasRecord)
    BY DEF HoneyInv, RowInv, HasRecord, NoRecord
  <1>2. UNCHANGED <<rows, inserts, lost>> => RowsShaped' /\ NoNewOwner
    BY <1>0 DEF RowsShaped, NoNewOwner, RowKeys
  <1>3. CASE SafetyFails(w)
    <2>1. Acts(w, {"execute"}) /\ SetStatus(w, "failed") /\ UNCHANGED <<rows, inserts, lost>>
      BY <1>3 DEF SafetyFails
    <2>2. QED
      BY <1>2, <2>1, HoneyConcludes DEF Settled
  <1>4. CASE Insert(w)
    <2>1. Acts(w, {"execute"}) /\ ~HasRecord /\ InsertRow /\ UNCHANGED lost
      BY <1>1, <1>4 DEF Insert
    <2>2. RowsShaped' /\ NoNewOwner
      BY <1>0, <2>1, InsertRowShape DEF NoNewOwner
    <2>3. /\ GoesOn(w) /\ pc'[w] = "activate" /\ out'[w].status = "none" /\ out'[w].record = "none"
          /\ out'[w].inserted # 0 /\ pc[w] = "act" /\ op[w] = "execute"
      BY <1>0, <1>4, <2>1, InsertShape, ActsKnows
    <2>4. "none" \in Verdicts /\ "none" \notin Recorded /\ "none" \notin Settled
      BY DEF Verdicts, Recorded, Removing, Settled
    <2>5. QED
      BY <2>1, <2>2, <2>3, <2>4, HoneyGoesOn
  <1>5. CASE InsertFails(w)
    <2>1. /\ Acts(w, {"execute"}) /\ ~HasRecord /\ SetStatus(w, "failed")
          /\ UNCHANGED <<rows, inserts, lost>> \/ (InsertRow /\ lost' = lost + 1)
      BY <1>1, <1>5 DEF InsertFails
    <2>2. RowsShaped' /\ NoNewOwner
      <3>1. CASE UNCHANGED <<rows, inserts, lost>>
        BY <1>2, <3>1
      <3>2. CASE InsertRow /\ lost' = lost + 1
        <4>1. lost' \in Nat
          BY <1>0, <3>2
        <4>2. QED
          BY <1>0, <2>1, <3>2, <4>1, InsertRowShape DEF NoNewOwner
      <3>3. QED
        BY <2>1, <3>1, <3>2
    <2>3. QED
      BY <2>1, <2>2, HoneyConcludes DEF Settled
  <1>6. CASE RecordExists(w) \/ MarkRecord(w)
    <2>1. /\ GoesOn(w) /\ out'[w] = out[w] /\ UNCHANGED <<rows, inserts, lost>>
          /\ \/ pc[w] = "act" /\ pc'[w] = "activate" /\ HasRecord
             \/ pc[w] = "mark" /\ pc'[w] = "flush"
      BY <1>0, <1>1, <1>6, NextStatementShape
    <2>2. RowsShaped' /\ NoNewOwner
      BY <1>2, <2>1
    <2>3. out[w].inserted = 0
      BY <1>0, <2>1 DEF Sound
    <2>4. out[w].record = "retired" => HasRecord /\ Owned' = {}
      BY <1>0, <2>1, <2>2, OwnedStaysEmpty DEF Sound, GoesOn
    <2>5. QED
      BY <1>0, <2>1, <2>2, <2>3, <2>4, HoneyGoesOn DEF Sound
  <1>7. CASE Activate(w)
    <2> DEFINE added == out[w].inserted # 0 /\ record = NoRecord
    <2>1. /\ GoesOn(w) /\ pc[w] = "activate" /\ pc'[w] = "flush" /\ out'[w].inserted = out[w].inserted
          /\ out'[w].record = IF added THEN "inserted" ELSE "none"
          /\ out'[w].status = IF added \/ record.status = "inserted" THEN "deployed" ELSE "deployed_unmonitored"
          /\ UNCHANGED <<rows, inserts, lost>>
      BY <1>0, <1>7, ActivateShape
    <2>2. RowsShaped' /\ NoNewOwner
      BY <1>2, <2>1
    <2>3. /\ out[w].inserted # 0 => op[w] = "execute" /\ ~HasRecord /\ added
          /\ HasRecord \/ added
      BY <1>0, <1>1, <2>1 DEF Sound
    <2>4. out'[w].status \in {"deployed", "deployed_unmonitored"} /\ (added => out'[w].status = "deployed")
          /\ (out'[w].record = "inserted" <=> added) /\ out'[w].record # "retired"
      BY <2>1
    <2>5. out'[w].status \in Verdicts /\ out'[w].status \notin Settled
      BY <2>4 DEF Verdicts, Settled
    <2>6. QED
      BY <2>1, <2>2, <2>3, <2>4, <2>5, HoneyGoesOn
  <1>8. CASE RemoveNothing(w)
    <2>1. /\ Acts(w, Removals) /\ record.status # "inserted" /\ SetStatus(w, Removed[op[w]])
          /\ UNCHANGED <<rows, inserts, lost>>
      BY <1>8 DEF RemoveNothing
    <2>2. HasRecord /\ Removed[op[w]] \in Settled
      BY <2>1, ActsKnows, StatusNames DEF Settled
    <2>3. record.status = "retired"
      BY <1>1, <2>1, <2>2 DEF HasRecord
    <2>4. QED
      BY <1>2, <2>1, <2>2, <2>3, HoneyConcludes
  <1>9. CASE DeleteRow(w)
    <2>1. Acts(w, Removals) /\ rows' = rows \ Owned /\ Retire(w)
      BY <1>9 DEF DeleteRow
    <2>2. pc[w] = "act" /\ op[w] \in Removals /\ HasRecord /\ out[w].inserted = 0
      BY <2>1, ActsKnows
    <2>3. /\ GoesOn(w) /\ pc'[w] = "mark" /\ out'[w].inserted = 0 /\ out'[w].record = "retired"
          /\ out'[w].status \in Settled /\ UNCHANGED <<inserts, lost>>
      BY <1>0, <2>1, <2>2, RetireShape
    <2>4. RowsShaped' /\ NoNewOwner /\ Owned' = {}
      BY <1>0, <2>1, <2>3, DeleteRowShape DEF GoesOn, NoNewOwner
    <2>5. Settled \subseteq Verdicts
      BY DEF Verdicts
    <2>6. QED
      BY <2>2, <2>3, <2>4, <2>5, HoneyGoesOn
  <1>10. CASE Drift(w)
    <2>1. Acts(w, Removals) /\ SetStatus(w, "drift_detected") /\ UNCHANGED <<rows, inserts, lost>>
      BY <1>10 DEF Drift
    <2>2. HasRecord
      BY <2>1, ActsKnows
    <2>3. QED
      BY <1>2, <2>1, <2>2, HoneyConcludes DEF Settled
  <1>11. CASE DeleteFails(w)
    <2>1. /\ Acts(w, Removals) /\ SetStatus(w, "failed") /\ UNCHANGED <<inserts, lost>>
          /\ UNCHANGED rows \/ rows' = rows \ Owned
      BY <1>11 DEF DeleteFails
    <2>2. UNCHANGED record
      BY <2>1 DEF SetStatus, db
    <2>3. RowsShaped' /\ NoNewOwner
      BY <1>0, <1>2, <2>1, <2>2, DeleteRowShape DEF NoNewOwner
    <2>4. QED
      BY <2>1, <2>3, HoneyConcludes DEF Settled
  <1>12. QED
    BY <1>3, <1>4, <1>5, <1>6, <1>7, <1>8, <1>9, <1>10, <1>11

\* The commit of a worker, as it changes the record.
LEMMA FlushShape ==
  ASSUME Shapes, NEW w \in Workers, Flush(w)
  PROVE  /\ Alone(w) /\ Gone(w) /\ pc[w] = "flush" /\ status' = out[w].status
         /\ record'.status = IF out[w].record # "none" THEN out[w].record ELSE record.status
         /\ record'.key = IF out[w].record = "inserted" THEN out[w].inserted ELSE record.key
         /\ out[w].record = "none" /\ record = NoRecord => record' = NoRecord
         /\ DOMAIN jobs' = JobTypes /\ UNCHANGED <<rows, inserts, lost>>
  <1> DEFINE s == IF out[w].record # "none" THEN out[w].record ELSE record.status
             k == IF out[w].record = "inserted" THEN out[w].inserted ELSE record.key
  <1>1. /\ EndTransaction(w) /\ pc[w] = "flush" /\ status' = out[w].status
        /\ record' = [status |-> s, key |-> k] /\ jobs' = [jobs EXCEPT ![op[w]] = "done"]
        /\ UNCHANGED <<rows, inserts, lost>>
    BY DEF Flush, counters
  <1>2. out[w].record = "none" /\ record = NoRecord => s = "none" /\ k = 0
    BY DEF NoRecord
  <1> HIDE DEF s, k
  <1>3. record'.status = s /\ record'.key = k
    BY <1>1
  <1>4. out[w].record = "none" /\ record = NoRecord => record' = NoRecord
    BY <1>1, <1>2 DEF NoRecord
  <1>5. DOMAIN jobs' = JobTypes
    BY <1>1 DEF Shapes
  <1>6. w \in Actors
    BY DEF Actors
  <1>7. QED
    BY <1>1, <1>3, <1>4, <1>5, <1>6, EndShape DEF s, k

\* Only the holder of the execute job has inserted a row.
LEMMA OneInserts ==
  ASSUME HoneyInv, NEW v \in Workers, NEW w \in Workers, out[v].inserted # 0, out[w].inserted # 0 PROVE v = w
  <1>1. /\ pc[v] # "idle" /\ op[v] = "execute" /\ pc[w] # "idle" /\ op[w] = "execute"
    BY DEF HoneyInv, Sound
  <1>2. QED
    BY <1>1 DEF HoneyInv, Shapes

\* The commit of a worker.
LEMMA HoneyFlush ==
  ASSUME HoneyInv, NEW w \in Workers, Flush(w) PROVE HoneyInv'
  <1>0. Handlers \cap Workers = {} /\ Handlers \cup Workers = Actors /\ Shapes /\ Sound(w) /\ RowInv
    BY ActorAssumption DEF Actors, HoneyInv
  <1>1. /\ Alone(w) /\ Gone(w) /\ pc[w] = "flush" /\ status' = out[w].status
        /\ record'.status = IF out[w].record # "none" THEN out[w].record ELSE record.status
        /\ record'.key = IF out[w].record = "inserted" THEN out[w].inserted ELSE record.key
        /\ out[w].record = "none" /\ record = NoRecord => record' = NoRecord
        /\ DOMAIN jobs' = JobTypes /\ UNCHANGED <<rows, inserts, lost>>
    BY <1>0, FlushShape
  <1>2. \A h \in Handlers : pc'[h] = pc[h] /\ op'[h] = op[h]
    BY <1>0, <1>1 DEF Alone
  <1>3. \A v \in Workers : v # w => pc'[v] = pc[v] /\ op'[v] = op[v] /\ seen'[v] = seen[v] /\ out'[v] = out[v]
    BY <1>0, <1>1 DEF Alone
  <1>4. RowsShaped' /\ out[w].record \in {"none", "inserted", "retired"}
    BY <1>0, <1>1 DEF HoneyInv, RowsShaped, Shapes, OutRows
  <1>5. Shapes'
    BY <1>0, <1>1, <1>2, <1>3 DEF Shapes, Alone, Gone
  <1>6. \A t \in JobTypes : status' # Expected[t]
    BY <1>0, <1>1, StatusNames DEF Sound, Verdicts, Settled
  <1>7. PendingIsQueued'
    BY <1>6 DEF PendingIsQueued
  <1>8. /\ HasRecord => HasRecord' /\ record'.key = record.key
        /\ record.status = "retired" => record'.status = "retired"
        /\ out[w].record = "inserted" => HasRecord' /\ ~HasRecord /\ status' = "deployed"
        /\ record'.status \in {"none", "inserted", "retired"} /\ (HasRecord' \/ record' = NoRecord)
    BY <1>0, <1>1, <1>4 DEF Sound, RowInv, HasRecord
  <1>9. HasRecord /\ Owned = {} => Owned' = {}
    BY <1>1, <1>8 DEF Owned
  <1>10. RowInv'
    <2>1. status' \in Recorded => HasRecord'
      BY <1>0, <1>1, <1>8 DEF Sound
    <2>2. \A h \in Handlers : op'[h] \in {"retire", "rollback"} => HasRecord'
      BY <1>0, <1>2, <1>8 DEF RowInv
    <2>3. record'.status = "retired" => Owned' = {}
      BY <1>0, <1>1, <1>4, <1>8, <1>9 DEF Sound, RowInv, HasRecord
    <2>4. status' \in Settled => record'.status = "retired"
      BY <1>0, <1>1, <1>8 DEF Sound, Settled
    <2>5. QED
      BY <1>7, <1>8, <2>1, <2>2, <2>3, <2>4 DEF RowInv
  <1>11. ASSUME NEW v \in Workers, v # w PROVE Sound(v)'
    <2>1. Sound(v) /\ pc'[v] = pc[v] /\ op'[v] = op[v] /\ seen'[v] = seen[v] /\ out'[v] = out[v]
      BY <1>3, <1>11 DEF HoneyInv
    <2>2. out[v].inserted # 0 => ~HasRecord'
      <3>1. out[v].inserted # 0 => ~HasRecord /\ out[w].inserted = 0
        BY <1>11, <2>1, OneInserts DEF Sound
      <3>2. out[v].inserted # 0 => out[w].record = "none"
        BY <1>0, <1>4, <3>1 DEF Sound
      <3>3. QED
        BY <1>1, <3>1, <3>2 DEF HasRecord
    <2>3. pc'[v] # "idle" => op'[v] \in JobTypes
      BY <1>11, <2>1 DEF HoneyInv, Shapes
    <2>4. QED
      BY <1>6, <1>8, <1>9, <2>1, <2>2, <2>3 DEF Sound
  <1>12. QED
    BY <1>1, <1>4, <1>5, <1>10, <1>11, SoundIdle DEF HoneyInv

\* Every step keeps the invariant.
LEMMA HoneyStep == HoneyInv /\ [Next]_vars => HoneyInv'
  <1> SUFFICES ASSUME HoneyInv, [Next]_vars PROVE HoneyInv'
    OBVIOUS
  <1>1. UNCHANGED <<rows, inserts, lost>> => RowsShaped' /\ NoNewOwner
    BY DEF HoneyInv, RowsShaped, NoNewOwner, RowKeys
  <1>2. CASE CreateConnector \/ TestConnector \/ SyncSchema \/ DeleteConnector
    <2>1. UNCHANGED <<pc, op, seen, out, jobLock, jobs, record, status, rows, inserts, lost>>
      BY <1>2 DEF CreateConnector, TestConnector, SyncSchema, DeleteConnector, ConnectorStep, deployment,
         tx, locks, counters
    <2>2. QED
      BY <1>1, <2>1, HoneyOutside
  <1>3. ASSUME NEW t \in Tables, Create(t) PROVE HoneyInv'
    <2>1. UNCHANGED <<pc, op, seen, out, jobLock, jobs, record, rows, inserts, lost>> /\ status' = "draft"
      BY <1>3 DEF Create, tx, locks, counters
    <2>2. QED
      BY <1>1, <2>1, HoneyOutside
  <1>4. ASSUME NEW r \in rows, CustomerWrites(r) PROVE HoneyInv'
    <2>1. UNCHANGED <<pc, op, seen, out, jobLock, jobs, record, status>>
      BY <1>4 DEF CustomerWrites, db, deployment, tx, locks
    <2>2. RowsShaped' /\ NoNewOwner
      BY <1>4, CustomerShape DEF HoneyInv, NoNewOwner
    <2>3. QED
      BY <2>1, <2>2, HoneyOutside
  <1>5. CASE UNCHANGED vars
    <2>1. UNCHANGED <<pc, op, seen, out, jobLock, jobs, record, status, rows, inserts, lost>>
      BY <1>5 DEF vars, db, deployment, tx, locks, counters
    <2>2. QED
      BY <1>1, <2>1, HoneyOutside
  <1>6. QED
    BY <1>2, <1>3, <1>4, <1>5, HoneyRequest, HoneyCommit, HoneyClaim, HoneyWorks, HoneyFlush, HoneyLost
       DEF Next, Actors

\* A deployment that waits for the worker has a job that is still to run, or one that failed:
\* a handler replaces a job only when no worker holds it, so that a worker that finds another
\* status than its job's finishes a job nobody waits for.
THEOREM WaitingIsQueued == Spec => []PendingIsQueued
  <1>1. HoneyInv => PendingIsQueued
    BY DEF HoneyInv, RowInv
  <1>2. QED
    BY <1>1, HoneyInit, HoneyStep, PTL DEF Spec

\* Retirement and rollback delete the owned row: once either is recorded as done, the record is
\* retired and its row is gone, however jobs were retried, overtaken or lost.
THEOREM RemovalsDelete == Spec => []RemovedIsGone
  <1>1. HoneyInv => RemovedIsGone
    BY DEF HoneyInv, RowInv, RemovedIsGone, Settled
  <1>2. QED
    BY <1>1, HoneyInit, HoneyStep, PTL DEF Spec

-----------------------------------------------------------------------------
(* Rows without a record. *)

\* A table has finitely many strays.
LEMMA StrayFinite == ASSUME HoneyInv PROVE IsFiniteSet(RowKeys) /\ IsFiniteSet(Stray)
  <1> DEFINE keyOf == [r \in rows |-> r.key]
  <1>1. IsFiniteSet(rows)
    BY DEF HoneyInv, RowsShaped
  <1>2. keyOf \in Surjection(rows, RowKeys)
    BY DEF Surjection, RowKeys
  <1>3. IsFiniteSet(RowKeys)
    BY <1>1, <1>2, FS_Surjection
  <1>4. Stray \subseteq RowKeys
    BY DEF Stray
  <1>5. QED
    BY <1>3, <1>4, FS_Subset

\* Steps that leave no further stray behind.
LEMMA StrayShrinks ==
  ASSUME HoneyInv, StrayInv, Stray' \subseteq Stray, UNCHANGED lost PROVE StrayInv'
  <1>1. IsFiniteSet(Stray)
    BY StrayFinite
  <1>2. /\ Cardinality(Stray') \in Nat /\ Cardinality(Stray) \in Nat /\ Cardinality(Stray') <= Cardinality(Stray)
    BY <1>1, FS_Subset, FS_CardinalityType
  <1>3. lost \in Nat
    BY DEF HoneyInv, RowsShaped
  <1>4. Cardinality(Stray') <= lost'
    BY <1>2, <1>3 DEF StrayInv
  <1>5. QED
    BY <1>4 DEF StrayInv

\* One more element.
LEMMA AddOne ==
  ASSUME NEW S, NEW x, IsFiniteSet(S)
  PROVE  /\ IsFiniteSet(S \cup {x}) /\ Cardinality(S \cup {x}) \in Nat
         /\ Cardinality(S \cup {x}) <= Cardinality(S) + 1
  <1>1. IsFiniteSet(S \cup {x})
    BY FS_AddElement
  <1>2. Cardinality(S) \in Nat /\ Cardinality(S \cup {x}) \in Nat
    BY <1>1, FS_CardinalityType
  <1>3. Cardinality(S \cup {x}) = IF x \in S THEN Cardinality(S) ELSE Cardinality(S) + 1
    BY FS_AddElement
  <1>4. QED
    BY <1>1, <1>2, <1>3

\* A lost transaction leaves one behind.
LEMMA StrayGrows ==
  ASSUME HoneyInv, StrayInv, NEW k, Stray' \subseteq Stray \cup {k}, lost' = lost + 1 PROVE StrayInv'
  <1>1. IsFiniteSet(Stray) /\ Cardinality(Stray) \in Nat
    BY StrayFinite, FS_CardinalityType
  <1>2. IsFiniteSet(Stray \cup {k}) /\ Cardinality(Stray \cup {k}) <= Cardinality(Stray) + 1
        /\ Cardinality(Stray \cup {k}) \in Nat
    BY <1>1, AddOne
  <1>3. Cardinality(Stray') <= Cardinality(Stray \cup {k}) /\ Cardinality(Stray') \in Nat
    BY <1>2, FS_Subset, FS_CardinalityType
  <1>4. lost \in Nat
    BY DEF HoneyInv, RowsShaped
  <1>5. Cardinality(Stray') <= lost'
    BY <1>1, <1>2, <1>3, <1>4 DEF StrayInv
  <1>6. QED
    BY <1>5 DEF StrayInv

\* What is accounted for stays so.
Accounted ==
  /\ record'.key = record.key /\ (HasRecord' <=> HasRecord)
  /\ \A v \in Workers : out'[v].inserted = out[v].inserted
  /\ RowKeys' \subseteq RowKeys /\ UNCHANGED lost

\* Such a step leaves no further stray.
LEMMA StrayAccounted ==
  ASSUME HoneyInv, StrayInv, Accounted PROVE StrayInv'
  <1>1. Stray' \subseteq Stray
    BY DEF Accounted, Stray
  <1>2. QED
    BY <1>1, StrayShrinks DEF Accounted

\* The steps outside the transactions, of handlers, and those in which a worker neither inserts
\* nor commits.
LEMMA MostAccounted ==
  ASSUME HoneyInv, [Next]_vars
  PROVE  \/ Accounted
         \/ \E w \in Workers : Insert(w) \/ InsertFails(w) \/ Flush(w)
         \/ \E x \in Actors : Crash(x) \/ DeadlockVictim(x)
  <1>0. Shapes /\ RowsShaped /\ Handlers \cap Workers = {} /\ Handlers \cup Workers = Actors
    BY ActorAssumption DEF Actors, HoneyInv
  <1>1. UNCHANGED <<record, out, rows, lost>> => Accounted
    BY DEF Accounted, RowKeys, HasRecord
  <1>2. CASE CreateConnector \/ TestConnector \/ SyncSchema \/ DeleteConnector \/ \E t \in Tables : Create(t)
    BY <1>1, <1>2 DEF CreateConnector, TestConnector, SyncSchema, DeleteConnector, ConnectorStep, Create, tx,
       counters
  <1>3. ASSUME NEW r \in rows, CustomerWrites(r) PROVE Accounted
    <2>1. UNCHANGED <<record, out, lost>>
      BY <1>3 DEF CustomerWrites, db, tx, counters
    <2>2. RowKeys' \subseteq RowKeys
      BY <1>0, <1>3, CustomerShape
    <2>3. QED
      BY <2>1, <2>2 DEF Accounted, HasRecord
  <1>4. CASE UNCHANGED vars
    BY <1>1, <1>4 DEF vars, db, tx, counters
  <1>5. ASSUME NEW h \in Handlers,
               (\E o \in DOMAIN Target, k \in Keys : Load(h, o, k)) \/ WriteStatus(h) \/ Decide(h) \/ Requeue(h)
        PROVE  Accounted
    <2>1. Alone(h) /\ UNCHANGED <<record, rows, lost>>
      BY <1>0, <1>5, HandlerShape
    <2>2. \A v \in Workers : out'[v].inserted = out[v].inserted
      BY <1>0, <2>1 DEF Alone
    <2>3. QED
      BY <2>1, <2>2 DEF Accounted, RowKeys, HasRecord
  <1>6. ASSUME NEW w \in Workers, Alone(w), out'[w].inserted = out[w].inserted, UNCHANGED <<record, lost>>,
               RowKeys' \subseteq RowKeys
        PROVE  Accounted
    <2>1. \A v \in Workers : out'[v].inserted = out[v].inserted
      BY <1>6 DEF Alone
    <2>2. QED
      BY <1>6, <2>1 DEF Accounted, HasRecord
  <1>7. UNCHANGED rows => RowKeys' \subseteq RowKeys
    BY DEF RowKeys
  <1>8. ASSUME NEW w \in Workers, NEW t \in JobTypes, Claim(w, t) PROVE Accounted
    BY <1>0, <1>6, <1>7, <1>8, ClaimShape
  <1>9. ASSUME NEW w \in Workers, NothingToDo(w) PROVE Accounted
    <2>1. Alone(w) /\ Gone(w) /\ UNCHANGED <<record, rows>>
      BY <1>0, <1>9, HoneyLost
    <2>2. out[w].inserted = 0 /\ out'[w].inserted = 0
      BY <1>0, <1>9, <2>1, NoWriteShape DEF Gone, NothingToDo, Shapes
    <2>3. UNCHANGED lost
      BY <1>9 DEF NothingToDo, Finish, counters
    <2>4. QED
      BY <1>6, <1>7, <2>1, <2>2, <2>3
  <1>10. ASSUME NEW w \in Workers, RecordExists(w) \/ MarkRecord(w) \/ Activate(w) PROVE Accounted
    <2>1. GoesOn(w) /\ out'[w].inserted = out[w].inserted /\ UNCHANGED <<rows, lost>>
      BY <1>0, <1>10, NextStatementShape, ActivateShape
    <2>2. QED
      BY <1>6, <1>7, <2>1 DEF GoesOn
  <1>11. ASSUME NEW w \in Workers, SafetyFails(w) \/ RemoveNothing(w) \/ Drift(w) \/ DeleteFails(w) PROVE Accounted
    <2>1. PICK s \in {"failed", "drift_detected"} \cup Settled : SetStatus(w, s)
      <3>1. RemoveNothing(w) => Removed[op[w]] \in Settled
        BY StatusNames DEF RemoveNothing, Acts, Settled
      <3>2. QED
        BY <1>11, <3>1 DEF SafetyFails, RemoveNothing, Drift, DeleteFails
    <2>2. GoesOn(w) /\ out'[w].inserted = out[w].inserted
      BY <1>0, <2>1, SetStatusShape, StatusNames DEF Settled
    <2>3. UNCHANGED <<inserts, lost>> /\ (UNCHANGED rows \/ rows' = rows \ Owned)
      BY <1>11 DEF SafetyFails, RemoveNothing, Drift, DeleteFails
    <2>4. RowKeys' \subseteq RowKeys
      BY <2>3 DEF RowKeys
    <2>5. QED
      BY <1>6, <2>2, <2>3, <2>4 DEF GoesOn
  <1>12. ASSUME NEW w \in Workers, DeleteRow(w) PROVE Accounted
    <2>1. Retire(w) /\ op[w] \in Removals /\ rows' = rows \ Owned
      BY <1>12 DEF DeleteRow, Acts
    <2>2. GoesOn(w) /\ out'[w].inserted = out[w].inserted /\ UNCHANGED lost
      BY <1>0, <2>1, RetireShape
    <2>3. RowKeys' \subseteq RowKeys
      BY <2>1 DEF RowKeys
    <2>4. QED
      BY <1>6, <2>2, <2>3 DEF GoesOn
  <1>13. QED
    BY <1>2, <1>3, <1>4, <1>5, <1>8, <1>9, <1>10, <1>11, <1>12 DEF Next

\* The other steps.
LEMMA StrayStep == HoneyInv /\ StrayInv /\ [Next]_vars => StrayInv'
  <1> SUFFICES ASSUME HoneyInv, StrayInv, [Next]_vars PROVE StrayInv'
    OBVIOUS
  <1>0. Shapes /\ RowsShaped /\ lost \in Nat
    BY DEF HoneyInv, RowsShaped
  <1>1. ASSUME NEW w \in Workers, Insert(w) PROVE StrayInv'
    <2>1. Acts(w, {"execute"}) /\ InsertRow /\ UNCHANGED lost
      BY <1>1 DEF Insert
    <2>2. GoesOn(w) /\ out'[w].inserted = NewKey /\ out[w].inserted = 0
      BY <1>0, <1>1, <2>1, InsertShape, ActsKnows
    <2>3. RowKeys' = RowKeys \cup {NewKey} /\ NewKey # 0 /\ \A k \in RowKeys : k # 0
      BY <1>0, <2>1, InsertRowShape DEF RowsShaped, RowKeys
    <2>4. \A v \in Workers : v # w => out'[v] = out[v]
      BY <2>2 DEF GoesOn, Alone
    <2>5. Stray' \subseteq Stray
      BY <2>2, <2>3, <2>4 DEF Stray, HasRecord, GoesOn
    <2>6. QED
      BY <2>1, <2>5, StrayShrinks
  <1>2. ASSUME NEW w \in Workers, InsertFails(w) PROVE StrayInv'
    <2>1. /\ SetStatus(w, "failed")
          /\ UNCHANGED <<rows, inserts, lost>> \/ (InsertRow /\ lost' = lost + 1)
      BY <1>2 DEF InsertFails
    <2>2. GoesOn(w) /\ out'[w].inserted = out[w].inserted
      BY <1>0, <2>1, SetStatusShape, StatusNames
    <2>3. (\A v \in Workers : out'[v].inserted = out[v].inserted) /\ UNCHANGED record
      BY <2>2 DEF GoesOn, Alone
    <2>4. CASE UNCHANGED <<rows, inserts, lost>>
      <3>1. Accounted
        BY <2>3, <2>4 DEF Accounted, RowKeys, HasRecord
      <3>2. QED
        BY <3>1, StrayAccounted
    <2>5. CASE InsertRow /\ lost' = lost + 1
      <3>1. lost' \in Nat
        BY <1>0, <2>5
      <3>2. RowKeys' = RowKeys \cup {NewKey}
        BY <1>0, <2>5, <3>1, InsertRowShape
      <3>3. Stray' \subseteq Stray \cup {NewKey}
        BY <2>3, <3>2 DEF Stray, HasRecord
      <3>4. QED
        BY <2>5, <3>3, StrayGrows
    <2>6. QED
      BY <2>1, <2>4, <2>5
  <1>3. ASSUME NEW w \in Workers, Flush(w) PROVE StrayInv'
    <2>1. /\ Alone(w) /\ Gone(w) /\ pc[w] = "flush" /\ UNCHANGED <<rows, lost>>
          /\ record'.status = IF out[w].record # "none" THEN out[w].record ELSE record.status
          /\ record'.key = IF out[w].record = "inserted" THEN out[w].inserted ELSE record.key
      BY <1>0, <1>3, FlushShape
    <2>2. (\A v \in Workers : v # w => out'[v] = out[v]) /\ RowKeys' = RowKeys /\ \A k \in RowKeys : k # 0
      BY <1>0, <2>1 DEF Alone, RowKeys, RowsShaped
    <2>3. CASE out[w].record = "inserted"
      <3>1. ~HasRecord /\ HasRecord' /\ record'.key = out[w].inserted
        BY <2>1, <2>3 DEF HoneyInv, Sound, HasRecord
      <3>2. Stray' \subseteq Stray
        BY <2>2, <3>1 DEF Stray
      <3>3. QED
        BY <2>1, <3>2, StrayShrinks
    <2>4. CASE out[w].record # "inserted"
      <3>1. out[w].inserted = 0 /\ record'.key = record.key /\ (HasRecord => HasRecord')
        BY <2>1, <2>4 DEF HoneyInv, Sound, HasRecord
      <3>2. Stray' \subseteq Stray
        BY <2>2, <3>1 DEF Stray
      <3>3. QED
        BY <2>1, <3>2, StrayShrinks
    <2>5. QED
      BY <2>3, <2>4
  <1>4. ASSUME NEW x \in Actors, Crash(x) \/ DeadlockVictim(x) PROVE StrayInv'
    <2>1. /\ Alone(x) /\ Gone(x) /\ UNCHANGED <<record, rows>>
          /\ lost' = lost + IF x \in Workers /\ out[x].inserted # 0 THEN 1 ELSE 0
      BY <1>4, HoneyLost
    <2>2. RowKeys' = RowKeys /\ (HasRecord' <=> HasRecord) /\ record'.key = record.key
          /\ \A v \in Workers : v # x => out'[v] = out[v]
      BY <2>1 DEF Alone, RowKeys, HasRecord
    <2>3. CASE x \in Workers /\ out[x].inserted # 0
      <3>1. Stray' \subseteq Stray \cup {out[x].inserted}
        BY <2>2 DEF Stray
      <3>2. lost' = lost + 1
        BY <2>1, <2>3
      <3>3. QED
        BY <3>1, <3>2, StrayGrows
    <2>4. CASE ~(x \in Workers /\ out[x].inserted # 0)
      <3>1. x \in Workers => out'[x].inserted = 0
        BY <2>1, NoWriteShape DEF Gone
      <3>2. UNCHANGED lost
        BY <1>0, <2>1, <2>4
      <3>3. Accounted
        BY <2>2, <2>4, <3>1, <3>2 DEF Accounted
      <3>4. QED
        BY <3>3, StrayAccounted
    <2>5. QED
      BY <2>3, <2>4
  <1>5. QED
    BY <1>1, <1>2, <1>3, <1>4, MostAccounted, StrayAccounted

\* "A retried job never inserts a duplicate row", as far as the code keeps it: a row without a
\* record belongs to the one insert under way, or a transaction was lost after its insert.
THEOREM StraysAreLosses == Spec => []UnrecordedRowsBounded
  <1>1. Init => StrayInv
    <2> SUFFICES ASSUME Init PROVE StrayInv
      OBVIOUS
    <2>1. Stray = {} /\ lost = 0
      BY DEF Init, Stray, RowKeys
    <2>2. QED
      BY <2>1, FS_EmptySet DEF StrayInv
  <1>2. HoneyInv /\ StrayInv => UnrecordedRowsBounded
    <2> SUFFICES ASSUME HoneyInv, StrayInv PROVE UnrecordedRowsBounded
      OBVIOUS
    <2> DEFINE unowned == {r \in rows : ~(record # NoRecord /\ r.key = record.key)}
               keys == {r.key : r \in unowned}
               keyOf == [r \in unowned |-> r.key]
               inFlight == {w \in Workers : out[w].inserted # 0}
    <2>1. IsFiniteSet(unowned) /\ lost \in Nat /\ \A r, s \in unowned : r.key = s.key => r = s
      <3>1. IsFiniteSet(rows) /\ lost \in Nat /\ \A r, s \in rows : r.key = s.key => r = s
        BY DEF HoneyInv, RowsShaped
      <3>2. QED
        BY <3>1, FS_Subset
    <2>2. keyOf \in Bijection(unowned, keys)
      BY <2>1 DEF Bijection, Injection, Surjection, IsInjective
    <2>3. IsFiniteSet(keys) /\ Cardinality(unowned) = Cardinality(keys)
      BY <2>1, <2>2, FS_Bijection DEF ExistsBijection
    <2>4. ASSUME NEW k \in keys, k \notin Stray PROVE \E w \in Workers : out[w].inserted = k /\ k # 0
      <3>1. k \in RowKeys /\ k # 0 /\ ~(HasRecord /\ k = record.key)
        BY DEF RowKeys, HoneyInv, RowsShaped, RowInv, HasRecord, NoRecord
      <3>2. QED
        BY <2>4, <3>1 DEF Stray
    <2>5. IsFiniteSet(Stray) /\ Cardinality(Stray) \in Nat /\ Cardinality(Stray) <= lost
      BY StrayFinite, FS_CardinalityType DEF StrayInv
    <2>6. Cardinality(keys) \in Nat
      BY <2>3, FS_CardinalityType
    <2>7. CASE inFlight = {}
      <3>1. keys \subseteq Stray
        BY <2>4, <2>7
      <3>2. Cardinality(keys) <= Cardinality(Stray) /\ Cardinality(inFlight) = 0
        BY <2>5, <2>7, <3>1, FS_Subset, FS_EmptySet
      <3>3. QED
        BY <2>1, <2>3, <2>5, <2>6, <3>2 DEF UnrecordedRowsBounded
    <2>8. ASSUME NEW w \in inFlight PROVE UnrecordedRowsBounded
      <3>1. inFlight = {w}
        BY OneInserts
      <3>2. keys \subseteq Stray \cup {out[w].inserted}
        BY <2>4, <3>1
      <3>3. Cardinality(inFlight) = 1
        BY <3>1, FS_Singleton
      <3>4. IsFiniteSet(Stray \cup {out[w].inserted})
            /\ Cardinality(Stray \cup {out[w].inserted}) <= Cardinality(Stray) + 1
            /\ Cardinality(Stray \cup {out[w].inserted}) \in Nat
        BY <2>5, AddOne
      <3>5. Cardinality(keys) <= Cardinality(Stray \cup {out[w].inserted})
        BY <3>2, <3>4, FS_Subset
      <3>6. Cardinality(keys) <= lost + Cardinality(inFlight)
        BY <2>1, <2>5, <2>6, <3>3, <3>4, <3>5
      <3>7. QED
        BY <2>3, <3>6 DEF UnrecordedRowsBounded
    <2>9. QED
      BY <2>7, <2>8
  <1>3. QED
    BY <1>1, <1>2, HoneyInit, HoneyStep, StrayStep, PTL DEF Spec

=============================================================================
