------------------------ MODULE DecoyDeploymentProofs ------------------------
(***************************************************************************)
(* What the deployment of decoys guarantees for any number of handlers,    *)
(* workers, keys, requests and pull requests.                              *)
(*                                                                         *)
(* Nothing ties the status a transaction writes to the one it loaded, so   *)
(* no invariant speaks of the status alone.  What does hold rests on the   *)
(* locks of the job rows and of the tripwires, on what a transaction must  *)
(* once have seen, and on facts that never change back: an approval, a     *)
(* merged pull request, a pull request that was recorded.                  *)
(***************************************************************************)
EXTENDS DecoyDeployment, FiniteSetTheorems, TLAPS

PullRows == [kind : {"deploy", "removal"}, state : {"open", "merged", "closed"},
             files : {"unknown", "approved", "other", "none"}]
SeenRows(n) == [status : Statuses \cup {"none"}, pr : 0..n]
OutRows(n) == [status : Statuses \cup {"none"}, pr : 0..n, tripwires : TripwireStatuses]

\* The names of the state machine.
LEMMA StatusNames ==
  Statuses = {"draft", "awaiting_approval", "preview_stale", "reapproval_required", "approved",
              "deploying", "deployed", "deployed_unmonitored", "verification_failed",
              "failed_activation", "failed", "retiring", "rollback_pending", "expired",
              "rejected", "cancelled", "retired", "rolled_back"}
  BY DEF Statuses, Transitions

\* The endpoints, what they ask for and what they enqueue.
LEMMA EndpointNames ==
  /\ DOMAIN Target = {"submit", "approve", "reject", "deploy", "retire", "rollback"}
  /\ DOMAIN JobOf = {"deploy", "retire", "rollback"}
  /\ Target["submit"] = "awaiting_approval" /\ Target["approve"] = "approved"
  /\ Target["reject"] = "rejected" /\ Target["deploy"] = "deploying"
  /\ Target["retire"] = "retiring" /\ Target["rollback"] = "rollback_pending"
  /\ JobOf["deploy"] = "execute" /\ JobOf["retire"] = "retire" /\ JobOf["rollback"] = "rollback"
  BY DEF Target, JobOf

\* Every endpoint asks for a status and enqueues a job of a type.
LEMMA EndpointTypes ==
  /\ \A o \in DOMAIN Target : Target[o] \in Statuses
  /\ \A o \in DOMAIN JobOf : JobOf[o] \in JobTypes /\ o \in DOMAIN Target
  BY EndpointNames, StatusNames DEF JobTypes

\* The columns a worker keeps in mind are of their types, and stay so as pull requests are added.
LEMMA RowTypes ==
  ASSUME NEW n \in Nat
  PROVE  /\ Unread \in SeenRows(n) /\ NoWrite \in OutRows(n)
         /\ SeenRows(n) \subseteq SeenRows(n + 1) /\ OutRows(n) \subseteq OutRows(n + 1)
         /\ \A r \in OutRows(n), s \in Statuses : [r EXCEPT !.status = s] \in OutRows(n)
         /\ \A r \in OutRows(n), t \in TripwireStatuses : [r EXCEPT !.tripwires = t] \in OutRows(n)
         /\ \A r \in OutRows(n) : [r EXCEPT !.pr = n + 1] \in OutRows(n + 1)
  <1>1. Unread \in SeenRows(n) /\ NoWrite \in OutRows(n)
    BY DEF SeenRows, OutRows, Unread, NoWrite, TripwireStatuses
  <1>2. SeenRows(n) \subseteq SeenRows(n + 1) /\ OutRows(n) \subseteq OutRows(n + 1)
    BY DEF SeenRows, OutRows
  <1>3. /\ \A r \in OutRows(n), s \in Statuses : [r EXCEPT !.status = s] \in OutRows(n)
        /\ \A r \in OutRows(n), t \in TripwireStatuses : [r EXCEPT !.tripwires = t] \in OutRows(n)
    BY DEF OutRows
  <1>4. \A r \in OutRows(n) : [r EXCEPT !.pr = n + 1] \in OutRows(n + 1)
    BY DEF OutRows
  <1>5. QED
    BY <1>1, <1>2, <1>3, <1>4

-----------------------------------------------------------------------------
(* Types. *)

\* TypeOK in the parts that one step changes at a time.
DbTypes ==
  /\ status \in Statuses \cup {"none"} /\ pr \in 0..Len(pulls)
  /\ approver \in Keys \cup {None} /\ tripwires \in TripwireStatuses
  /\ jobs \in [JobTypes -> {"none", "pending", "done", "failed"}]
  /\ closed \in BOOLEAN
GithubTypes == pulls \in Seq(PullRows) /\ moved \in BOOLEAN
StepTypes ==
  /\ pc \in [Actors -> {"idle", "write", "queue", "act", "activate", "remove", "flush"}]
  /\ op \in [Actors -> DOMAIN Target \cup JobTypes \cup {"none"}]
  /\ key \in [Handlers -> Keys \cup {None}]
RowsTypes ==
  /\ seen \in [Workers -> SeenRows(Len(pulls))]
  /\ out \in [Workers -> OutRows(Len(pulls))]
LockTypes ==
  /\ rowLock \in Handlers \cup {None}
  /\ jobLock \in [JobTypes -> Workers \cup {None}]
  /\ tripwireLock \in Workers \cup {None}
  /\ requests \in Nat /\ orphans \in Nat
\* What a transaction that has begun executes.
OpTypes ==
  /\ \A h \in Handlers : pc[h] # "idle" => op[h] \in DOMAIN Target
  /\ \A h \in Handlers : pc[h] = "queue" => op[h] \in DOMAIN JobOf
  /\ \A w \in Workers : pc[w] # "idle" => op[w] \in JobTypes
Types == DbTypes /\ GithubTypes /\ StepTypes /\ RowsTypes /\ LockTypes /\ OpTypes

\* The parts imply the type invariant.
LEMMA TypesAreTypeOK == Types => TypeOK
  BY DEF Types, DbTypes, GithubTypes, StepTypes, RowsTypes, LockTypes, TypeOK, PullRows, SeenRows, OutRows

\* The initial state.
LEMMA TypesInit == Init => Types
  <1> SUFFICES ASSUME Init PROVE Types
    OBVIOUS
  <1>1. pulls \in Seq(PullRows) /\ Len(pulls) = 0
    BY DEF Init
  <1>2. RowsTypes
    BY <1>1, RowTypes DEF Init, RowsTypes
  <1>3. DbTypes
    <2>1. pr \in 0..Len(pulls)
      BY <1>1 DEF Init
    <2>2. closed \in BOOLEAN
      BY DEF Init
    <2>3. QED
      BY <2>1, <2>2 DEF Init, DbTypes, TripwireStatuses
  <1>4. GithubTypes
    BY <1>1 DEF Init, GithubTypes
  <1>5. StepTypes /\ LockTypes
    BY DEF Init, StepTypes, LockTypes
  <1>6. OpTypes
    BY DEF Init, OpTypes, Actors
  <1>7. QED
    BY <1>2, <1>3, <1>4, <1>5, <1>6 DEF Types

\* The end of a transaction.
LEMMA EndTypes ==
  ASSUME Types, NEW x \in Actors, EndTransaction(x), UNCHANGED github, orphans' \in Nat
  PROVE  StepTypes' /\ RowsTypes' /\ LockTypes' /\ GithubTypes' /\ OpTypes'
  <1>1. Len(pulls) \in Nat /\ pulls' = pulls /\ moved' = moved
    BY DEF Types, GithubTypes, github
  <1>2. RowsTypes'
    BY <1>1, RowTypes DEF EndTransaction, Types, RowsTypes
  <1>3. StepTypes'
    BY DEF EndTransaction, Goto, Types, StepTypes
  <1>4. LockTypes'
    BY DEF EndTransaction, Unlocked, Types, LockTypes
  <1>5. OpTypes'
    BY DEF EndTransaction, Goto, Types, StepTypes, OpTypes, Actors
  <1>6. QED
    BY <1>1, <1>2, <1>3, <1>4, <1>5 DEF Types, GithubTypes

\* A job that ends without a write.
LEMMA FinishTypes ==
  ASSUME Types, NEW w \in Workers, NEW r \in {"done", "failed"}, Finish(w, r) PROVE Types'
  <1>1. EndTransaction(w) /\ UNCHANGED <<status, pr, approver, tripwires, github, orphans, closed>>
    BY DEF Finish
  <1>2. jobs' \in [JobTypes -> {"none", "pending", "done", "failed"}]
    BY DEF Finish, Types, DbTypes
  <1>3. w \in Actors
    BY DEF Actors
  <1>4. QED
    BY <1>1, <1>2, <1>3, EndTypes DEF Types, DbTypes, LockTypes, github

\* A worker that decides on a status.
LEMMA SetStatusTypes ==
  ASSUME Types, NEW w \in Workers, NEW s \in Statuses, pc[w] # "idle", SetStatus(w, s) PROVE Types'
  <1>1. UNCHANGED <<status, pr, approver, tripwires, jobs, pulls, moved, op, key, seen, rowLock, jobLock,
                    tripwireLock, requests, orphans, closed>>
    BY DEF SetStatus, db, github, locks
  <1>2. out' = [out EXCEPT ![w] = [out[w] EXCEPT !.status = s]]
    BY DEF SetStatus, Types, RowsTypes
  <1>3. out' \in [Workers -> OutRows(Len(pulls))]
    BY <1>2, RowTypes DEF Types, RowsTypes, GithubTypes
  <1>4. pc' \in [Actors -> {"idle", "write", "queue", "act", "activate", "remove", "flush"}]
    BY DEF SetStatus, Goto, Types, StepTypes
  <1>5. OpTypes'
    BY <1>1, ActorAssumption DEF SetStatus, Goto, Types, StepTypes, OpTypes, Actors
  <1>6. QED
    BY <1>1, <1>3, <1>4, <1>5 DEF Types, DbTypes, GithubTypes, StepTypes, RowsTypes, LockTypes

\* What a new pull request looks like, and what stays where it was.
LEMMA OpenPullShape ==
  ASSUME Types, NEW w \in Workers, NEW kind \in {"deploy", "removal"}, OpenPull(w, kind)
  PROVE  /\ Len(pulls) \in Nat /\ Len(pulls') = Len(pulls) + 1 /\ pulls' \in Seq(PullRows)
         /\ DOMAIN pulls = 1..Len(pulls) /\ DOMAIN pulls' = 1..Len(pulls')
         /\ \A n \in DOMAIN pulls : pulls'[n] = pulls[n]
         /\ pulls'[Len(pulls) + 1].kind = kind /\ pulls'[Len(pulls) + 1].files = "unknown"
         /\ pulls'[Len(pulls) + 1].state = "open"
         /\ out' = [out EXCEPT ![w] = [out[w] EXCEPT !.pr = Len(pulls) + 1]]
         /\ out'[w].pr = Len(pulls) + 1 /\ out'[w].status = out[w].status
         /\ out'[w].tripwires = out[w].tripwires
         /\ pc' = [pc EXCEPT ![w] = "flush"]
         /\ UNCHANGED <<status, pr, approver, tripwires, jobs, moved, op, key, seen, rowLock, jobLock,
                        tripwireLock, requests, orphans, closed>>
  <1> DEFINE new == [kind |-> kind, state |-> "open", files |-> "unknown"]
  <1>1. new \in PullRows /\ new.kind = kind /\ new.files = "unknown" /\ new.state = "open"
    BY DEF PullRows
  <1>2. pulls \in Seq(PullRows) /\ pulls' = Append(pulls, new)
    BY DEF OpenPull, Types, GithubTypes
  <1> HIDE DEF new
  <1>3. /\ Len(pulls) \in Nat /\ Len(pulls') = Len(pulls) + 1 /\ pulls' \in Seq(PullRows)
        /\ DOMAIN pulls = 1..Len(pulls) /\ DOMAIN pulls' = 1..Len(pulls')
        /\ \A n \in DOMAIN pulls : pulls'[n] = pulls[n]
        /\ pulls'[Len(pulls) + 1] = new
    BY <1>1, <1>2
  <1>4. out[w] \in OutRows(Len(pulls)) /\ out' = [out EXCEPT ![w] = [out[w] EXCEPT !.pr = Len(pulls) + 1]]
    BY DEF OpenPull, Types, RowsTypes
  <1>5. out'[w] = [out[w] EXCEPT !.pr = Len(pulls) + 1]
    BY <1>4 DEF Types, RowsTypes
  <1>6. /\ out'[w].pr = Len(pulls) + 1 /\ out'[w].status = out[w].status
        /\ out'[w].tripwires = out[w].tripwires
    BY <1>4, <1>5 DEF OutRows
  <1>7. UNCHANGED <<status, pr, approver, tripwires, jobs, moved, op, key, seen, rowLock, jobLock,
                    tripwireLock, requests, orphans, closed>>
    BY DEF OpenPull, db, locks
  <1>8. QED
    BY <1>1, <1>3, <1>4, <1>6, <1>7 DEF OpenPull, Goto

\* A pull request that is opened.
LEMMA OpenPullTypes ==
  ASSUME Types, NEW w \in Workers, NEW kind \in {"deploy", "removal"}, pc[w] # "idle", OpenPull(w, kind)
  PROVE  Types'
  <1>1. DbTypes' /\ GithubTypes' /\ LockTypes'
    BY OpenPullShape DEF Types, DbTypes, GithubTypes, LockTypes
  <1>2. StepTypes'
    BY OpenPullShape DEF Types, StepTypes
  <1>3. RowsTypes'
    <2>1. seen' \in [Workers -> SeenRows(Len(pulls) + 1)]
      BY OpenPullShape, RowTypes DEF Types, RowsTypes
    <2>2. [out[w] EXCEPT !.pr = Len(pulls) + 1] \in OutRows(Len(pulls) + 1)
      BY OpenPullShape, RowTypes DEF Types, RowsTypes
    <2>3. out \in [Workers -> OutRows(Len(pulls) + 1)]
      BY OpenPullShape, RowTypes DEF Types, RowsTypes
    <2>4. out' \in [Workers -> OutRows(Len(pulls) + 1)]
      BY <2>2, <2>3, OpenPullShape
    <2>5. QED
      BY <2>1, <2>4, OpenPullShape DEF RowsTypes
  <1>4. OpTypes'
    BY OpenPullShape, ActorAssumption DEF Types, StepTypes, OpTypes, Actors
  <1>5. QED
    BY <1>1, <1>2, <1>3, <1>4 DEF Types

\* The handlers.
LEMMA HandlerTypes ==
  ASSUME Types, NEW h \in Handlers,
         \/ \E o \in DOMAIN Target, k \in Keys : Load(h, o, k)
         \/ Decide(h) \/ WriteStatus(h) \/ Requeue(h)
  PROVE  Types'
  <1>0. h \in Actors /\ h \notin Workers
    BY ActorAssumption DEF Actors
  <1>1. ASSUME NEW o \in DOMAIN Target, NEW k \in Keys, Load(h, o, k) PROVE Types'
    <2>1. UNCHANGED <<status, pr, approver, tripwires, jobs, pulls, moved, seen, out, rowLock, jobLock,
                      tripwireLock, orphans, closed>> /\ requests' = requests + 1
      BY <1>1 DEF Load, db, github, locks
    <2>2. StepTypes' /\ OpTypes'
      BY <1>0, <1>1 DEF Load, Goto, Types, StepTypes, OpTypes, Actors
    <2>3. QED
      BY <2>1, <2>2 DEF Types, DbTypes, GithubTypes, RowsTypes, LockTypes
  <1>2. CASE Decide(h)
    <2>1. /\ EndTransaction(h) /\ UNCHANGED <<pr, tripwires, jobs, pulls, moved, orphans>>
          /\ pc[h] = "write"
          /\ status' = Target[op[h]] /\ approver' = IF op[h] = "approve" THEN key[h] ELSE approver
      BY <1>2 DEF Decide, github
    <2>2. op[h] \in DOMAIN Target
      BY <2>1 DEF Types, OpTypes
    <2>3. closed' \in BOOLEAN
      BY <1>2 DEF Decide
    <2>4. DbTypes'
      BY <2>1, <2>2, <2>3, EndpointTypes DEF Types, DbTypes, StepTypes
    <2>5. QED
      BY <1>0, <2>1, <2>4, EndTypes DEF Types, LockTypes, github
  <1>3. CASE WriteStatus(h)
    <2>1. UNCHANGED <<status, pr, approver, tripwires, jobs, pulls, moved, op, key, seen, out, jobLock,
                      tripwireLock, requests, orphans, closed>> /\ rowLock' = h
      BY <1>3 DEF WriteStatus, db, github
    <2>2. StepTypes' /\ OpTypes'
      BY <1>0, <1>3, <2>1 DEF WriteStatus, Goto, Types, StepTypes, OpTypes, Actors
    <2>3. QED
      BY <2>1, <2>2 DEF Types, DbTypes, GithubTypes, RowsTypes, LockTypes
  <1>4. CASE Requeue(h)
    <2>1. /\ EndTransaction(h) /\ UNCHANGED <<pr, approver, tripwires, pulls, moved, orphans, closed>>
          /\ pc[h] = "queue"
          /\ status' = Target[op[h]] /\ jobs' = [jobs EXCEPT ![JobOf[op[h]]] = "pending"]
      BY <1>4 DEF Requeue, github
    <2>2. op[h] \in DOMAIN JobOf /\ op[h] \in DOMAIN Target
      BY <2>1 DEF Types, OpTypes
    <2>3. DbTypes'
      BY <2>1, <2>2, EndpointTypes DEF Types, DbTypes
    <2>4. QED
      BY <1>0, <2>1, <2>3, EndTypes DEF Types, LockTypes, github
  <1>5. QED
    BY <1>1, <1>2, <1>3, <1>4

\* What the workers decide on: a job that ends, a status, or a pull request.
LEMMA WorkerTypes ==
  ASSUME Types, NEW w \in Workers,
         Execute(w) \/ VerifyWait(w) \/ VerifyClosed(w) \/ VerifyMerged(w) \/ Remove(w)
  PROVE  Types'
  <1>1. pc[w] # "idle"
    BY DEF Execute, VerifyWait, VerifyClosed, VerifyMerged, Remove
  <1>2. \/ \E r \in {"done", "failed"} : Finish(w, r)
        \/ \E s \in {"failed", "cancelled", "verification_failed", "retired", "rolled_back"} : SetStatus(w, s)
        \/ \E kind \in {"deploy", "removal"} : OpenPull(w, kind)
        \/ PassVerification(w)
    BY DEF Execute, VerifyWait, VerifyClosed, VerifyMerged, Remove
  <1>3. CASE PassVerification(w)
    <2>1. UNCHANGED <<status, pr, approver, tripwires, jobs, pulls, moved, op, key, seen, out, rowLock, jobLock,
                      tripwireLock, requests, orphans, closed>>
      BY <1>3 DEF PassVerification, db, github, locks
    <2>2. StepTypes' /\ OpTypes'
      BY <1>1, <1>3, <2>1, ActorAssumption DEF PassVerification, Goto, Types, StepTypes, OpTypes, Actors
    <2>3. QED
      BY <2>1, <2>2 DEF Types, DbTypes, GithubTypes, RowsTypes, LockTypes
  <1>4. QED
    BY <1>1, <1>2, <1>3, FinishTypes, SetStatusTypes, OpenPullTypes, StatusNames

\* A worker that claims a job.
LEMMA ClaimTypes ==
  ASSUME Types, NEW w \in Workers, NEW t \in JobTypes, Claim(w, t) PROVE Types'
  <1>1. UNCHANGED <<status, pr, approver, tripwires, jobs, pulls, moved, key, out, rowLock, tripwireLock,
                    requests, orphans, closed>>
    BY DEF Claim, db, github
  <1>2. StepTypes' /\ OpTypes'
    BY <1>1, ActorAssumption DEF Claim, Goto, Types, StepTypes, OpTypes, Actors
  <1>3. [status |-> status, pr |-> pr] \in SeenRows(Len(pulls))
    BY DEF Types, DbTypes, SeenRows
  <1>4. RowsTypes'
    BY <1>1, <1>3 DEF Claim, Types, RowsTypes
  <1>5. LockTypes'
    BY <1>1 DEF Claim, Types, LockTypes
  <1>6. QED
    BY <1>1, <1>2, <1>4, <1>5 DEF Types, DbTypes, GithubTypes

\* What Activate and Disable write: the columns of the worker's own row.
LEMMA TripwireWrites ==
  ASSUME Types, NEW w \in Workers
  PROVE  /\ Activate(w) =>
              /\ out'[w].pr = out[w].pr
              /\ out'[w].tripwires = IF tripwires = "none" THEN "active" ELSE out[w].tripwires
              /\ out'[w].status = IF tripwires \in {"none", "active"} THEN "deployed" ELSE "deployed_unmonitored"
              /\ out' = [out EXCEPT ![w] = out'[w]] /\ out'[w] \in OutRows(Len(pulls))
         /\ Disable(w) /\ pc'[w] = "remove" =>
              /\ out'[w].pr = out[w].pr /\ out'[w].status = out[w].status
              /\ out'[w].tripwires = IF tripwires # "none" THEN SwitchedOff[op[w]] ELSE out[w].tripwires
              /\ SwitchedOff[op[w]] \in {"retired", "disabled"}
              /\ out' = [out EXCEPT ![w] = out'[w]] /\ out'[w] \in OutRows(Len(pulls))
              /\ seen[w].status = Expected[op[w]]
  <1>1. out[w] \in OutRows(Len(pulls)) /\ DOMAIN out = Workers
    BY DEF Types, RowsTypes
  <1>2. ASSUME Activate(w)
        PROVE  /\ out'[w].pr = out[w].pr
               /\ out'[w].tripwires = IF tripwires = "none" THEN "active" ELSE out[w].tripwires
               /\ out'[w].status = IF tripwires \in {"none", "active"} THEN "deployed" ELSE "deployed_unmonitored"
               /\ out' = [out EXCEPT ![w] = out'[w]] /\ out'[w] \in OutRows(Len(pulls))
    <2> DEFINE t == IF tripwires = "none" THEN "active" ELSE out[w].tripwires
               s == IF tripwires \in {"none", "active"} THEN "deployed" ELSE "deployed_unmonitored"
               mid == [out[w] EXCEPT !.tripwires = t]
               new == [mid EXCEPT !.status = s]
    <2>1. out' = [out EXCEPT ![w] = new]
      BY <1>1, <1>2 DEF Activate
    <2>2. t \in TripwireStatuses /\ s \in Statuses
      BY <1>1, StatusNames DEF OutRows, TripwireStatuses
    <2>3. mid \in OutRows(Len(pulls)) /\ mid.pr = out[w].pr /\ mid.tripwires = t
      BY <1>1, <2>2 DEF OutRows
    <2>4. new \in OutRows(Len(pulls)) /\ new.pr = out[w].pr /\ new.tripwires = t /\ new.status = s
      BY <2>2, <2>3 DEF OutRows
    <2> HIDE DEF new
    <2>5. out'[w] = new
      BY <1>1, <2>1
    <2>6. QED
      BY <2>1, <2>4, <2>5
  <1>3. ASSUME Disable(w), pc'[w] = "remove"
        PROVE  /\ out'[w].pr = out[w].pr /\ out'[w].status = out[w].status
               /\ out'[w].tripwires = IF tripwires # "none" THEN SwitchedOff[op[w]] ELSE out[w].tripwires
               /\ SwitchedOff[op[w]] \in {"retired", "disabled"}
               /\ out' = [out EXCEPT ![w] = out'[w]] /\ out'[w] \in OutRows(Len(pulls))
               /\ seen[w].status = Expected[op[w]]
    <2> DEFINE t == IF tripwires # "none" THEN SwitchedOff[op[w]] ELSE out[w].tripwires
               new == [out[w] EXCEPT !.tripwires = t]
    <2>1. ~Finish(w, "done")
      BY <1>3 DEF Finish, EndTransaction, Goto, Types, StepTypes, Actors
    <2>2. out' = [out EXCEPT ![w] = new] /\ seen[w].status = Expected[op[w]]
      BY <1>1, <1>3, <2>1 DEF Disable
    <2>3. SwitchedOff[op[w]] \in {"retired", "disabled"}
      BY <1>3 DEF Disable, SwitchedOff, Removals
    <2>4. t \in TripwireStatuses
      BY <1>1, <2>3 DEF OutRows, TripwireStatuses
    <2>5. new \in OutRows(Len(pulls)) /\ new.pr = out[w].pr /\ new.tripwires = t /\ new.status = out[w].status
      BY <1>1, <2>4 DEF OutRows
    <2> HIDE DEF new
    <2>6. out'[w] = new
      BY <1>1, <2>2
    <2>7. QED
      BY <2>2, <2>3, <2>5, <2>6
  <1>4. QED
    BY <1>2, <1>3

\* A worker that writes the rows of the tripwires.
LEMMA TripwireTypes ==
  ASSUME Types, NEW w \in Workers, Activate(w) \/ Disable(w) PROVE Types'
  <1>0. w \in Actors /\ w \notin Handlers
    BY ActorAssumption DEF Actors
  <1>1. CASE Disable(w) /\ Finish(w, "done")
    BY <1>1, FinishTypes
  <1>2. CASE Activate(w) \/ (Disable(w) /\ ~Finish(w, "done"))
    <2>1. /\ UNCHANGED <<status, pr, approver, tripwires, jobs, pulls, moved, op, key, seen, rowLock, jobLock,
                         requests, orphans, closed>>
          /\ tripwireLock' \in {tripwireLock, w} /\ pc[w] # "idle"
          /\ pc' = [pc EXCEPT ![w] = IF Activate(w) THEN "flush" ELSE "remove"]
      BY <1>2 DEF Activate, Disable, Goto, db, github
    <2>2. StepTypes' /\ OpTypes'
      BY <1>0, <2>1 DEF Types, StepTypes, OpTypes, Actors
    <2>3. pc'[w] = IF Activate(w) THEN "flush" ELSE "remove"
      BY <1>0, <2>1 DEF Types, StepTypes
    <2>4. out' = [out EXCEPT ![w] = out'[w]] /\ out'[w] \in OutRows(Len(pulls))
      BY <1>2, <2>3, TripwireWrites
    <2>5. out' \in [Workers -> OutRows(Len(pulls))]
      BY <2>4 DEF Types, RowsTypes
    <2>6. QED
      BY <2>1, <2>2, <2>5 DEF Types, DbTypes, GithubTypes, RowsTypes, LockTypes
  <1>3. QED
    BY <1>1, <1>2

\* The commit of a worker.
LEMMA FlushTypes ==
  ASSUME Types, NEW w \in Workers, Flush(w) PROVE Types'
  <1>1. w \in Actors /\ op[w] \in JobTypes
    BY DEF Actors, Flush, Types, OpTypes
  <1>2. EndTransaction(w) /\ UNCHANGED <<approver, pulls, moved, orphans>>
    BY DEF Flush, github
  <1>3. out[w] \in OutRows(Len(pulls))
    BY DEF Types, RowsTypes
  <1>4. closed' \in BOOLEAN
    BY DEF Flush
  <1>5. jobs' \in [JobTypes -> {"none", "pending", "done", "failed"}]
    BY <1>1 DEF Flush, Types, DbTypes
  <1>6. status' \in Statuses \cup {"none"} /\ pr' \in 0..Len(pulls) /\ tripwires' \in TripwireStatuses
    BY <1>3 DEF Flush, Types, DbTypes, OutRows
  <1>7. DbTypes'
    BY <1>2, <1>4, <1>5, <1>6 DEF Types, DbTypes
  <1>8. QED
    BY <1>1, <1>2, <1>7, EndTypes DEF Types, LockTypes, github

\* A transaction that is lost.
LEMMA RollbackTypes ==
  ASSUME Types, NEW x \in Actors, Rollback(x) PROVE Types'
  <1>1. EndTransaction(x) /\ UNCHANGED <<status, pr, approver, tripwires, jobs, pulls, moved, closed>>
    BY DEF Rollback, db, github
  <1>2. orphans' \in Nat
    BY DEF Rollback, Types, LockTypes
  <1>3. QED
    BY <1>1, <1>2, EndTypes DEF Types, DbTypes, github

\* What a maintainer's decision leaves of the pull requests.
LEMMA PullShape ==
  ASSUME Types, NEW n, MergePull(n) \/ ClosePull(n)
  PROVE  /\ pulls' \in Seq(PullRows) /\ Len(pulls') = Len(pulls) /\ Len(pulls) \in Nat
         /\ n \in DOMAIN pulls /\ pulls[n].state = "open"
         /\ DOMAIN pulls' = DOMAIN pulls /\ DOMAIN pulls = 1..Len(pulls)
         /\ \A m \in DOMAIN pulls : m # n => pulls'[m] = pulls[m]
         /\ pulls'[n].kind = pulls[n].kind
         /\ MergePull(n) => /\ pulls'[n].state = "merged"
                            /\ pulls'[n].files \in
                                 {IF pulls[n].kind = "deploy" THEN "approved" ELSE "none", "other"}
         /\ ClosePull(n) => pulls'[n].state = "closed" /\ pulls'[n].files = pulls[n].files
         /\ UNCHANGED <<status, pr, approver, tripwires, jobs, pc, op, key, seen, out, rowLock, jobLock,
                        tripwireLock, requests, orphans, closed>>
  <1>1. n \in DOMAIN pulls /\ pulls[n].state = "open" /\ pulls \in Seq(PullRows)
    BY DEF MergePull, ClosePull, Types, GithubTypes
  <1>2. Len(pulls) \in Nat /\ DOMAIN pulls = 1..Len(pulls) /\ pulls[n] \in PullRows
    BY <1>1
  <1>3. PICK new \in PullRows :
          /\ pulls' = [pulls EXCEPT ![n] = new] /\ new.kind = pulls[n].kind
          /\ MergePull(n) => /\ new.state = "merged"
                             /\ new.files \in {IF pulls[n].kind = "deploy" THEN "approved" ELSE "none", "other"}
          /\ ClosePull(n) => new.state = "closed" /\ new.files = pulls[n].files
    <2>1. ASSUME MergePull(n), ~ClosePull(n)
          PROVE \E new \in PullRows :
                  /\ pulls' = [pulls EXCEPT ![n] = new] /\ new.kind = pulls[n].kind
                  /\ new.state = "merged"
                  /\ new.files \in {IF pulls[n].kind = "deploy" THEN "approved" ELSE "none", "other"}
      <3>1. PICK f \in {IF pulls[n].kind = "deploy" THEN "approved" ELSE "none", "other"} :
               pulls' = [pulls EXCEPT ![n].state = "merged", ![n].files = f]
        BY <2>1 DEF MergePull
      <3> DEFINE mid == [pulls[n] EXCEPT !.state = "merged"]
                 new == [mid EXCEPT !.files = f]
      <3>2. pulls' = [pulls EXCEPT ![n] = new]
        BY <1>1, <3>1
      <3>3. f \in {"approved", "none", "other"}
        OBVIOUS
      <3>4. mid \in PullRows /\ mid.state = "merged" /\ mid.kind = pulls[n].kind
        BY <1>2 DEF PullRows
      <3>5. new \in PullRows /\ new.state = "merged" /\ new.kind = pulls[n].kind /\ new.files = f
        BY <3>3, <3>4 DEF PullRows
      <3> HIDE DEF new
      <3>6. QED
        BY <3>2, <3>5
    <2>2. ASSUME ClosePull(n)
          PROVE \E new \in PullRows :
                  /\ pulls' = [pulls EXCEPT ![n] = new] /\ new.kind = pulls[n].kind
                  /\ new.state = "closed" /\ new.files = pulls[n].files
      <3> DEFINE new == [pulls[n] EXCEPT !.state = "closed"]
      <3>1. pulls' = [pulls EXCEPT ![n] = new]
        BY <2>2 DEF ClosePull
      <3>2. new \in PullRows /\ new.state = "closed" /\ new.kind = pulls[n].kind /\ new.files = pulls[n].files
        BY <1>2 DEF PullRows
      <3> HIDE DEF new
      <3>3. QED
        BY <3>1, <3>2
    <2>3. ~(MergePull(n) /\ ClosePull(n))
      <3>1. SUFFICES ASSUME MergePull(n), ClosePull(n) PROVE FALSE
        OBVIOUS
      <3>2. pulls'[n].state = "closed"
        BY <1>1, <1>2, <3>1 DEF ClosePull, PullRows
      <3>3. PICK f : pulls' = [pulls EXCEPT ![n].state = "merged", ![n].files = f]
        BY <3>1 DEF MergePull
      <3>4. pulls'[n].state = "merged"
        BY <1>1, <1>2, <3>3 DEF PullRows
      <3>5. QED
        BY <3>2, <3>4
    <2>4. QED
      BY <2>1, <2>2, <2>3
  <1>4. pulls' \in Seq(PullRows) /\ Len(pulls') = Len(pulls) /\ DOMAIN pulls' = DOMAIN pulls
    BY <1>1, <1>2, <1>3
  <1>5. pulls'[n] = new /\ \A m \in DOMAIN pulls : m # n => pulls'[m] = pulls[m]
    BY <1>1, <1>2, <1>3
  <1>6. UNCHANGED <<status, pr, approver, tripwires, jobs, pc, op, key, seen, out, rowLock, jobLock,
                    tripwireLock, requests, orphans, closed>>
    BY DEF MergePull, ClosePull, db, locks
  <1>7. QED
    BY <1>1, <1>2, <1>3, <1>4, <1>5, <1>6

\* The world outside.
LEMMA OutsideTypes ==
  ASSUME Types, Create \/ EnqueueVerify \/ PushBase \/ \E n \in 1..MaxPulls : MergePull(n) \/ ClosePull(n)
  PROVE  Types'
  <1>1. CASE Create
    BY <1>1, StatusNames DEF Create, github, locks, Types, DbTypes, GithubTypes, StepTypes, RowsTypes, LockTypes,
       OpTypes
  <1>2. CASE EnqueueVerify
    BY <1>2 DEF EnqueueVerify, github, locks, Types, DbTypes, GithubTypes, StepTypes, RowsTypes, LockTypes,
       OpTypes, JobTypes
  <1>3. CASE PushBase
    <2>1. moved' \in BOOLEAN
      BY <1>3 DEF PushBase
    <2>2. QED
      BY <1>3, <2>1 DEF PushBase, db, locks, Types, DbTypes, GithubTypes, StepTypes, RowsTypes, LockTypes, OpTypes
  <1>4. ASSUME NEW n \in 1..MaxPulls, MergePull(n) \/ ClosePull(n) PROVE Types'
    <2>1. moved' \in BOOLEAN
      BY <1>4 DEF MergePull, ClosePull, Types, GithubTypes
    <2>2. QED
      BY <1>4, <2>1, PullShape DEF Types, DbTypes, GithubTypes, StepTypes, RowsTypes, LockTypes, OpTypes
  <1>5. QED
    BY <1>1, <1>2, <1>3, <1>4

\* Every step keeps the types.
LEMMA TypesStep == Types /\ [Next]_vars => Types'
  <1> SUFFICES ASSUME Types, [Next]_vars PROVE Types'
    OBVIOUS
  <1>1. CASE UNCHANGED vars
    BY <1>1 DEF vars, db, github, locks, Types, DbTypes, GithubTypes, StepTypes, RowsTypes, LockTypes, OpTypes
  <1>2. ASSUME NEW x \in Actors, Crash(x) \/ DeadlockVictim(x) PROVE Types'
    BY <1>2, RollbackTypes DEF Crash, DeadlockVictim
  <1>3. QED
    BY <1>1, <1>2, HandlerTypes, ClaimTypes, WorkerTypes, TripwireTypes, FlushTypes, OutsideTypes DEF Next

\* Rows, pull requests, transactions and locks have their types, for every number of them.
THEOREM DeploymentTypes == Spec => []TypeOK
  BY TypesInit, TypesStep, TypesAreTypeOK, PTL DEF Spec

-----------------------------------------------------------------------------
(* The inductive invariants. *)

\* What the transaction of a worker holds, and what it has not decided yet.
Held ==
  /\ \A w \in Workers : pc[w] # "idle" => jobLock[op[w]] = w
  /\ \A w \in Workers : pc[w] = "idle" => op[w] = "none"
  /\ \A w \in Workers : pc[w] = "remove" => op[w] \in Removals
  /\ \A w \in Workers : out[w].tripwires # "none" => tripwireLock = w
  /\ \A w \in Workers : pc[w] # "flush" => out[w].pr = 0 /\ out[w].status = "none"
  /\ \A w \in Workers : pc[w] \notin {"flush", "remove"} => out[w].tripwires = "none"

\* The statuses that are reached only after an approval.
Licensed == Statuses \ {"draft", "awaiting_approval", "preview_stale", "reapproval_required",
                        "rejected", "cancelled"}

Approved == approver \in Keys \ {Requester}

\* A licensed status, in the row or in somebody's hands, stands for an approval.
ApprovalInv ==
  /\ status \in Licensed => Approved
  /\ \A h \in Handlers : pc[h] # "idle" /\ op[h] = "approve" => key[h] \in Keys \ {Requester}
  /\ \A h \in Handlers : op[h] \in DOMAIN JobOf => Approved
  /\ \A w \in Workers : seen[w].status \in Licensed \/ out[w].status \in Licensed => Approved
  /\ \A w \in Workers : pc[w] \in {"activate", "remove"} => Approved
  /\ PullIsApproved

\* A pull request with the approved decoys that was merged as it was.
Passed(n) ==
  /\ n \in DOMAIN pulls /\ pulls[n].kind = "deploy"
  /\ pulls[n].state = "merged" /\ pulls[n].files = "approved"

\* A pull request that cannot pass a verification any more.
Barren(n) ==
  /\ n \in DOMAIN pulls
  /\ pulls[n].kind = "removal" \/ (pulls[n].state = "merged" /\ pulls[n].files # "approved")

\* What is merged follows from what was opened.
PullsAreKind ==
  \A n \in DOMAIN pulls :
    /\ pulls[n].files = "approved" => pulls[n].kind = "deploy"
    /\ pulls[n].files = "none" => pulls[n].kind = "removal"

\* A worker activates what has passed, and until it commits there are no tripwires and the
\* pull request is the recorded one.
ActivationInv ==
  /\ PullsAreKind
  /\ \A w \in Workers : pc[w] = "activate" => Passed(seen[w].pr)
  /\ \A w \in Workers : out[w].tripwires = "active" =>
       Passed(seen[w].pr) /\ pr = seen[w].pr /\ tripwires = "none" /\ out[w].pr = 0
  /\ \A w \in Workers : out[w].tripwires = "active" => out[w].status = "deployed"
  /\ tripwires # "none" => pr # 0
  /\ MonitoringVerified

\* The statuses from which a removal starts, or that follow one.
Past == {"deployed", "deployed_unmonitored", "verification_failed", "failed_activation", "expired",
         "retiring", "rollback_pending", "retired", "rolled_back"}

\* A verification has come to its conclusion: there are tripwires, or there never will be.
Concluded == pr # 0 /\ (tripwires # "none" \/ Barren(pr))

\* The recorded pull request is the deployment's one until it is that of a removal.
RecordInv ==
  /\ \A w \in Workers : seen[w].pr # 0 => pr # 0 /\ (seen[w].pr = pr \/ Barren(pr))
  /\ \A w \in Workers : op[w] = "execute" /\ seen[w].pr = 0 => pr = 0
  /\ \A w \in Workers : out[w].pr # 0 =>
       \/ pulls[out[w].pr].kind = "removal" /\ op[w] \in Removals /\ Concluded
       \/ op[w] = "execute" /\ seen[w].pr = 0 /\ pulls[out[w].pr].kind = "deploy"
            /\ out[w].tripwires = "none"
  /\ tripwires = "none" /\ Barren(pr) => \A w \in Workers : seen[w].pr # 0 => Barren(seen[w].pr)

\* A status past the deployment stands for a conclusion.
PastInv ==
  /\ status \in Past => Concluded
  /\ \A h \in Handlers : op[h] \in {"retire", "rollback"} => Concluded
  /\ \A w \in Workers : seen[w].status \in Past => Concluded
  /\ \A w \in Workers : out[w].status \in Past => Concluded \/ out[w].tripwires = "active"
  /\ \A w \in Workers : pc[w] = "remove" \/ out[w].tripwires \in {"retired", "disabled"} => Concluded

Silent == {"retired", "rolled_back"}

\* A removal that is recorded, or about to be, has switched the tripwires off, or found none.
SilenceInv ==
  /\ pr # 0 /\ pulls[pr].kind = "removal" => tripwires # "active"
  /\ \A w \in Workers : seen[w].pr # 0 /\ pulls[seen[w].pr].kind = "removal" => tripwires # "active"
  /\ \A w \in Workers : pc[w] = "remove" \/ (out[w].pr # 0 /\ op[w] \in Removals) =>
       out[w].tripwires \in {"retired", "disabled"} \/ (out[w].tripwires = "none" /\ tripwires # "active")
  /\ \A w \in Workers : out[w].status \in Silent => tripwires # "active" /\ Concluded
                                                  /\ out[w].tripwires = "none"
  /\ RetiredIsSilent

\* The executions that have opened a pull request and not committed it.
Opening == {w \in Workers : op[w] = "execute" /\ out[w].pr # 0}

\* Every pull request that adds decoys is the recorded one, the one of the execution that is
\* under way, or the orphan of a transaction that was rolled back.
OrphanInv == Cardinality(DeployPulls) <= orphans + IF pr # 0 \/ Opening # {} THEN 1 ELSE 0

-----------------------------------------------------------------------------
(* What the steps do, as far as the invariants can tell. *)

\* A step of x changes nobody else's transaction and takes nobody else's locks.
Alone(x) ==
  /\ \A y \in Actors : y # x => pc'[y] = pc[y] /\ op'[y] = op[y]
  /\ \A h \in Handlers : h # x => key'[h] = key[h]
  /\ \A w \in Workers : w # x => seen'[w] = seen[w] /\ out'[w] = out[w]
  /\ \A w \in Workers : w # x => \A t \in JobTypes : jobLock[t] = w => jobLock'[t] = w
  /\ \A w \in Workers : w # x /\ tripwireLock = w => tripwireLock' = w

\* The transaction of x is over.
Gone(x) ==
  /\ pc'[x] = "idle" /\ op'[x] = "none"
  /\ x \in Workers => /\ seen'[x].status = "none" /\ seen'[x].pr = 0
                      /\ out'[x].status = "none" /\ out'[x].pr = 0 /\ out'[x].tripwires = "none"

\* The end of a transaction.
LEMMA EndShape ==
  ASSUME Types, NEW x \in Actors, EndTransaction(x) PROVE Alone(x) /\ Gone(x)
  <1>1. Alone(x)
    BY ActorAssumption DEF EndTransaction, Goto, Unlocked, Alone, Types, StepTypes
  <1>2. pc'[x] = "idle" /\ op'[x] = "none"
    BY DEF EndTransaction, Goto, Types, StepTypes
  <1>3. x \in Workers => seen'[x] = Unread /\ out'[x] = NoWrite
    BY DEF EndTransaction
  <1>4. QED
    BY <1>1, <1>2, <1>3 DEF Gone, Unread, NoWrite

\* An endpoint that has checked its transition.
LEMMA LoadShape ==
  ASSUME Types, NEW h \in Handlers, NEW o \in DOMAIN Target, NEW k \in Keys, Load(h, o, k)
  PROVE  /\ Alone(h) /\ pc'[h] = "write" /\ op'[h] = o /\ key'[h] = k
         /\ CanTransition(status, Target[o]) /\ (o = "approve" => k # Requester)
         /\ UNCHANGED <<status, pr, approver, tripwires, pulls, orphans, seen, out>>
  BY DEF Load, Goto, Alone, Types, StepTypes, Actors, db, github, locks

\* A handler that has written the status and waits for the job.
LEMMA WriteShape ==
  ASSUME Types, NEW h \in Handlers, WriteStatus(h)
  PROVE  /\ Alone(h) /\ pc[h] = "write" /\ op[h] \in DOMAIN JobOf /\ pc'[h] = "queue" /\ op'[h] = op[h] /\ key'[h] = key[h]
         /\ UNCHANGED <<status, pr, approver, tripwires, pulls, orphans, seen, out>>
  BY DEF WriteStatus, Goto, Alone, Types, StepTypes, Actors, db, github

\* The commit of a handler.
LEMMA CommitShape ==
  ASSUME Types, NEW h \in Handlers, Decide(h) \/ Requeue(h)
  PROVE  /\ Alone(h) /\ Gone(h) /\ pc[h] # "idle" /\ op[h] \in DOMAIN Target /\ status' = Target[op[h]]
         /\ approver' = IF op[h] = "approve" THEN key[h] ELSE approver
         /\ UNCHANGED <<pr, tripwires, pulls, orphans>>
  <1>1. EndTransaction(h) /\ h \in Actors
    BY DEF Decide, Requeue, Actors
  <1>2. pc[h] # "idle" /\ (Requeue(h) => pc[h] = "queue")
    BY DEF Decide, Requeue
  <1>3. op[h] \in DOMAIN Target /\ (Requeue(h) => op[h] # "approve")
    BY <1>2, EndpointNames DEF Types, OpTypes
  <1>4. /\ status' = Target[op[h]] /\ UNCHANGED <<pr, tripwires, pulls, orphans>>
        /\ approver' = IF op[h] = "approve" THEN key[h] ELSE approver
    BY <1>3 DEF Decide, Requeue, github
  <1>5. QED
    BY <1>1, <1>2, <1>3, <1>4, EndShape

\* A worker that has claimed a job and loaded the deployment.
LEMMA ClaimShape ==
  ASSUME Types, NEW w \in Workers, NEW t \in JobTypes, Claim(w, t)
  PROVE  /\ Alone(w) /\ pc[w] = "idle" /\ pc'[w] = "act" /\ op'[w] = t /\ jobLock[t] = None /\ jobLock'[t] = w
         /\ seen'[w].status = status /\ seen'[w].pr = pr /\ out'[w] = out[w]
         /\ UNCHANGED <<status, pr, approver, tripwires, pulls, orphans, tripwireLock>>
  <1>1. seen'[w] = [status |-> status, pr |-> pr]
    BY DEF Claim, Types, RowsTypes
  <1>2. w \in Actors
    BY DEF Actors
  <1>3. Alone(w)
    BY <1>2, ActorAssumption DEF Claim, Goto, Alone, Types, StepTypes, RowsTypes, LockTypes, db, github
  <1>4. pc[w] = "idle" /\ pc'[w] = "act" /\ op'[w] = t /\ jobLock[t] = None /\ jobLock'[t] = w /\ out'[w] = out[w]
    BY <1>2 DEF Claim, Goto, Types, StepTypes, LockTypes
  <1>5. UNCHANGED <<status, pr, approver, tripwires, pulls, orphans, tripwireLock>>
    BY DEF Claim, db, github
  <1>6. QED
    BY <1>1, <1>3, <1>4, <1>5

\* A worker that goes on with its job.
GoesOn(w) == Alone(w) /\ op'[w] = op[w] /\ seen' = seen /\ jobLock' = jobLock
             /\ UNCHANGED <<status, pr, approver, tripwires, orphans>>

\* It has decided on a status.
LEMMA SetStatusShape ==
  ASSUME Types, NEW w \in Workers, NEW s, SetStatus(w, s)
  PROVE  /\ GoesOn(w) /\ pc'[w] = "flush" /\ pulls' = pulls /\ tripwireLock' = tripwireLock
         /\ out'[w].status = s /\ out'[w].pr = out[w].pr /\ out'[w].tripwires = out[w].tripwires
  <1>1. w \in Actors
    BY DEF Actors
  <1>2. out[w] \in OutRows(Len(pulls)) /\ out' = [out EXCEPT ![w] = [out[w] EXCEPT !.status = s]]
    BY DEF SetStatus, Types, RowsTypes
  <1>3. out'[w] = [out[w] EXCEPT !.status = s] /\ \A v \in Workers : v # w => out'[v] = out[v]
    BY <1>2 DEF Types, RowsTypes
  <1>4. out'[w].status = s /\ out'[w].pr = out[w].pr /\ out'[w].tripwires = out[w].tripwires
    BY <1>2, <1>3 DEF OutRows
  <1>5. UNCHANGED <<status, pr, approver, tripwires, pulls, op, key, seen, jobLock, tripwireLock, orphans>>
    BY DEF SetStatus, db, github, locks
  <1>6. pc' = [pc EXCEPT ![w] = "flush"]
    BY DEF SetStatus, Goto
  <1>7. QED
    BY <1>1, <1>3, <1>4, <1>5, <1>6 DEF GoesOn, Alone, Types, StepTypes

\* It has opened a pull request.
LEMMA OpenPullGoesOn ==
  ASSUME Types, NEW w \in Workers, NEW kind \in {"deploy", "removal"}, OpenPull(w, kind)
  PROVE  GoesOn(w) /\ pc'[w] = "flush" /\ tripwireLock' = tripwireLock
  <1>1. w \in Actors
    BY DEF Actors
  <1>2. \A v \in Workers : v # w => out'[v] = out[v]
    BY OpenPullShape DEF Types, RowsTypes
  <1>3. QED
    BY <1>1, <1>2, OpenPullShape DEF GoesOn, Alone, Types, StepTypes

\* Its verification has passed.
LEMMA PassShape ==
  ASSUME Types, NEW w \in Workers, PassVerification(w)
  PROVE  GoesOn(w) /\ pc'[w] = "activate" /\ out' = out /\ UNCHANGED <<pulls, tripwireLock>>
  BY DEF PassVerification, Goto, GoesOn, Alone, Types, StepTypes, Actors, db, github, locks

\* It has inserted the tripwires, or counted them.
LEMMA ActivateShape ==
  ASSUME Types, NEW w \in Workers, Activate(w)
  PROVE  /\ GoesOn(w) /\ pc[w] = "activate" /\ pc'[w] = "flush" /\ pulls' = pulls
         /\ tripwires = "none" => tripwireLock \in {None, w} /\ tripwireLock' = w
         /\ tripwires # "none" => tripwireLock' = tripwireLock
         /\ out'[w].pr = out[w].pr
         /\ out'[w].tripwires = IF tripwires = "none" THEN "active" ELSE out[w].tripwires
         /\ out'[w].status = IF tripwires \in {"none", "active"} THEN "deployed" ELSE "deployed_unmonitored"
  <1>1. w \in Actors
    BY DEF Actors
  <1>2. \A v \in Workers : v # w => out'[v] = out[v]
    BY TripwireWrites DEF Types, RowsTypes
  <1>3. /\ UNCHANGED <<status, pr, approver, tripwires, pulls, op, key, seen, jobLock, orphans>>
        /\ tripwires = "none" => tripwireLock \in {None, w} /\ tripwireLock' = w
        /\ tripwires # "none" => tripwireLock' = tripwireLock
        /\ pc[w] = "activate" /\ pc' = [pc EXCEPT ![w] = "flush"]
    BY DEF Activate, Goto, Free, db, github
  <1>4. GoesOn(w) /\ pc'[w] = "flush"
    BY <1>1, <1>2, <1>3, ActorAssumption DEF GoesOn, Alone, Types, StepTypes
  <1>5. QED
    BY <1>3, <1>4, TripwireWrites

\* It has switched the tripwires off, if there were any.
LEMMA DisableShape ==
  ASSUME Types, NEW w \in Workers, Disable(w), ~Finish(w, "done")
  PROVE  /\ GoesOn(w) /\ pc[w] = "act" /\ op[w] \in Removals /\ pc'[w] = "remove" /\ pulls' = pulls
         /\ seen[w].status \in {"retiring", "rollback_pending"}
         /\ tripwires # "none" => tripwireLock' = w
         /\ tripwires = "none" => tripwireLock' = tripwireLock
         /\ out'[w].pr = out[w].pr /\ out'[w].status = out[w].status
         /\ tripwires # "none" => out'[w].tripwires \in {"retired", "disabled"}
         /\ tripwires = "none" => out'[w].tripwires = out[w].tripwires
  <1>1. w \in Actors
    BY DEF Actors
  <1>2. /\ UNCHANGED <<status, pr, approver, tripwires, pulls, op, key, seen, jobLock, orphans>>
        /\ tripwires # "none" => tripwireLock \in {None, w} /\ tripwireLock' = w
        /\ tripwires = "none" => tripwireLock' = tripwireLock
        /\ pc[w] = "act" /\ op[w] \in Removals /\ pc' = [pc EXCEPT ![w] = "remove"]
    BY DEF Disable, Goto, Free, db, github
  <1>3. pc'[w] = "remove"
    BY <1>1, <1>2 DEF Types, StepTypes
  <1>4. \A v \in Workers : v # w => out'[v] = out[v]
    BY <1>3, TripwireWrites DEF Types, RowsTypes
  <1>5. GoesOn(w)
    BY <1>1, <1>2, <1>4, ActorAssumption DEF GoesOn, Alone, Types, StepTypes
  <1>6. seen[w].status \in {"retiring", "rollback_pending"}
    BY <1>2, <1>3, TripwireWrites DEF Expected, Removals
  <1>7. QED
    BY <1>2, <1>3, <1>5, <1>6, TripwireWrites

\* The commit of a worker.
LEMMA FlushShape ==
  ASSUME Types, NEW w \in Workers, Flush(w)
  PROVE  /\ Alone(w) /\ Gone(w) /\ pc[w] = "flush"
         /\ status' = IF out[w].status # "none" THEN out[w].status ELSE status
         /\ pr' = IF out[w].pr # 0 THEN out[w].pr ELSE pr
         /\ tripwires' = IF out[w].tripwires # "none" THEN out[w].tripwires ELSE tripwires
         /\ UNCHANGED <<approver, pulls, orphans>>
  <1>1. w \in Actors
    BY DEF Actors
  <1>2. QED
    BY <1>1, EndShape DEF Flush, github

\* A transaction that ends without a commit of the deployment's row.
LEMMA LostShape ==
  ASSUME Types, NEW x \in Actors, Rollback(x) \/ (x \in Workers /\ \E r \in {"done", "failed"} : Finish(x, r))
  PROVE  Alone(x) /\ Gone(x) /\ UNCHANGED <<status, pr, approver, tripwires, pulls>>
  BY EndShape DEF Rollback, Finish, db, github

\* The ways of a worker that has loaded the deployment.
LEMMA WorkerCases ==
  ASSUME Types, NEW w \in Workers,
         Execute(w) \/ VerifyWait(w) \/ VerifyClosed(w) \/ VerifyMerged(w) \/ Disable(w) \/ Remove(w)
  PROVE  \/ pc[w] = "act" /\ \E r \in {"done", "failed"} : Finish(w, r)
         \/ pc[w] = "act" /\ op[w] = "execute" /\ seen[w].status = "deploying" /\ SetStatus(w, "failed")
         \/ pc[w] = "act" /\ op[w] = "execute" /\ seen[w].status = "deploying" /\ seen[w].pr = 0
              /\ OpenPull(w, "deploy")
         \/ pc[w] = "act" /\ op[w] = "verify" /\ SetStatus(w, "cancelled")
         \/ /\ pc[w] = "act" /\ op[w] = "verify" /\ seen[w].pr # 0 /\ pulls[seen[w].pr].state = "merged"
            /\ \/ /\ seen[w].status = "deploying" /\ pulls[seen[w].pr].files = "approved"
                  /\ PassVerification(w)
               \/ /\ seen[w].status = "deploying" /\ pulls[seen[w].pr].files # "approved"
                  /\ SetStatus(w, "verification_failed")
               \/ /\ seen[w].status \in {"retiring", "rollback_pending"} /\ pulls[seen[w].pr].files = "none"
                  /\ \E s \in {"retired", "rolled_back"} : SetStatus(w, s)
         \/ Disable(w) /\ ~Finish(w, "done")
         \/ pc[w] = "remove" /\ (OpenPull(w, "removal") \/ SetStatus(w, "failed"))
  <1>1. CASE Execute(w)
    BY <1>1 DEF Execute
  <1>2. CASE VerifyWait(w) \/ VerifyClosed(w)
    BY <1>2 DEF VerifyWait, VerifyClosed
  <1>3. CASE VerifyMerged(w)
    BY <1>3 DEF VerifyMerged, PullState
  <1>4. CASE Disable(w)
    BY <1>4 DEF Disable
  <1>5. CASE Remove(w)
    BY <1>5 DEF Remove
  <1>6. QED
    BY <1>1, <1>2, <1>3, <1>4, <1>5

\* A step that changes nothing the invariants read, but for the status.
Still ==
  UNCHANGED <<pr, approver, tripwires, pulls, orphans, pc, op, key, seen, out, jobLock, tripwireLock>>

\* The steps, with the ones that look alike taken together.
LEMMA StepCases ==
  ASSUME Types, [Next]_vars
  PROVE  \/ Still /\ status' \in {status, "draft"}
         \/ \E h \in Handlers : \E o \in DOMAIN Target, k \in Keys : Load(h, o, k)
         \/ \E h \in Handlers : WriteStatus(h)
         \/ \E h \in Handlers : Decide(h) \/ Requeue(h)
         \/ \E w \in Workers : \E t \in JobTypes : Claim(w, t)
         \/ \E w \in Workers :
              Execute(w) \/ VerifyWait(w) \/ VerifyClosed(w) \/ VerifyMerged(w) \/ Disable(w) \/ Remove(w)
         \/ \E w \in Workers : Activate(w)
         \/ \E w \in Workers : Flush(w)
         \/ \E x \in Actors : Rollback(x)
         \/ \E n : MergePull(n) \/ ClosePull(n)
  <1>1. CASE UNCHANGED vars
    BY <1>1 DEF Still, vars, db, github, locks
  <1>2. CASE Create \/ EnqueueVerify \/ PushBase
    BY <1>2 DEF Create, EnqueueVerify, PushBase, Still, db, github, locks
  <1>3. ASSUME NEW x \in Actors, Crash(x) \/ DeadlockVictim(x) PROVE \E y \in Actors : Rollback(y)
    BY <1>3 DEF Crash, DeadlockVictim
  <1>4. ASSUME NEW n \in 1..MaxPulls, MergePull(n) \/ ClosePull(n) PROVE \E m : MergePull(m) \/ ClosePull(m)
    BY <1>4
  <1>5. CASE \E h \in Handlers :
               \/ \E o \in DOMAIN Target, k \in Keys : Load(h, o, k)
               \/ Decide(h) \/ WriteStatus(h) \/ Requeue(h)
    BY <1>5
  <1>6. CASE \E w \in Workers :
               \/ \E t \in JobTypes : Claim(w, t)
               \/ Execute(w)
               \/ VerifyWait(w) \/ VerifyClosed(w) \/ VerifyMerged(w) \/ Activate(w)
               \/ Disable(w) \/ Remove(w) \/ Flush(w)
    BY <1>6
  <1>7. QED
    BY <1>1, <1>2, <1>3, <1>4, <1>5, <1>6 DEF Next

-----------------------------------------------------------------------------
(* What a transaction holds. *)

\* The initial state.
LEMMA HeldInit == Init => Held
  BY DEF Init, Held, NoWrite, Actors

\* Every step keeps it.
LEMMA HeldStep == Types /\ Held /\ [Next]_vars => Held'
  <1> SUFFICES ASSUME Types, Held, [Next]_vars PROVE Held'
    OBVIOUS
  <1>0. Handlers \cap Workers = {} /\ Handlers \cup Workers = Actors /\ None \notin Workers
    BY ActorAssumption DEF Actors
  <1>a. \A w \in Workers : pc[w] # "idle" => op[w] \in JobTypes
    BY DEF Types, OpTypes
  <1>1. CASE Still
    BY <1>1 DEF Still, Held
  <1>2. ASSUME NEW h \in Handlers, Alone(h) PROVE Held'
    BY <1>0, <1>a, <1>2 DEF Alone, Held
  <1>3. ASSUME NEW w \in Workers, NEW t \in JobTypes, Claim(w, t) PROVE Held'
    BY <1>0, <1>a, <1>3, ClaimShape DEF Alone, Held
  <1>4. ASSUME NEW x \in Actors, Alone(x), Gone(x) PROVE Held'
    BY <1>0, <1>a, <1>4 DEF Alone, Gone, Held
  <1>5. ASSUME NEW w \in Workers, NEW s, pc[w] # "idle", SetStatus(w, s) PROVE Held'
    BY <1>0, <1>a, <1>5, SetStatusShape DEF GoesOn, Alone, Held
  <1>6. ASSUME NEW w \in Workers, NEW kind \in {"deploy", "removal"}, pc[w] # "idle", OpenPull(w, kind)
        PROVE  Held'
    BY <1>0, <1>a, <1>6, OpenPullShape, OpenPullGoesOn DEF GoesOn, Alone, Held
  <1>7. ASSUME NEW w \in Workers, pc[w] = "act", PassVerification(w) PROVE Held'
    BY <1>0, <1>a, <1>7, PassShape DEF GoesOn, Alone, Held
  <1>8. ASSUME NEW w \in Workers, Activate(w) PROVE Held'
    BY <1>0, <1>a, <1>8, ActivateShape DEF GoesOn, Alone, Held
  <1>9. ASSUME NEW w \in Workers, Disable(w), ~Finish(w, "done") PROVE Held'
    BY <1>0, <1>a, <1>9, DisableShape DEF GoesOn, Alone, Held
  <1>10. ASSUME NEW n, MergePull(n) \/ ClosePull(n) PROVE Held'
    BY <1>10, PullShape DEF Held
  <1>11. ASSUME NEW w \in Workers,
                Execute(w) \/ VerifyWait(w) \/ VerifyClosed(w) \/ VerifyMerged(w) \/ Disable(w) \/ Remove(w)
         PROVE  Held'
    <2>1. ASSUME NEW r \in {"done", "failed"}, Finish(w, r) PROVE Held'
      BY <1>0, <1>4, <2>1, LostShape
    <2>2. QED
      BY <1>5, <1>6, <1>7, <1>9, <1>11, <2>1, WorkerCases
  <1>12. ASSUME NEW h \in Handlers,
                (\E o \in DOMAIN Target, k \in Keys : Load(h, o, k)) \/ WriteStatus(h) \/ Decide(h) \/ Requeue(h)
         PROVE  Held'
    BY <1>2, <1>12, LoadShape, WriteShape, CommitShape
  <1>13. ASSUME NEW w \in Workers, Flush(w) PROVE Held'
    BY <1>0, <1>4, <1>13, FlushShape
  <1>14. ASSUME NEW x \in Actors, Rollback(x) PROVE Held'
    BY <1>4, <1>14, LostShape
  <1>15. QED
    BY <1>1, <1>3, <1>8, <1>10, <1>11, <1>12, <1>13, <1>14, StepCases

-----------------------------------------------------------------------------
(* Approval. *)

\* The transitions that start from an approval.
LEMMA LicensedTransitions ==
  /\ \A s : CanTransition(s, "deploying") => s \in Licensed
  /\ \A s : CanTransition(s, "retiring") \/ CanTransition(s, "rollback_pending") => s \in Licensed /\ s \in Past
  <1> SUFFICES ASSUME NEW s, NEW to \in {"deploying", "retiring", "rollback_pending"}, CanTransition(s, to)
      PROVE  s \in Licensed /\ (to # "deploying" => s \in Past)
    OBVIOUS
  <1>1. s \in Statuses /\ to \in Transitions[s]
    BY DEF CanTransition
  <1>2. s \notin {"draft", "awaiting_approval", "preview_stale", "reapproval_required", "rejected", "cancelled"}
    BY <1>1 DEF Transitions
  <1>3. to # "deploying" => s \in Past
    <2>1. to # "deploying" => s \notin {"approved", "deploying", "failed"}
      BY <1>1 DEF Transitions
    <2>2. QED
      BY <1>1, <1>2, <2>1, StatusNames DEF Past
  <1>4. QED
    BY <1>1, <1>2, <1>3 DEF Licensed

\* The initial state.
LEMMA ApprovalInit == Init => ApprovalInv
  BY StatusNames, EndpointNames DEF Init, ApprovalInv, Licensed, PullIsApproved, DeployPulls, Unread, NoWrite, Actors

\* Every step keeps it.
LEMMA ApprovalStep == Types /\ Held /\ ApprovalInv /\ [Next]_vars => ApprovalInv'
  <1> SUFFICES ASSUME Types, Held, ApprovalInv, [Next]_vars PROVE ApprovalInv'
    OBVIOUS
  <1>0. Handlers \cap Workers = {} /\ Handlers \cup Workers = Actors
    BY ActorAssumption DEF Actors
  <1>a. "draft" \notin Licensed /\ "none" \notin Licensed /\ "cancelled" \notin Licensed
    BY StatusNames DEF Licensed
  <1>b. ASSUME UNCHANGED <<pulls, approver>> PROVE PullIsApproved'
    BY <1>b DEF ApprovalInv, PullIsApproved, DeployPulls
  <1>1. CASE Still /\ status' \in {status, "draft"}
    BY <1>1, <1>a, <1>b DEF Still, ApprovalInv, Approved
  <1>2. ASSUME NEW h \in Handlers, NEW o \in DOMAIN Target, NEW k \in Keys, Load(h, o, k) PROVE ApprovalInv'
    <2>1. o \in DOMAIN JobOf => Approved
      BY <1>2, LoadShape, LicensedTransitions, EndpointNames DEF ApprovalInv
    <2>2. QED
      BY <1>0, <1>2, <1>b, <2>1, LoadShape DEF Alone, ApprovalInv, Approved
  <1>3. ASSUME NEW h \in Handlers, WriteStatus(h) PROVE ApprovalInv'
    BY <1>0, <1>3, <1>b, WriteShape DEF Alone, ApprovalInv, Approved
  <1>4. ASSUME NEW h \in Handlers, Decide(h) \/ Requeue(h) PROVE ApprovalInv'
    <2>1. Approved => Approved'
      BY <1>4, CommitShape DEF ApprovalInv, Approved
    <2>2. status' \in Licensed => Approved'
      <3>1. CASE op[h] = "approve"
        BY <1>4, <3>1, CommitShape DEF ApprovalInv, Approved
      <3>2. CASE op[h] \in DOMAIN JobOf
        BY <2>1, <3>2 DEF ApprovalInv
      <3>3. CASE op[h] \in {"submit", "reject"}
        BY <1>4, <3>3, CommitShape, EndpointNames DEF Licensed
      <3>4. QED
        BY <1>4, <3>1, <3>2, <3>3, CommitShape, EndpointNames
    <2>3. PullIsApproved'
      BY <1>4, <2>1, CommitShape DEF ApprovalInv, PullIsApproved, DeployPulls, Approved
    <2>4. QED
      BY <1>0, <1>4, <2>1, <2>2, <2>3, CommitShape, EndpointNames DEF Alone, Gone, ApprovalInv
  <1>5. ASSUME NEW w \in Workers, NEW t \in JobTypes, Claim(w, t) PROVE ApprovalInv'
    BY <1>0, <1>5, <1>b, ClaimShape DEF Alone, ApprovalInv, Approved
  <1>6. ASSUME NEW x \in Actors, Alone(x), Gone(x), UNCHANGED <<approver, pulls>>, status' \in Licensed => Approved
        PROVE  ApprovalInv'
    BY <1>0, <1>6, <1>a, <1>b, EndpointNames DEF Alone, Gone, ApprovalInv, Approved
  <1>7. ASSUME NEW w \in Workers, NEW s, s \in Licensed => Approved, SetStatus(w, s) PROVE ApprovalInv'
    BY <1>0, <1>7, <1>b, SetStatusShape DEF GoesOn, Alone, ApprovalInv, Approved
  <1>8. ASSUME NEW w \in Workers, NEW kind \in {"deploy", "removal"}, Approved, OpenPull(w, kind)
        PROVE  ApprovalInv'
    <2>1. Approved'
      BY <1>8, OpenPullShape DEF Approved
    <2>2. \A h \in Handlers : pc'[h] = pc[h] /\ op'[h] = op[h] /\ key'[h] = key[h]
      BY <1>0, <1>8, OpenPullGoesOn DEF GoesOn, Alone
    <2>3. QED
      BY <2>1, <2>2 DEF ApprovalInv, PullIsApproved, Approved
  <1>9. ASSUME NEW w \in Workers, Approved, PassVerification(w) PROVE ApprovalInv'
    BY <1>0, <1>9, <1>b, PassShape DEF GoesOn, Alone, ApprovalInv, Approved
  <1>10. ASSUME NEW w \in Workers, Activate(w) PROVE ApprovalInv'
    BY <1>0, <1>10, <1>b, ActivateShape DEF GoesOn, Alone, ApprovalInv, Approved
  <1>11. ASSUME NEW w \in Workers, Disable(w), ~Finish(w, "done") PROVE ApprovalInv'
    <2>1. Approved
      BY <1>11, DisableShape, StatusNames DEF ApprovalInv, Licensed
    <2>2. QED
      BY <1>0, <1>11, <1>b, <2>1, DisableShape DEF GoesOn, Alone, ApprovalInv, Approved
  <1>12. ASSUME NEW n, MergePull(n) \/ ClosePull(n) PROVE ApprovalInv'
    <2>1. PullIsApproved'
      <3>1. DeployPulls' = DeployPulls
        BY <1>12, PullShape DEF DeployPulls
      <3>2. QED
        BY <1>12, <3>1, PullShape DEF ApprovalInv, PullIsApproved
    <2>2. QED
      BY <1>12, <2>1, PullShape DEF ApprovalInv, Approved
  <1>13. ASSUME NEW w \in Workers,
                Execute(w) \/ VerifyWait(w) \/ VerifyClosed(w) \/ VerifyMerged(w) \/ Disable(w) \/ Remove(w)
         PROVE  ApprovalInv'
    <2>1. ASSUME NEW r \in {"done", "failed"}, Finish(w, r) PROVE ApprovalInv'
      BY <1>0, <1>6, <2>1, LostShape DEF ApprovalInv
    <2>2. seen[w].status \in {"deploying", "retiring", "rollback_pending"} \/ pc[w] = "remove" => Approved
      BY StatusNames DEF ApprovalInv, Licensed
    <2>3. QED
      BY <1>7, <1>8, <1>9, <1>11, <1>13, <1>a, <2>1, <2>2, WorkerCases
  <1>14. ASSUME NEW w \in Workers, Flush(w) PROVE ApprovalInv'
    BY <1>0, <1>6, <1>14, FlushShape DEF ApprovalInv
  <1>15. ASSUME NEW x \in Actors, Rollback(x) PROVE ApprovalInv'
    BY <1>6, <1>15, LostShape DEF ApprovalInv
  <1>16. QED
    BY <1>1, <1>2, <1>3, <1>4, <1>5, <1>10, <1>12, <1>13, <1>14, <1>15, StepCases

\* No pull request with decoys is opened that somebody other than the requester has not
\* approved (approve_deployment, execute), however the handlers' late writes of the status
\* interleave with the workers.
THEOREM SeparationOfDuties == Spec => []PullIsApproved
  <1>1. ApprovalInv => PullIsApproved
    BY DEF ApprovalInv
  <1>2. QED
    BY <1>1, TypesInit, TypesStep, HeldInit, HeldStep, ApprovalInit, ApprovalStep, PTL DEF Spec

-----------------------------------------------------------------------------
(* Monitoring: what was verified, what was removed. *)

Core == ActivationInv /\ RecordInv /\ PastInv /\ SilenceInv
DeployInv == Types /\ Held /\ Core

\* A pull request keeps its kind, and what is merged or closed stays as it is.
PullsKept ==
  \A n \in DOMAIN pulls :
    /\ n \in DOMAIN pulls' /\ pulls'[n].kind = pulls[n].kind
    /\ pulls[n].state # "open" => pulls'[n] = pulls[n]

\* So what has passed, and what cannot pass any more, remains so.
LEMMA VerdictsStay ==
  ASSUME PullsKept, NEW n PROVE (Passed(n) => Passed(n)') /\ (Barren(n) => Barren(n)')
  BY DEF PullsKept, Passed, Barren

\* And active tripwires still stand for one that has passed.
LEMMA MonitoringStays ==
  ASSUME MonitoringVerified, PullsKept, tripwires' = tripwires PROVE MonitoringVerified'
  BY DEF MonitoringVerified, DeployPulls, PullsKept

\* What passed is not barren; what is recorded or loaded exists.
LEMMA CoreFacts ==
  ASSUME Types
  PROVE  /\ \A n : ~(Passed(n) /\ Barren(n))
         /\ Len(pulls) \in Nat /\ DOMAIN pulls = 1..Len(pulls)
         /\ pr # 0 => pr \in DOMAIN pulls
         /\ \A w \in Workers : seen[w].pr # 0 => seen[w].pr \in DOMAIN pulls
         /\ \A w \in Workers : out[w].pr # 0 => out[w].pr \in DOMAIN pulls
         /\ \A w \in Workers : out[w].tripwires \in TripwireStatuses
  <1>1. \A n : ~(Passed(n) /\ Barren(n))
    BY DEF Passed, Barren
  <1>2. Len(pulls) \in Nat /\ DOMAIN pulls = 1..Len(pulls)
    BY DEF Types, GithubTypes
  <1>3. pr # 0 => pr \in DOMAIN pulls
    BY <1>2 DEF Types, DbTypes
  <1>4. ASSUME NEW w \in Workers
        PROVE  /\ seen[w].pr # 0 => seen[w].pr \in DOMAIN pulls
               /\ out[w].pr # 0 => out[w].pr \in DOMAIN pulls
               /\ out[w].tripwires \in TripwireStatuses
    <2>1. seen[w] \in SeenRows(Len(pulls)) /\ out[w] \in OutRows(Len(pulls))
      BY DEF Types, RowsTypes
    <2>2. QED
      BY <1>2, <2>1 DEF SeenRows, OutRows
  <1>5. QED
    BY <1>1, <1>2, <1>3, <1>4

\* The initial state.
LEMMA CoreInit == Init => Core
  <1> SUFFICES ASSUME Init PROVE Core
    OBVIOUS
  <1>1. Handlers \subseteq Actors /\ Workers \subseteq Actors
    BY DEF Actors
  <1>2. DOMAIN pulls = {} /\ pr = 0 /\ tripwires = "none" /\ status = "none"
    BY DEF Init
  <1>3. \A w \in Workers : /\ seen[w].pr = 0 /\ seen[w].status = "none" /\ pc[w] = "idle" /\ op[w] = "none"
                           /\ out[w].pr = 0 /\ out[w].status = "none" /\ out[w].tripwires = "none"
    BY <1>1 DEF Init, Unread, NoWrite
  <1>4. \A h \in Handlers : op[h] = "none"
    BY <1>1 DEF Init
  <1>5. ActivationInv
    BY <1>2, <1>3 DEF ActivationInv, PullsAreKind, MonitoringVerified
  <1>6. RecordInv
    BY <1>2, <1>3 DEF RecordInv, Barren
  <1>7. PastInv /\ SilenceInv
    BY <1>2, <1>3, <1>4 DEF PastInv, SilenceInv, Past, Silent, RetiredIsSilent
  <1>8. QED
    BY <1>5, <1>6, <1>7 DEF Core

\* The handlers.
LEMMA CoreHandler ==
  ASSUME DeployInv, NEW h \in Handlers,
         \/ \E o \in DOMAIN Target, k \in Keys : Load(h, o, k)
         \/ WriteStatus(h) \/ Decide(h) \/ Requeue(h)
  PROVE  Core'
  <1>0. /\ Handlers \cap Workers = {} /\ Handlers \cup Workers = Actors
        /\ "none" \notin {"retire", "rollback"}
    BY ActorAssumption DEF Actors
  <1>1. Alone(h) /\ UNCHANGED <<pr, tripwires, pulls>>
    BY LoadShape, WriteShape, CommitShape DEF DeployInv
  <1>2. \A w \in Workers : pc'[w] = pc[w] /\ op'[w] = op[w] /\ seen'[w] = seen[w] /\ out'[w] = out[w]
    BY <1>0, <1>1 DEF Alone
  <1>3. ActivationInv'
    BY <1>1, <1>2 DEF DeployInv, Core, ActivationInv, PullsAreKind, Passed, MonitoringVerified, DeployPulls
  <1>4. RecordInv'
    BY <1>1, <1>2 DEF DeployInv, Core, RecordInv, Barren, Concluded
  <1>5. op'[h] \in {"retire", "rollback"} => Concluded
    <2>1. ASSUME NEW o \in DOMAIN Target, NEW k \in Keys, Load(h, o, k), o \in {"retire", "rollback"} PROVE Concluded
      BY <2>1, LoadShape, LicensedTransitions, EndpointNames DEF DeployInv, Core, PastInv
    <2>2. QED
      BY <1>0, <2>1, LoadShape, WriteShape, CommitShape DEF DeployInv, Core, PastInv, Gone
  <1>6. (status' \in Past => Concluded) /\ (status' \in Silent => status' = status)
    <2>1. CASE Decide(h) \/ Requeue(h)
      BY <2>1, CommitShape, EndpointNames DEF DeployInv, Core, PastInv, Past, Silent
    <2>2. CASE ~(Decide(h) \/ Requeue(h))
      BY <2>2, LoadShape, WriteShape DEF DeployInv, Core, PastInv
    <2>3. QED
      BY <2>1, <2>2
  <1>7. PastInv'
    BY <1>0, <1>1, <1>2, <1>5, <1>6 DEF DeployInv, Core, PastInv, Concluded, Barren, Alone
  <1>8. SilenceInv'
    BY <1>1, <1>2, <1>6 DEF DeployInv, Core, SilenceInv, RetiredIsSilent, Concluded, Barren, Silent
  <1>9. QED
    BY <1>3, <1>4, <1>7, <1>8 DEF Core

\* A worker that claims a job knows what is recorded.
LEMMA CoreClaim ==
  ASSUME DeployInv, NEW w \in Workers, NEW t \in JobTypes, Claim(w, t) PROVE Core'
  <1>0. Handlers \cap Workers = {} /\ Handlers \cup Workers = Actors
    BY ActorAssumption DEF Actors
  <1>1. /\ Alone(w) /\ UNCHANGED <<status, pr, tripwires, pulls>>
        /\ pc'[w] = "act" /\ op'[w] = t /\ seen'[w].status = status /\ seen'[w].pr = pr
        /\ out'[w].status = "none" /\ out'[w].pr = 0 /\ out'[w].tripwires = "none"
    BY ClaimShape DEF DeployInv, Held
  <1>2. \A h \in Handlers : op'[h] = op[h]
    BY <1>0, <1>1 DEF Alone
  <1>3. \A v \in Workers : v # w => pc'[v] = pc[v] /\ op'[v] = op[v] /\ seen'[v] = seen[v] /\ out'[v] = out[v]
    BY <1>0, <1>1 DEF Alone
  <1>4. ActivationInv'
    BY <1>1, <1>3 DEF DeployInv, Core, ActivationInv, PullsAreKind, Passed, MonitoringVerified, DeployPulls
  <1>5. RecordInv'
    BY <1>1, <1>3 DEF DeployInv, Core, RecordInv, Barren, Concluded
  <1>6. PastInv'
    BY <1>1, <1>2, <1>3 DEF DeployInv, Core, PastInv, Concluded, Barren, Past
  <1>7. SilenceInv'
    BY <1>1, <1>3 DEF DeployInv, Core, SilenceInv, RetiredIsSilent, Concluded, Barren, Silent
  <1>8. QED
    BY <1>4, <1>5, <1>6, <1>7 DEF Core

\* A transaction that ends without writing the deployment's row.
LEMMA CoreLost ==
  ASSUME DeployInv, NEW x \in Actors, Alone(x), Gone(x), UNCHANGED <<status, pr, tripwires, pulls>> PROVE Core'
  <1>0. Handlers \cup Workers = Actors
    BY DEF Actors
  <1>1. ActivationInv'
    BY <1>0 DEF DeployInv, Core, ActivationInv, PullsAreKind, Passed, MonitoringVerified, DeployPulls, Alone, Gone
  <1>2. RecordInv'
    BY <1>0 DEF DeployInv, Core, RecordInv, Barren, Concluded, Alone, Gone
  <1>3. PastInv'
    BY <1>0 DEF DeployInv, Core, PastInv, Concluded, Barren, Past, Alone, Gone
  <1>4. SilenceInv'
    BY <1>0 DEF DeployInv, Core, SilenceInv, RetiredIsSilent, Concluded, Barren, Silent, Alone, Gone
  <1>5. QED
    BY <1>1, <1>2, <1>3, <1>4 DEF Core

\* A worker that decides on a status.
LEMMA CoreSetStatus ==
  ASSUME DeployInv, NEW w \in Workers, NEW s, SetStatus(w, s), pc[w] \in {"act", "remove"},
         s \in Past => Concluded,
         s \in Silent => tripwires # "active" /\ Concluded /\ pc[w] = "act"
  PROVE  Core'
  <1>0. Handlers \cap Workers = {} /\ Handlers \cup Workers = Actors
    BY ActorAssumption DEF Actors
  <1>1. /\ Alone(w) /\ UNCHANGED <<status, pr, tripwires, pulls, seen>>
        /\ pc'[w] = "flush" /\ op'[w] = op[w] /\ out'[w].status = s /\ out'[w].pr = 0
        /\ out'[w].tripwires = out[w].tripwires
    BY SetStatusShape DEF DeployInv, Held, GoesOn
  <1>2. out[w].tripwires # "active" /\ (pc[w] = "act" => out[w].tripwires = "none")
    BY DEF DeployInv, Held, Core, SilenceInv
  <1>3. \A h \in Handlers : op'[h] = op[h]
    BY <1>0, <1>1 DEF Alone
  <1>4. \A v \in Workers : v # w => pc'[v] = pc[v] /\ op'[v] = op[v] /\ out'[v] = out[v]
    BY <1>0, <1>1 DEF Alone
  <1>5. ActivationInv'
    BY <1>1, <1>2, <1>4 DEF DeployInv, Core, ActivationInv, PullsAreKind, Passed, MonitoringVerified, DeployPulls
  <1>6. RecordInv'
    BY <1>1, <1>4 DEF DeployInv, Core, RecordInv, Barren, Concluded
  <1>7. PastInv'
    BY <1>1, <1>3, <1>4 DEF DeployInv, Core, PastInv, Concluded, Barren
  <1>8. SilenceInv'
    BY <1>1, <1>2, <1>4 DEF DeployInv, Core, SilenceInv, RetiredIsSilent, Concluded, Barren
  <1>9. QED
    BY <1>5, <1>6, <1>7, <1>8 DEF Core

\* A worker that opens a pull request: that of an execution that knows of none, or that of a
\* removal whose tripwires are off.
LEMMA CoreOpenPull ==
  ASSUME DeployInv, NEW w \in Workers, NEW kind \in {"deploy", "removal"}, OpenPull(w, kind),
         \/ kind = "deploy" /\ pc[w] = "act" /\ op[w] = "execute" /\ seen[w].pr = 0
         \/ kind = "removal" /\ pc[w] = "remove" /\ op[w] \in Removals
  PROVE  Core'
  <1>0. Handlers \cap Workers = {} /\ Handlers \cup Workers = Actors
    BY ActorAssumption DEF Actors
  <1> DEFINE n == Len(pulls) + 1
  <1>1. /\ Alone(w) /\ UNCHANGED <<status, pr, tripwires, seen>>
        /\ pc'[w] = "flush" /\ op'[w] = op[w] /\ out'[w].status = "none" /\ out'[w].pr = n
        /\ out'[w].tripwires = out[w].tripwires
        /\ n \notin DOMAIN pulls /\ DOMAIN pulls' = DOMAIN pulls \cup {n}
        /\ \A m \in DOMAIN pulls : pulls'[m] = pulls[m]
        /\ pulls'[n].kind = kind /\ pulls'[n].files = "unknown" /\ pulls'[n].state = "open"
    <2>1. /\ Alone(w) /\ UNCHANGED <<status, pr, tripwires, seen>>
          /\ pc'[w] = "flush" /\ op'[w] = op[w]
      BY OpenPullGoesOn DEF DeployInv, GoesOn
    <2>2. /\ out'[w].status = "none" /\ out'[w].pr = n /\ out'[w].tripwires = out[w].tripwires
      BY OpenPullShape DEF DeployInv, Held
    <2>3. n \notin DOMAIN pulls /\ DOMAIN pulls' = DOMAIN pulls \cup {n}
      <3>1. Len(pulls) \in Nat /\ DOMAIN pulls = 1..Len(pulls) /\ DOMAIN pulls' = 1..(Len(pulls) + 1)
        BY OpenPullShape DEF DeployInv
      <3>2. QED
        BY <3>1
    <2>4. /\ \A m \in DOMAIN pulls : pulls'[m] = pulls[m]
          /\ pulls'[n].kind = kind /\ pulls'[n].files = "unknown" /\ pulls'[n].state = "open"
      BY OpenPullShape DEF DeployInv
    <2>5. QED
      BY <2>1, <2>2, <2>3, <2>4
  <1> HIDE DEF n
  <1>2. out[w].tripwires # "active" /\ (pc[w] = "act" => out[w].tripwires = "none")
    BY DEF DeployInv, Held, Core, SilenceInv
  <1>3. \A h \in Handlers : op'[h] = op[h]
    BY <1>0, <1>1 DEF Alone
  <1>4. \A v \in Workers : v # w => pc'[v] = pc[v] /\ op'[v] = op[v] /\ out'[v] = out[v]
    BY <1>0, <1>1 DEF Alone
  <1>5. /\ PullsKept
        /\ pr # 0 => pr \in DOMAIN pulls
        /\ \A v \in Workers : seen[v].pr # 0 => seen[v].pr \in DOMAIN pulls
        /\ \A v \in Workers : out[v].pr # 0 => out[v].pr \in DOMAIN pulls
    BY <1>1, CoreFacts DEF DeployInv, PullsKept
  <1>6. \A m : Passed(m) => Passed(m)'
    BY <1>5, VerdictsStay
  <1>7. \A m \in DOMAIN pulls : Barren(m)' <=> Barren(m)
    BY <1>1 DEF Barren
  <1>7a. Passed(0) = FALSE /\ Barren(0) = FALSE /\ Barren(0)' = FALSE
    BY <1>1, CoreFacts DEF DeployInv, Passed, Barren, n
  <1>8. Barren(pr)' <=> Barren(pr)
    BY <1>1, <1>5, <1>7, <1>7a DEF Barren
  <1>9. Concluded' <=> Concluded
    BY <1>1, <1>8 DEF Concluded
  <1>10. ActivationInv'
    <2>1. PullsAreKind'
      BY <1>1 DEF DeployInv, Core, ActivationInv, PullsAreKind
    <2>2. MonitoringVerified'
      BY <1>1, <1>5, MonitoringStays DEF DeployInv, Core, ActivationInv
    <2>3. \A v \in Workers : Passed(seen[v].pr) => Passed(seen[v].pr)'
      BY <1>1, <1>6 DEF Passed
    <2>4. QED
      BY <1>1, <1>2, <1>4, <2>1, <2>2, <2>3 DEF DeployInv, Core, ActivationInv
  <1>11. RecordInv'
    <2>1. \A v \in Workers : Barren(seen[v].pr)' <=> Barren(seen[v].pr)
      BY <1>1, <1>5, <1>7, <1>7a DEF Barren
    <2>2. \A v \in Workers : out'[v].pr # 0 =>
            \/ pulls'[out'[v].pr].kind = "removal" /\ op'[v] \in Removals /\ Concluded'
            \/ op'[v] = "execute" /\ seen'[v].pr = 0 /\ pulls'[out'[v].pr].kind = "deploy"
                 /\ out'[v].tripwires = "none"
      <3> SUFFICES ASSUME NEW v \in Workers, out'[v].pr # 0
          PROVE \/ pulls'[out'[v].pr].kind = "removal" /\ op'[v] \in Removals /\ Concluded'
                \/ op'[v] = "execute" /\ seen'[v].pr = 0 /\ pulls'[out'[v].pr].kind = "deploy"
                     /\ out'[v].tripwires = "none"
        OBVIOUS
      <3>1. CASE v = w
        <4>1. pc[w] = "remove" => Concluded
          BY DEF DeployInv, Core, PastInv
        <4>2. QED
          BY <1>1, <1>2, <1>9, <3>1, <4>1
      <3>2. CASE v # w
        BY <1>1, <1>4, <1>5, <1>9, <3>2 DEF DeployInv, Core, RecordInv
      <3>3. QED
        BY <3>1, <3>2
    <2>3. QED
      BY <1>1, <1>4, <1>8, <2>1, <2>2 DEF DeployInv, Core, RecordInv
  <1>12. PastInv'
    BY <1>1, <1>3, <1>4, <1>9 DEF DeployInv, Core, PastInv, Past
  <1>13. SilenceInv'
    BY <1>1, <1>2, <1>4, <1>5, <1>9 DEF DeployInv, Core, SilenceInv, RetiredIsSilent, Silent, Removals
  <1>14. QED
    BY <1>10, <1>11, <1>12, <1>13 DEF Core

\* A worker whose verification has passed.
LEMMA CorePass ==
  ASSUME DeployInv, NEW w \in Workers, PassVerification(w), pc[w] = "act", seen[w].pr # 0,
         pulls[seen[w].pr].state = "merged", pulls[seen[w].pr].files = "approved"
  PROVE  Core'
  <1>0. Handlers \cap Workers = {} /\ Handlers \cup Workers = Actors
    BY ActorAssumption DEF Actors
  <1>1. /\ Alone(w) /\ UNCHANGED <<status, pr, tripwires, pulls, seen, out>>
        /\ pc'[w] = "activate" /\ op'[w] = op[w]
    BY PassShape DEF DeployInv, GoesOn
  <1>2. Passed(seen[w].pr)
    BY CoreFacts DEF DeployInv, Core, ActivationInv, PullsAreKind, Passed
  <1>3. \A h \in Handlers : op'[h] = op[h]
    BY <1>0, <1>1 DEF Alone
  <1>4. \A v \in Workers : op'[v] = op[v] /\ (v # w => pc'[v] = pc[v])
    BY <1>0, <1>1 DEF Alone
  <1>5. out[w].pr = 0 /\ out[w].status = "none" /\ out[w].tripwires = "none"
    BY DEF DeployInv, Held
  <1>6. ActivationInv'
    BY <1>1, <1>2, <1>4 DEF DeployInv, Core, ActivationInv, PullsAreKind, Passed, MonitoringVerified, DeployPulls
  <1>7. RecordInv'
    BY <1>1, <1>4 DEF DeployInv, Core, RecordInv, Barren, Concluded
  <1>8. PastInv' /\ SilenceInv'
    BY <1>1, <1>3, <1>4 DEF DeployInv, Core, PastInv, SilenceInv, RetiredIsSilent, Concluded, Barren
  <1>9. QED
    BY <1>6, <1>7, <1>8 DEF Core

\* A worker that activates: without tripwires, its pull request is still the recorded one.
LEMMA CoreActivate ==
  ASSUME DeployInv, NEW w \in Workers, Activate(w) PROVE Core'
  <1>0. Handlers \cap Workers = {} /\ Handlers \cup Workers = Actors
    BY ActorAssumption DEF Actors
  <1>1. /\ Alone(w) /\ UNCHANGED <<status, pr, tripwires, pulls, seen>>
        /\ pc[w] = "activate" /\ pc'[w] = "flush" /\ op'[w] = op[w] /\ out'[w].pr = 0
        /\ out'[w].tripwires = IF tripwires = "none" THEN "active" ELSE "none"
        /\ out'[w].status = IF tripwires \in {"none", "active"} THEN "deployed" ELSE "deployed_unmonitored"
    BY ActivateShape DEF DeployInv, Held, GoesOn
  <1>2. Passed(seen[w].pr) /\ seen[w].pr # 0
    <2>1. Passed(seen[w].pr)
      BY <1>1 DEF DeployInv, Core, ActivationInv
    <2>2. QED
      BY <2>1, CoreFacts DEF DeployInv, Passed
  <1>3. tripwires = "none" => pr = seen[w].pr
    BY <1>2, CoreFacts DEF DeployInv, Core, RecordInv
  <1>4. pr # 0
    BY <1>2 DEF DeployInv, Core, RecordInv
  <1>5. \A h \in Handlers : op'[h] = op[h]
    BY <1>0, <1>1 DEF Alone
  <1>6. \A v \in Workers : v # w => pc'[v] = pc[v] /\ op'[v] = op[v] /\ out'[v] = out[v]
    BY <1>0, <1>1 DEF Alone
  <1>7. ActivationInv'
    BY <1>1, <1>2, <1>3, <1>6 DEF DeployInv, Core, ActivationInv, PullsAreKind, Passed, MonitoringVerified,
       DeployPulls
  <1>8. RecordInv'
    BY <1>1, <1>6 DEF DeployInv, Core, RecordInv, Barren, Concluded
  <1>9. PastInv'
    BY <1>1, <1>4, <1>5, <1>6 DEF DeployInv, Core, PastInv, Concluded, Barren
  <1>10. SilenceInv'
    BY <1>1, <1>6 DEF DeployInv, Core, SilenceInv, RetiredIsSilent, Concluded, Barren, Silent
  <1>11. QED
    BY <1>7, <1>8, <1>9, <1>10 DEF Core

\* A worker that switches the tripwires off: where it finds none, the recorded pull request is
\* barren, and nobody is about to activate any.
LEMMA CoreDisable ==
  ASSUME DeployInv, NEW w \in Workers, Disable(w), ~Finish(w, "done") PROVE Core'
  <1>0. Handlers \cap Workers = {} /\ Handlers \cup Workers = Actors
    BY ActorAssumption DEF Actors
  <1>1. /\ Alone(w) /\ UNCHANGED <<status, pr, tripwires, pulls, seen>>
        /\ pc'[w] = "remove" /\ op'[w] = op[w] /\ out'[w].pr = 0 /\ out'[w].status = "none"
        /\ tripwires # "none" => out'[w].tripwires \in {"retired", "disabled"}
        /\ tripwires = "none" => out'[w].tripwires = "none"
    BY DisableShape DEF DeployInv, Held, GoesOn
  <1>2. Concluded
    BY DisableShape DEF DeployInv, Core, PastInv, Past
  <1>3. \A h \in Handlers : op'[h] = op[h]
    BY <1>0, <1>1 DEF Alone
  <1>4. \A v \in Workers : v # w => pc'[v] = pc[v] /\ op'[v] = op[v] /\ out'[v] = out[v]
    BY <1>0, <1>1 DEF Alone
  <1>5. ActivationInv'
    BY <1>1, <1>4 DEF DeployInv, Core, ActivationInv, PullsAreKind, Passed, MonitoringVerified, DeployPulls
  <1>6. RecordInv'
    BY <1>1, <1>4 DEF DeployInv, Core, RecordInv, Barren, Concluded
  <1>7. PastInv'
    BY <1>1, <1>2, <1>3, <1>4 DEF DeployInv, Core, PastInv, Concluded, Barren, Past
  <1>8. SilenceInv'
    BY <1>1, <1>4 DEF DeployInv, Core, SilenceInv, RetiredIsSilent, Concluded, Barren, Silent
  <1>9. QED
    BY <1>5, <1>6, <1>7, <1>8 DEF Core

\* A maintainer merges or closes a pull request.
LEMMA CorePull ==
  ASSUME DeployInv, NEW n, MergePull(n) \/ ClosePull(n) PROVE Core'
  <1>1. /\ UNCHANGED <<status, pr, tripwires, pc, op, seen, out>> /\ DOMAIN pulls' = DOMAIN pulls
        /\ \A m \in DOMAIN pulls : pulls'[m].kind = pulls[m].kind
        /\ n \in DOMAIN pulls /\ \A m \in DOMAIN pulls : m # n => pulls'[m] = pulls[m]
    BY PullShape DEF DeployInv
  <1>2. PullsKept
    BY <1>1, PullShape DEF DeployInv, PullsKept
  <1>3. \A m : (Passed(m) => Passed(m)') /\ (Barren(m) => Barren(m)')
    BY <1>2, VerdictsStay
  <1>4. /\ Barren(pr) => Barren(pr)'
        /\ \A v \in Workers : Barren(seen[v].pr) => Barren(seen[v].pr)'
        /\ \A v \in Workers : Passed(seen[v].pr) => Passed(seen[v].pr)'
    BY <1>1, <1>3 DEF Barren, Passed
  <1>5. Concluded => Concluded'
    BY <1>1, <1>4 DEF Concluded
  <1>6. ActivationInv'
    <2>1. PullsAreKind'
      <3>1. \A m \in DOMAIN pulls : pulls[m].kind \in {"deploy", "removal"}
        <4>1. \A m \in DOMAIN pulls : pulls[m] \in PullRows
          BY DEF DeployInv, Types, GithubTypes
        <4>2. QED
          BY <4>1 DEF PullRows
      <3>2. pulls'[n].files = "approved" => pulls[n].kind = "deploy"
        BY <1>1, PullShape DEF DeployInv, Core, ActivationInv, PullsAreKind
      <3>3. pulls'[n].files = "none" => pulls[n].kind = "removal"
        BY <1>1, <3>1, PullShape DEF DeployInv, Core, ActivationInv, PullsAreKind
      <3>4. QED
        BY <1>1, <3>2, <3>3 DEF DeployInv, Core, ActivationInv, PullsAreKind
    <2>2. MonitoringVerified'
      BY <1>1, <1>2, MonitoringStays DEF DeployInv, Core, ActivationInv
    <2>3. QED
      BY <1>1, <1>4, <2>1, <2>2 DEF DeployInv, Core, ActivationInv
  <1>7. RecordInv'
    <2>1. ASSUME tripwires = "none", Barren(pr)', NEW v \in Workers, seen[v].pr # 0 PROVE Barren(seen[v].pr)'
      <3>1. CASE Barren(pr)
        BY <1>4, <2>1, <3>1 DEF DeployInv, Core, RecordInv
      <3>2. CASE ~Barren(pr)
        <4>1. seen[v].pr = pr
          BY <2>1, <3>2 DEF DeployInv, Core, RecordInv
        <4>2. QED
          BY <1>1, <2>1, <4>1 DEF Barren
      <3>3. QED
        BY <3>1, <3>2
    <2>2. \A v \in Workers : out[v].pr # 0 => out[v].pr \in DOMAIN pulls
      BY CoreFacts DEF DeployInv
    <2>3. QED
      BY <1>1, <1>4, <1>5, <2>1, <2>2 DEF DeployInv, Core, RecordInv
  <1>8. PastInv'
    BY <1>1, <1>5 DEF DeployInv, Core, PastInv
  <1>9. SilenceInv'
    BY <1>1, <1>5, CoreFacts DEF DeployInv, Core, SilenceInv, RetiredIsSilent
  <1>10. QED
    BY <1>6, <1>7, <1>8, <1>9 DEF Core

\* The commit of a worker.
LEMMA CoreFlush ==
  ASSUME DeployInv, NEW w \in Workers, Flush(w) PROVE Core'
  <1>0. Handlers \cap Workers = {} /\ Handlers \cup Workers = Actors /\ None \notin Workers
    BY ActorAssumption DEF Actors
  <1>1. /\ Alone(w) /\ Gone(w) /\ pc[w] = "flush" /\ pulls' = pulls
        /\ status' = IF out[w].status # "none" THEN out[w].status ELSE status
        /\ pr' = IF out[w].pr # 0 THEN out[w].pr ELSE pr
        /\ tripwires' = IF out[w].tripwires # "none" THEN out[w].tripwires ELSE tripwires
    BY FlushShape DEF DeployInv
  <1>2. \A h \in Handlers : op'[h] = op[h]
    BY <1>0, <1>1 DEF Alone
  <1>3. \A v \in Workers : v # w => pc'[v] = pc[v] /\ op'[v] = op[v] /\ seen'[v] = seen[v] /\ out'[v] = out[v]
    BY <1>0, <1>1 DEF Alone
  <1>4. /\ pc'[w] = "idle" /\ op'[w] = "none" /\ seen'[w].status = "none" /\ seen'[w].pr = 0
        /\ out'[w].status = "none" /\ out'[w].pr = 0 /\ out'[w].tripwires = "none"
    BY <1>1 DEF Gone
  <1>5. \A v \in Workers : out[v].tripwires # "none" /\ out[w].tripwires # "none" => v = w
    BY DEF DeployInv, Held
  <1>6. \A v \in Workers : op[v] = "execute" /\ op[w] = "execute" => v = w
    BY <1>1 DEF DeployInv, Held
  <1>7. out[w].tripwires \in {"none", "active", "retired", "disabled"}
    BY CoreFacts DEF DeployInv, TripwireStatuses
  <1>8. \A n : (Barren(n)' <=> Barren(n)) /\ (Passed(n)' <=> Passed(n))
    BY <1>1 DEF Barren, Passed
  <1>9. Passed(pr) => ~Barren(pr)
    BY CoreFacts DEF DeployInv
  \* What the worker has in hand.
  <1>10. out[w].pr # 0 =>
           \/ Barren(out[w].pr) /\ pulls[out[w].pr].kind = "removal" /\ op[w] \in Removals /\ Concluded
           \/ op[w] = "execute" /\ pr = 0 /\ pulls[out[w].pr].kind = "deploy" /\ out[w].tripwires = "none"
    BY CoreFacts DEF DeployInv, Core, RecordInv, Barren
  <1>11. out[w].tripwires = "active" =>
           Passed(pr) /\ tripwires = "none" /\ out[w].pr = 0 /\ out[w].status = "deployed" /\ ~Concluded /\ pr # 0
    <2>1. Passed(pr) => pr # 0
      BY CoreFacts DEF DeployInv, Passed
    <2>2. QED
      BY <1>9, <2>1 DEF DeployInv, Core, ActivationInv, Concluded
  <1>12. Concluded => Concluded'
    <2>1. SUFFICES ASSUME Concluded PROVE Concluded'
      OBVIOUS
    <2>2. CASE out[w].pr = 0
      BY <1>1, <1>7, <2>1, <2>2 DEF Concluded, Barren
    <2>3. CASE out[w].pr # 0
      BY <1>1, <1>7, <1>10, <2>1, <2>3 DEF Concluded, Barren
    <2>4. QED
      BY <2>2, <2>3
  <1>13. out[w].tripwires # "none" => Concluded'
    <2>1. out[w].tripwires \in {"retired", "disabled"} => Concluded
      BY DEF DeployInv, Core, PastInv
    <2>2. out[w].tripwires = "active" => Concluded'
      BY <1>1, <1>11 DEF Concluded
    <2>3. QED
      BY <1>7, <1>12, <2>1, <2>2
  \* Another worker that is about to activate keeps this one from recording anything.
  <1>14. \A v \in Workers : v # w /\ out[v].tripwires = "active" =>
           /\ out[w].tripwires = "none" /\ out[w].pr = 0
           /\ Passed(pr) /\ pr = seen[v].pr /\ tripwires = "none" /\ pr # 0 /\ ~Concluded
    <2> SUFFICES ASSUME NEW v \in Workers, v # w, out[v].tripwires = "active"
        PROVE  /\ out[w].tripwires = "none" /\ out[w].pr = 0
               /\ Passed(pr) /\ pr = seen[v].pr /\ tripwires = "none" /\ pr # 0 /\ ~Concluded
      OBVIOUS
    <2>1. Passed(pr) /\ pr = seen[v].pr /\ tripwires = "none"
      BY DEF DeployInv, Core, ActivationInv
    <2>2. pr # 0 /\ ~Concluded
      BY <1>9, <2>1, CoreFacts DEF DeployInv, Passed, Concluded
    <2>3. out[w].tripwires = "none"
      BY <1>5
    <2>4. QED
      BY <1>10, <2>1, <2>2, <2>3
  <1>15. ActivationInv'
    <2>1. PullsAreKind'
      BY <1>1 DEF DeployInv, Core, ActivationInv, PullsAreKind
    <2>2. \A v \in Workers : pc'[v] = "activate" => Passed(seen[v].pr)'
      BY <1>1, <1>3, <1>4 DEF DeployInv, Core, ActivationInv, Passed
    <2>3. \A v \in Workers : out'[v].tripwires = "active" =>
            /\ Passed(seen[v].pr)' /\ pr' = seen'[v].pr /\ tripwires' = "none" /\ out'[v].pr = 0
            /\ out'[v].status = "deployed"
      <3> SUFFICES ASSUME NEW v \in Workers, out'[v].tripwires = "active"
          PROVE  /\ Passed(seen[v].pr)' /\ pr' = seen'[v].pr /\ tripwires' = "none" /\ out'[v].pr = 0
                 /\ out'[v].status = "deployed"
        OBVIOUS
      <3>1. v # w /\ out[v].tripwires = "active" /\ out'[v] = out[v] /\ seen'[v] = seen[v]
        BY <1>3, <1>4
      <3>2. pr' = pr /\ tripwires' = tripwires
        BY <1>1, <1>14, <3>1
      <3>3. Passed(seen[v].pr)'
        BY <1>1, <1>14, <3>1 DEF Passed
      <3>4. QED
        BY <3>1, <3>2, <3>3 DEF DeployInv, Core, ActivationInv
    <2>4. tripwires' # "none" => pr' # 0
      BY <1>1, <1>13 DEF DeployInv, Core, ActivationInv, Concluded
    <2>5. MonitoringVerified'
      <3>1. ASSUME tripwires' = "active" PROVE \E n \in DeployPulls : pulls[n].state = "merged" /\ pulls[n].files = "approved"
        BY <1>1, <1>11, <3>1 DEF DeployInv, Core, ActivationInv, MonitoringVerified, Passed, DeployPulls
      <3>2. QED
        BY <1>1, <3>1 DEF MonitoringVerified, DeployPulls
    <2>6. QED
      BY <2>1, <2>2, <2>3, <2>4, <2>5 DEF ActivationInv
  <1>16. RecordInv'
    <2>1. \A v \in Workers : seen'[v].pr # 0 => pr' # 0 /\ (seen'[v].pr = pr' \/ Barren(pr)')
      BY <1>1, <1>3, <1>4, <1>10 DEF DeployInv, Core, RecordInv, Barren
    <2>2. \A v \in Workers : op'[v] = "execute" /\ seen'[v].pr = 0 => pr' = 0
      <3> SUFFICES ASSUME NEW v \in Workers, op'[v] = "execute", seen'[v].pr = 0 PROVE pr' = 0
        OBVIOUS
      <3>1. v # w /\ op[v] = "execute" /\ pr = 0
        BY <1>3, <1>4 DEF DeployInv, Core, RecordInv
      <3>2. QED
        BY <1>1, <1>6, <1>10, <3>1 DEF Concluded
    <2>3. \A v \in Workers : out'[v].pr # 0 =>
            \/ pulls'[out'[v].pr].kind = "removal" /\ op'[v] \in Removals /\ Concluded'
            \/ op'[v] = "execute" /\ seen'[v].pr = 0 /\ pulls'[out'[v].pr].kind = "deploy"
                 /\ out'[v].tripwires = "none"
      BY <1>1, <1>3, <1>4, <1>12 DEF DeployInv, Core, RecordInv
    <2>4. tripwires' = "none" /\ Barren(pr)' => \A v \in Workers : seen'[v].pr # 0 => Barren(seen[v].pr)'
      <3> SUFFICES ASSUME tripwires' = "none", Barren(pr)', NEW v \in Workers, seen'[v].pr # 0
          PROVE  Barren(seen[v].pr)'
        OBVIOUS
      <3>1. v # w /\ seen'[v] = seen[v] /\ tripwires = "none" /\ pr # 0
        BY <1>1, <1>3, <1>4 DEF DeployInv, Core, RecordInv
      <3>2. Barren(pr)
        BY <1>1, <1>10, <3>1 DEF Barren, Concluded
      <3>3. Barren(seen[v].pr)
        BY <3>1, <3>2 DEF DeployInv, Core, RecordInv
      <3>4. QED
        BY <1>1, <3>1, <3>3 DEF Barren
    <2>5. QED
      BY <2>1, <2>2, <2>3, <2>4 DEF RecordInv
  <1>17. PastInv'
    <2>1. status' \in Past => Concluded'
      BY <1>1, <1>12, <1>13 DEF DeployInv, Core, PastInv
    <2>2. QED
      BY <1>2, <1>3, <1>4, <1>12, <2>1 DEF DeployInv, Core, PastInv, Past
  <1>18. SilenceInv'
    <2>1. CASE out[w].tripwires = "active"
      <3>1. pr' = pr /\ status' = "deployed" /\ tripwires' = "active" /\ pulls[pr].kind = "deploy"
        BY <1>1, <1>11, <2>1 DEF Passed
      <3>2. \A v \in Workers : seen[v].pr # 0 => seen[v].pr = pr
        BY <1>9, <1>11, <2>1 DEF DeployInv, Core, RecordInv
      <3>3. \A v \in Workers : pc[v] # "remove" /\ ~(out[v].pr # 0 /\ op[v] \in Removals) /\ out[v].status \notin Silent
        BY <1>11, <2>1 DEF DeployInv, Core, PastInv, RecordInv, SilenceInv, Removals
      <3>4. QED
        BY <1>1, <1>3, <1>4, <3>1, <3>2, <3>3 DEF SilenceInv, RetiredIsSilent, Silent
    <2>2. CASE out[w].tripwires # "active"
      <3>1. tripwires # "active" => tripwires' # "active"
        BY <1>1, <2>2
      <3>2. \A v \in Workers : seen'[v].pr # 0 /\ pulls'[seen'[v].pr].kind = "removal" => tripwires' # "active"
        BY <1>1, <1>3, <1>4, <3>1 DEF DeployInv, Core, SilenceInv
      <3>3. pr' # 0 /\ pulls'[pr'].kind = "removal" => tripwires' # "active"
        BY <1>1, <1>7, <1>10, <2>2, <3>1 DEF DeployInv, Core, SilenceInv
      <3>4. \A v \in Workers : pc'[v] = "remove" \/ (out'[v].pr # 0 /\ op'[v] \in Removals) =>
              out'[v].tripwires \in {"retired", "disabled"} \/ (out'[v].tripwires = "none" /\ tripwires' # "active")
        BY <1>3, <1>4, <3>1 DEF DeployInv, Core, SilenceInv
      <3>5. \A v \in Workers : out'[v].status \in Silent =>
              tripwires' # "active" /\ Concluded' /\ out'[v].tripwires = "none"
        BY <1>3, <1>4, <1>12, <3>1 DEF DeployInv, Core, SilenceInv, Silent
      <3>6. RetiredIsSilent'
        BY <1>1, <3>1 DEF DeployInv, Core, SilenceInv, RetiredIsSilent, Silent
      <3>7. QED
        BY <3>2, <3>3, <3>4, <3>5, <3>6 DEF SilenceInv
    <2>3. QED
      BY <2>1, <2>2
  <1>19. QED
    BY <1>15, <1>16, <1>17, <1>18 DEF Core

\* Every step keeps the invariant.
LEMMA CoreStep == DeployInv /\ [Next]_vars => DeployInv'
  <1> SUFFICES ASSUME DeployInv, [Next]_vars PROVE DeployInv'
    OBVIOUS
  <1>0. Types /\ Types' /\ Held' /\ Handlers \cup Workers = Actors
    BY TypesStep, HeldStep DEF DeployInv, Actors
  <1>1. SUFFICES Core'
    BY <1>0 DEF DeployInv
  <1>2. CASE Still /\ status' \in {status, "draft"}
    BY <1>2 DEF Still, DeployInv, Core, ActivationInv, PullsAreKind, Passed, MonitoringVerified, DeployPulls,
       RecordInv, Barren, Concluded, PastInv, Past, SilenceInv, RetiredIsSilent
  <1>3. ASSUME NEW x \in Actors, Rollback(x) PROVE Core'
    BY <1>0, <1>3, LostShape, CoreLost
  <1>4. ASSUME NEW w \in Workers,
               Execute(w) \/ VerifyWait(w) \/ VerifyClosed(w) \/ VerifyMerged(w) \/ Disable(w) \/ Remove(w)
        PROVE  Core'
    <2>1. ASSUME NEW r \in {"done", "failed"}, Finish(w, r) PROVE Core'
      BY <1>0, <2>1, LostShape, CoreLost
    <2>2. ASSUME NEW s \in {"failed", "cancelled"}, pc[w] \in {"act", "remove"}, SetStatus(w, s) PROVE Core'
      BY <2>2, CoreSetStatus DEF Past, Silent
    <2>3. ASSUME pc[w] = "act", seen[w].pr # 0, pulls[seen[w].pr].state = "merged",
                 pulls[seen[w].pr].files # "approved", SetStatus(w, "verification_failed")
          PROVE  Core'
      <3>1. Barren(seen[w].pr)
        BY <2>3, CoreFacts DEF DeployInv, Barren
      <3>2. Concluded
        BY <2>3, <3>1 DEF DeployInv, Core, RecordInv, Concluded
      <3>3. QED
        BY <2>3, <3>2, CoreSetStatus DEF Silent
    <2>4. ASSUME pc[w] = "act", seen[w].pr # 0, seen[w].status \in {"retiring", "rollback_pending"},
                 pulls[seen[w].pr].files = "none", NEW s \in {"retired", "rolled_back"}, SetStatus(w, s)
          PROVE  Core'
      <3>1. Concluded
        BY <2>4 DEF DeployInv, Core, PastInv, Past
      <3>2. pulls[seen[w].pr].kind = "removal"
        BY <2>4, CoreFacts DEF DeployInv, Core, ActivationInv, PullsAreKind
      <3>3. tripwires # "active"
        BY <2>4, <3>2 DEF DeployInv, Core, SilenceInv
      <3>4. QED
        BY <2>4, <3>1, <3>3, CoreSetStatus
    <2>5. CASE pc[w] = "remove" /\ OpenPull(w, "removal")
      BY <2>5, CoreOpenPull DEF DeployInv, Held
    <2>6. QED
      BY <1>0, <1>4, <2>1, <2>2, <2>3, <2>4, <2>5, WorkerCases, CoreOpenPull, CorePass, CoreDisable
  <1>5. QED
    BY <1>0, <1>2, <1>3, <1>4, StepCases, CoreHandler, CoreClaim, CoreActivate, CoreFlush, CorePull

\* Tripwires are active only after a human has merged the approved files and the worker has
\* compared them (verify): no overlap of workers and handlers activates anything else.
THEOREM MonitoringAfterMerge == Spec => []MonitoringVerified
  <1>1. DeployInv => MonitoringVerified
    BY DEF DeployInv, Core, ActivationInv
  <1>2. Init => DeployInv
    BY TypesInit, HeldInit, CoreInit DEF DeployInv
  <1>3. QED
    BY <1>1, <1>2, CoreStep, PTL DEF Spec

\* A deployment that is retired or rolled back has no active tripwires: the removal has
\* switched them off before it was recorded, and none can be inserted after it.
THEOREM RemovalSilences == Spec => []RetiredIsSilent
  <1>1. DeployInv => RetiredIsSilent
    BY DEF DeployInv, Core, SilenceInv
  <1>2. Init => DeployInv
    BY TypesInit, HeldInit, CoreInit DEF DeployInv
  <1>3. QED
    BY <1>1, <1>2, CoreStep, PTL DEF Spec

-----------------------------------------------------------------------------
(* One pull request. *)

\* The pull requests are finitely many.
LEMMA PullsFinite ==
  ASSUME Types PROVE IsFiniteSet(DeployPulls) /\ Cardinality(DeployPulls) \in Nat
  <1>1. DeployPulls \subseteq 1..Len(pulls) /\ Len(pulls) \in Nat
    BY CoreFacts DEF DeployPulls
  <1>2. IsFiniteSet(1..Len(pulls))
    BY <1>1, FS_Interval
  <1>3. IsFiniteSet(DeployPulls)
    BY <1>1, <1>2, FS_Subset
  <1>4. QED
    BY <1>3, FS_CardinalityType

\* A step that opens no pull request, records none and loses none.
LEMMA OrphanKept ==
  ASSUME OrphanInv, DeployPulls' = DeployPulls, orphans' = orphans, pr # 0 => pr' # 0,
         Opening \subseteq Opening', Types
  PROVE  OrphanInv'
  <1>1. Cardinality(DeployPulls) \in Nat /\ orphans \in Nat
    BY PullsFinite DEF Types, LockTypes
  <1>2. (pr # 0 \/ Opening # {}) => (pr' # 0 \/ Opening' # {})
    OBVIOUS
  <1>3. QED
    BY <1>1, <1>2 DEF OrphanInv

\* Every step keeps the count.
LEMMA OrphanStep == DeployInv /\ OrphanInv /\ [Next]_vars => OrphanInv'
  <1> SUFFICES ASSUME DeployInv, OrphanInv, [Next]_vars PROVE OrphanInv'
    OBVIOUS
  <1>0. /\ Types /\ Handlers \cap Workers = {} /\ Handlers \cup Workers = Actors
        /\ Cardinality(DeployPulls) \in Nat /\ orphans \in Nat
    BY ActorAssumption, PullsFinite DEF DeployInv, Actors, Types, LockTypes
  <1>1. CASE Still
    <2>1. DeployPulls' = DeployPulls /\ Opening' = Opening
      BY <1>1 DEF Still, DeployPulls, Opening
    <2>2. QED
      BY <1>0, <1>1, <2>1, OrphanKept DEF Still
  <1>2. ASSUME NEW x \in Actors, Alone(x), UNCHANGED <<pr, pulls, orphans>>, x \notin Opening PROVE OrphanInv'
    <2>1. DeployPulls' = DeployPulls
      BY <1>2 DEF DeployPulls
    <2>2. Opening \subseteq Opening'
      BY <1>0, <1>2 DEF Opening, Alone
    <2>3. QED
      BY <1>0, <1>2, <2>1, <2>2, OrphanKept
  <1>3. ASSUME NEW h \in Handlers,
               (\E o \in DOMAIN Target, k \in Keys : Load(h, o, k)) \/ WriteStatus(h) \/ Decide(h) \/ Requeue(h)
        PROVE  OrphanInv'
    <2>1. Alone(h) /\ UNCHANGED <<pr, pulls, orphans>>
      BY <1>0, <1>3, LoadShape, WriteShape, CommitShape
    <2>2. QED
      BY <1>0, <1>2, <2>1 DEF Opening
  <1>4. ASSUME NEW w \in Workers, NEW t \in JobTypes, Claim(w, t) PROVE OrphanInv'
    BY <1>0, <1>2, <1>4, ClaimShape DEF Opening, DeployInv, Held
  <1>5. ASSUME NEW w \in Workers, NEW kind \in {"deploy", "removal"}, OpenPull(w, kind),
               \/ kind = "deploy" /\ pc[w] = "act" /\ op[w] = "execute" /\ seen[w].pr = 0
               \/ kind = "removal" /\ pc[w] = "remove"
        PROVE  OrphanInv'
    <2>1. CASE kind = "removal"
      <3>1. DeployPulls' = DeployPulls
        <4>1. \A n \in DOMAIN pulls' : n \in DOMAIN pulls \/ n = Len(pulls) + 1
          BY <1>0, <1>5, OpenPullShape
        <4>2. DOMAIN pulls \subseteq DOMAIN pulls'
          BY <1>0, <1>5, OpenPullShape
        <4>3. QED
          BY <1>0, <1>5, <2>1, <4>1, <4>2, OpenPullShape DEF DeployPulls
      <3>2. Opening \subseteq Opening'
        BY <1>0, <1>5, <2>1, OpenPullGoesOn DEF Opening, GoesOn, Alone, DeployInv, Held
      <3>3. QED
        BY <1>0, <1>5, <3>1, <3>2, OpenPullShape, OrphanKept
    <2>2. CASE kind = "deploy"
      <3>1. pr = 0
        BY <1>5, <2>2 DEF DeployInv, Core, RecordInv
      <3>2. Opening = {}
        <4>1. jobLock["execute"] = w /\ out[w].pr = 0
          BY <1>5, <2>2 DEF DeployInv, Held
        <4>2. \A v \in Workers : op[v] = "execute" => v = w
          BY <4>1 DEF DeployInv, Held
        <4>3. QED
          BY <4>1, <4>2 DEF Opening
      <3>3. Cardinality(DeployPulls) <= orphans
        BY <1>0, <3>1, <3>2 DEF OrphanInv
      <3>4. w \in Opening'
        <4>1. out'[w].pr # 0 /\ op'[w] = op[w]
          BY <1>0, <1>5, OpenPullShape, OpenPullGoesOn DEF GoesOn
        <4>2. QED
          BY <1>5, <2>2, <4>1 DEF Opening
      <3>5. DeployPulls' \subseteq DeployPulls \cup {Len(pulls) + 1}
        <4>1. \A n \in DOMAIN pulls' : n \in DOMAIN pulls \/ n = Len(pulls) + 1
          BY <1>0, <1>5, OpenPullShape
        <4>2. QED
          BY <1>0, <1>5, <4>1, OpenPullShape DEF DeployPulls
      <3>6. Cardinality(DeployPulls') <= Cardinality(DeployPulls) + 1 /\ Cardinality(DeployPulls') \in Nat
        <4>1. IsFiniteSet(DeployPulls)
          BY <1>0, PullsFinite
        <4>2. /\ IsFiniteSet(DeployPulls \cup {Len(pulls) + 1})
              /\ Cardinality(DeployPulls \cup {Len(pulls) + 1}) <= Cardinality(DeployPulls) + 1
          BY <1>0, <4>1, FS_AddElement
        <4>3. /\ IsFiniteSet(DeployPulls')
              /\ Cardinality(DeployPulls') <= Cardinality(DeployPulls \cup {Len(pulls) + 1})
          BY <3>5, <4>2, FS_Subset
        <4>4. Cardinality(DeployPulls') \in Nat /\ Cardinality(DeployPulls \cup {Len(pulls) + 1}) \in Nat
          BY <4>2, <4>3, FS_CardinalityType
        <4>5. QED
          BY <1>0, <4>2, <4>3, <4>4
      <3>7. orphans' = orphans
        BY <1>0, <1>5, OpenPullShape
      <3>8. QED
        BY <1>0, <3>3, <3>4, <3>6, <3>7 DEF OrphanInv
    <2>3. QED
      BY <2>1, <2>2
  <1>6. ASSUME NEW w \in Workers, pc[w] \in {"act", "activate", "remove"}, Alone(w), UNCHANGED <<pr, pulls, orphans>>
        PROVE  OrphanInv'
    BY <1>0, <1>2, <1>6 DEF Opening, DeployInv, Held
  <1>7. ASSUME NEW w \in Workers,
               Execute(w) \/ VerifyWait(w) \/ VerifyClosed(w) \/ VerifyMerged(w) \/ Disable(w) \/ Remove(w)
        PROVE  OrphanInv'
    <2>1. ASSUME NEW r \in {"done", "failed"}, Finish(w, r), pc[w] = "act" PROVE OrphanInv'
      <3>1. Alone(w) /\ UNCHANGED <<pr, pulls, orphans>>
        BY <1>0, <2>1, LostShape DEF Finish
      <3>2. QED
        BY <1>6, <2>1, <3>1
    <2>2. ASSUME NEW s, SetStatus(w, s), pc[w] \in {"act", "remove"} PROVE OrphanInv'
      BY <1>0, <1>6, <2>2, SetStatusShape DEF GoesOn
    <2>3. ASSUME PassVerification(w), pc[w] = "act" PROVE OrphanInv'
      BY <1>0, <1>6, <2>3, PassShape DEF GoesOn
    <2>4. ASSUME Disable(w), ~Finish(w, "done") PROVE OrphanInv'
      BY <1>0, <1>6, <2>4, DisableShape DEF GoesOn
    <2>5. QED
      BY <1>0, <1>5, <1>7, <2>1, <2>2, <2>3, <2>4, WorkerCases
  <1>8. ASSUME NEW w \in Workers, Activate(w) PROVE OrphanInv'
    BY <1>0, <1>6, <1>8, ActivateShape DEF GoesOn
  <1>9. ASSUME NEW w \in Workers, Flush(w) PROVE OrphanInv'
    <2>1. DeployPulls' = DeployPulls /\ orphans' = orphans
      BY <1>0, <1>9, FlushShape DEF DeployPulls
    <2>2. CASE pr' # 0
      BY <1>0, <2>1, <2>2 DEF OrphanInv
    <2>3. CASE pr' = 0
      <3>1. pr = 0 /\ w \notin Opening
        BY <1>0, <1>9, <2>3, FlushShape DEF Opening
      <3>2. QED
        BY <1>0, <1>2, <1>9, <2>1, <2>3, <3>1, FlushShape
    <2>4. QED
      BY <2>2, <2>3
  <1>10. ASSUME NEW x \in Actors, Rollback(x) PROVE OrphanInv'
    <2>1. /\ Alone(x) /\ UNCHANGED <<pr, pulls>>
          /\ orphans' = orphans + IF op[x] = "execute" /\ out[x].pr # 0 THEN 1 ELSE 0
      BY <1>0, <1>10, LostShape DEF Rollback
    <2>2. CASE op[x] = "execute" /\ out[x].pr # 0
      <3>1. DeployPulls' = DeployPulls /\ orphans' = orphans + 1
        BY <2>1, <2>2 DEF DeployPulls
      <3>2. QED
        BY <1>0, <3>1 DEF OrphanInv
    <2>3. CASE ~(op[x] = "execute" /\ out[x].pr # 0)
      <3>1. orphans' = orphans /\ x \notin Opening
        BY <1>0, <2>1, <2>3 DEF Opening
      <3>2. QED
        BY <1>2, <2>1, <3>1
    <2>4. QED
      BY <2>2, <2>3
  <1>11. ASSUME NEW n, MergePull(n) \/ ClosePull(n) PROVE OrphanInv'
    <2>1. DeployPulls' = DeployPulls
      BY <1>0, <1>11, PullShape DEF DeployPulls
    <2>2. Opening' = Opening /\ UNCHANGED <<pr, orphans>>
      BY <1>0, <1>11, PullShape DEF Opening
    <2>3. QED
      BY <1>0, <2>1, <2>2, OrphanKept
  <1>12. QED
    BY <1>0, <1>1, <1>3, <1>4, <1>7, <1>8, <1>9, <1>10, <1>11, StepCases

\* A second pull request with decoys takes a transaction that was rolled back after it had
\* opened one: the row lock of the job and the recorded number exclude any other way.
THEOREM DuplicatesAreOrphans == Spec => []OnePullRequest
  <1>1. DeployInv /\ OrphanInv => OnePullRequest
    <2> SUFFICES ASSUME DeployInv, OrphanInv PROVE OnePullRequest
      OBVIOUS
    <2>1. Cardinality(DeployPulls) \in Nat /\ orphans \in Nat
      BY PullsFinite DEF DeployInv, Types, LockTypes
    <2>2. QED
      BY <2>1 DEF OrphanInv, OnePullRequest
  <1>2. Init => DeployInv /\ OrphanInv
    <2> SUFFICES ASSUME Init PROVE DeployInv /\ OrphanInv
      OBVIOUS
    <2>1. DeployInv
      BY TypesInit, HeldInit, CoreInit DEF DeployInv
    <2>2. DeployPulls = {} /\ orphans = 0
      BY DEF Init, DeployPulls
    <2>3. Cardinality(DeployPulls) = 0
      BY <2>2, FS_EmptySet
    <2>4. QED
      BY <2>1, <2>2, <2>3 DEF OrphanInv
  <1>3. QED
    BY <1>1, <1>2, CoreStep, OrphanStep, PTL DEF Spec

=============================================================================
