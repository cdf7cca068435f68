---------------------- MODULE IntegrationDeliveryProofs ----------------------
(***************************************************************************)
(* What the export of security events guarantees for every number of runs, *)
(* operators, integrations and events, and every batch: a delivery is      *)
(* recorded as delivered once, and only a test turns an integration that   *)
(* was degraded or revoked active again.                                   *)
(*                                                                         *)
(* The first rests on the lock of a row, which a run takes only while the  *)
(* row is open and which keeps operators and retention from it until the   *)
(* commit; the second on what a run has loaded: it writes a status only    *)
(* where it differs from the "active" it saw.                              *)
(***************************************************************************)
EXTENDS IntegrationDelivery, TLAPS

Columns == {"status", "attempts", "due"}

\* Tables and counters, as far as the arguments need their shape.
RowsShaped ==
  /\ DOMAIN delivery = Deliveries /\ \A d \in Deliveries : DOMAIN delivery[d] = Columns
  /\ DOMAIN row = Workers
  /\ \A w \in Workers : DOMAIN row[w] = Deliveries /\ \A d \in Deliveries : DOMAIN row[w][d] = Columns
  /\ deliveryLock \in [Deliveries -> Workers \cup {None}]
  /\ requeued \in [Deliveries -> Nat] /\ delivered \in [Deliveries -> Nat]

\* What a run holds is open, and nobody else writes it.
LockedIsOpen == \A d \in Deliveries : deliveryLock[d] # None => delivery[d].status \in Open

\* A delivery that is still to be made was delivered at most as often as it was retried after
\* it had been settled.
OpenIsUndelivered ==
  \A d \in Deliveries : delivery[d].status \notin Settled => delivered[d] <= requeued[d]

\* The inductive invariant behind DeliveredOnce.
OutboxInv == RowsShaped /\ LockedIsOpen /\ OpenIsUndelivered /\ DeliveredOnce

\* A row has its three columns.
LEMMA RowShape ==
  ASSUME NEW s, NEW n, NEW due PROVE DOMAIN Row(s, n, due) = Columns /\ Row(s, n, due).status = s
  BY DEF Row, Columns

\* The invariant holds of the empty tables.
LEMMA OutboxInit == Init => OutboxInv
  <1> SUFFICES ASSUME Init PROVE OutboxInv
    OBVIOUS
  <1>1. DOMAIN NoRow = Columns /\ NoRow.status = "none"
    BY RowShape DEF NoRow
  <1>2. RowsShaped
    BY <1>1 DEF Init, RowsShaped, AllRows
  <1>3. LockedIsOpen /\ OpenIsUndelivered /\ DeliveredOnce
    BY DEF Init, LockedIsOpen, OpenIsUndelivered, DeliveredOnce
  <1>4. QED
    BY <1>2, <1>3 DEF OutboxInv

\* A step that leaves what the invariant reads.
LEMMA OutboxKept ==
  ASSUME OutboxInv, UNCHANGED <<delivery, row, deliveryLock, history>> PROVE OutboxInv'
  BY DEF OutboxInv, RowsShaped, LockedIsOpen, OpenIsUndelivered, DeliveredOnce, history

\* A run that writes rows of its own, and takes no lock.
LEMMA MarkKeeps ==
  ASSUME OutboxInv, NEW w \in Workers, NEW s, Mark(w, s), UNCHANGED <<delivery, deliveryLock, history>>
  PROVE  OutboxInv'
  <1>1. PICK n, due : row' = [row EXCEPT ![w][Current(w)] = Row(s, n, due)]
    BY DEF Mark
  <1>2. RowsShaped'
    BY <1>1, RowShape DEF OutboxInv, RowsShaped, history
  <1>3. QED
    BY <1>2 DEF OutboxInv, LockedIsOpen, OpenIsUndelivered, DeliveredOnce, history

\* A run that ends releases its locks and forgets its rows.
LEMMA EndRunShape ==
  ASSUME OutboxInv, NEW w \in Workers, EndRun(w)
  PROVE  /\ deliveryLock' \in [Deliveries -> Workers \cup {None}]
         /\ \A d \in Deliveries : deliveryLock'[d] = IF deliveryLock[d] = w THEN None ELSE deliveryLock[d]
         /\ DOMAIN row' = Workers
         /\ \A v \in Workers : DOMAIN row'[v] = Deliveries /\ \A d \in Deliveries : DOMAIN row'[v][d] = Columns
  <1>1. DOMAIN NoRow = Columns
    BY RowShape DEF NoRow
  <1>2. QED
    BY <1>1 DEF OutboxInv, RowsShaped, EndRun, Release, AllRows

\* A request that is answered writes at most its own delivery, which no run holds.
LEMMA RetryKeeps ==
  ASSUME OutboxInv, NEW h \in Handlers, Retry(h) PROVE OutboxInv'
  <1> DEFINE d == request[h].target
             s == Assigned(request[h].loaded, delivery[d].status, "queued")
             new == Row(s, delivery[d].attempts, TRUE)
             again == IF delivery[d].status \in Settled /\ delivery'[d].status = "queued" THEN 1 ELSE 0
  <1>1. /\ deliveryLock[d] = None \/ d \notin Deliveries
        /\ delivery' = [delivery EXCEPT ![d] = new]
        /\ requeued' = [requeued EXCEPT ![d] = @ + again]
        /\ UNCHANGED <<row, deliveryLock, delivered>>
    BY DEF Retry, Free, locks, run
  <1>2. DOMAIN new = Columns /\ new.status = s /\ s \in {"queued", delivery[d].status}
    BY RowShape DEF Assigned
  <1>3. again \in {0, 1}
    OBVIOUS
  <1> HIDE DEF new, again, s, d
  <1>4. RowsShaped'
    <2>1. DOMAIN delivery' = Deliveries /\ \A x \in Deliveries : DOMAIN delivery'[x] = Columns
      BY <1>1, <1>2 DEF OutboxInv, RowsShaped
    <2>2. requeued' \in [Deliveries -> Nat]
      <3>1. \A x \in Nat : x + again \in Nat
        BY <1>3
      <3>2. QED
        BY <1>1, <3>1 DEF OutboxInv, RowsShaped
    <2>3. QED
      BY <1>1, <2>1, <2>2 DEF OutboxInv, RowsShaped
  <1>5. \A x \in Deliveries : x # d => delivery'[x] = delivery[x] /\ requeued'[x] = requeued[x]
    BY <1>1 DEF OutboxInv, RowsShaped
  <1>6. d \in Deliveries => delivery'[d] = new /\ requeued'[d] = requeued[d] + again
    BY <1>1 DEF OutboxInv, RowsShaped
  <1>7. LockedIsOpen'
    BY <1>1, <1>5 DEF OutboxInv, LockedIsOpen
  <1>8. OpenIsUndelivered'
    <2> SUFFICES ASSUME NEW x \in Deliveries, delivery'[x].status \notin Settled
        PROVE delivered[x] <= requeued'[x]
      BY <1>1 DEF OpenIsUndelivered
    <2>1. requeued[x] \in Nat /\ delivered[x] \in Nat
      BY DEF OutboxInv, RowsShaped
    <2>2. CASE x # d \/ delivery[x].status \notin Settled
      <3>1. delivered[x] <= requeued[x]
        BY <1>5, <2>2 DEF OutboxInv, OpenIsUndelivered
      <3>2. requeued'[x] = requeued[x] \/ requeued'[x] = requeued[x] + again
        BY <1>5, <1>6
      <3>3. QED
        BY <1>3, <2>1, <3>1, <3>2
    <2>3. CASE x = d /\ delivery[x].status \in Settled
      <3>1. delivery'[x].status = "queued"
        BY <1>2, <1>6, <2>3
      <3>2. again = 1
        BY <2>3, <3>1 DEF again
      <3>3. QED
        BY <1>6, <2>1, <2>3, <3>2 DEF OutboxInv, DeliveredOnce
    <2>4. QED
      BY <2>2, <2>3
  <1>9. DeliveredOnce'
    BY <1>1, <1>3, <1>5, <1>6 DEF OutboxInv, RowsShaped, DeliveredOnce
  <1>10. QED
    BY <1>4, <1>7, <1>8, <1>9 DEF OutboxInv

\* emit_event adds rows only where there is none.
LEMMA EmitKeeps ==
  ASSUME OutboxInv, NEW e \in Events, Emit(e) PROVE OutboxInv'
  <1>1. PICK new : /\ \A d \in new : d \in Deliveries => delivery[d] = NoRow
                   /\ delivery' = [d \in Deliveries |->
                        IF d \in new THEN Row("queued", 0, TRUE) ELSE delivery[d]]
                   /\ UNCHANGED <<row, deliveryLock, requeued, delivered>>
    <2> DEFINE new == {<<i, e>> : i \in {j \in Integrations : integration[j] = "active" /\ Matches(j, e)}}
             \ {d \in Deliveries : delivery[d] # NoRow}
    <2>1. /\ delivery' = [d \in Deliveries |-> IF d \in new THEN Row("queued", 0, TRUE) ELSE delivery[d]]
          /\ UNCHANGED <<row, deliveryLock, requeued, delivered>>
      BY DEF Emit, run, locks, history
    <2>2. \A d \in new : d \in Deliveries => delivery[d] = NoRow
      OBVIOUS
    <2> HIDE DEF new
    <2>3. QED
      BY <2>1, <2>2
  <1>2. DOMAIN Row("queued", 0, TRUE) = Columns /\ Row("queued", 0, TRUE).status = "queued"
    BY RowShape
  <1>3. NoRow.status = "none"
    BY RowShape DEF NoRow
  <1>4. RowsShaped'
    BY <1>1, <1>2 DEF OutboxInv, RowsShaped
  <1>5. LockedIsOpen'
    BY <1>1, <1>2 DEF OutboxInv, LockedIsOpen, Open
  <1>6. OpenIsUndelivered' /\ DeliveredOnce'
    BY <1>1, <1>2, <1>3 DEF OutboxInv, OpenIsUndelivered, DeliveredOnce, Settled
  <1>7. QED
    BY <1>4, <1>5, <1>6 DEF OutboxInv

\* The passing of a backoff leaves the status of the row.
LEMMA BackoffKeeps ==
  ASSUME OutboxInv, NEW d \in Deliveries, BackoffElapses(d) PROVE OutboxInv'
  <1> DEFINE new == [delivery[d] EXCEPT !.due = TRUE]
  <1>1. delivery' = [delivery EXCEPT ![d] = new] /\ UNCHANGED <<row, deliveryLock, requeued, delivered>>
    BY DEF BackoffElapses, run, locks, history
  <1>2. DOMAIN new = Columns /\ new.status = delivery[d].status
    BY DEF OutboxInv, RowsShaped, Columns
  <1> HIDE DEF new
  <1>3. RowsShaped'
    BY <1>1, <1>2 DEF OutboxInv, RowsShaped
  <1>4. \A x \in Deliveries : delivery'[x].status = delivery[x].status
    BY <1>1, <1>2 DEF OutboxInv, RowsShaped
  <1>5. QED
    BY <1>1, <1>3, <1>4 DEF OutboxInv, LockedIsOpen, OpenIsUndelivered, DeliveredOnce

\* What retention deletes was settled, so no run holds it.
LEMMA PurgeKeeps ==
  ASSUME OutboxInv, NEW d \in Deliveries, Purge(d) PROVE OutboxInv'
  <1>1. /\ delivery[d].status \in Settled
        /\ delivery' = [delivery EXCEPT ![d] = NoRow]
        /\ requeued' = [requeued EXCEPT ![d] = 0] /\ delivered' = [delivered EXCEPT ![d] = 0]
        /\ UNCHANGED <<row, deliveryLock>>
    BY DEF Purge, run, locks
  <1>2. DOMAIN NoRow = Columns
    BY RowShape DEF NoRow
  <1>3. RowsShaped'
    BY <1>1, <1>2 DEF OutboxInv, RowsShaped
  <1>4. LockedIsOpen'
    BY <1>1 DEF OutboxInv, RowsShaped, LockedIsOpen, Open, Settled
  <1>5. OpenIsUndelivered' /\ DeliveredOnce'
    BY <1>1 DEF OutboxInv, RowsShaped, OpenIsUndelivered, DeliveredOnce
  <1>6. QED
    BY <1>3, <1>4, <1>5 DEF OutboxInv

\* A run takes the lock of a row only while the row is open.
LEMMA ClaimKeeps ==
  ASSUME OutboxInv, NEW w \in Workers, Claim(w) PROVE OutboxInv'
  <1> DEFINE d == Head(cand[w])
             won == delivery[d].status \in Open
             new == Row("delivering", delivery[d].attempts, TRUE)
  <1>1. /\ row' = [row EXCEPT ![w][d] = IF won THEN new ELSE @]
        /\ deliveryLock' = [deliveryLock EXCEPT ![d] = IF won THEN w ELSE @]
        /\ UNCHANGED <<delivery, requeued, delivered>>
    BY DEF Claim, rows, history
  <1>2. DOMAIN new = Columns
    BY RowShape
  <1> HIDE DEF new, d
  <1>3. RowsShaped'
    BY <1>1, <1>2 DEF OutboxInv, RowsShaped
  <1>4. LockedIsOpen'
    BY <1>1 DEF OutboxInv, RowsShaped, LockedIsOpen
  <1>5. QED
    BY <1>1, <1>3, <1>4 DEF OutboxInv, OpenIsUndelivered, DeliveredOnce

\* The rows a run commits were open until then, so none of them is delivered twice.
LEMMA CommitKeeps ==
  ASSUME OutboxInv, NEW w \in Workers, Commit(w) PROVE OutboxInv'
  <1>1. /\ EndRun(w) /\ requeued' = requeued
        /\ delivery' = [d \in Deliveries |-> IF deliveryLock[d] = w THEN row[w][d] ELSE delivery[d]]
        /\ delivered' = [d \in Deliveries |-> delivered[d] +
             IF deliveryLock[d] = w /\ row[w][d].status = "delivered" THEN 1 ELSE 0]
    BY DEF Commit
  <1>2. w # None
    BY ActorAssumption
  <1>3. RowsShaped'
    BY <1>1, EndRunShape DEF OutboxInv, RowsShaped
  <1>4. LockedIsOpen'
    BY <1>1, <1>2, EndRunShape DEF OutboxInv, LockedIsOpen
  <1>5. OpenIsUndelivered' /\ DeliveredOnce'
    <2> SUFFICES ASSUME NEW d \in Deliveries
        PROVE /\ delivery'[d].status \notin Settled => delivered'[d] <= requeued'[d]
              /\ delivered'[d] <= 1 + requeued'[d]
      BY DEF OpenIsUndelivered, DeliveredOnce
    <2>1. requeued[d] \in Nat /\ delivered[d] \in Nat
      BY DEF OutboxInv, RowsShaped
    <2>2. CASE deliveryLock[d] = w
      <3>1. delivered[d] <= requeued[d]
        BY <1>2, <2>2 DEF OutboxInv, LockedIsOpen, OpenIsUndelivered, Open, Settled
      <3>2. QED
        BY <1>1, <2>1, <2>2, <3>1 DEF Settled
    <2>3. CASE deliveryLock[d] # w
      BY <1>1, <2>1, <2>3 DEF OutboxInv, OpenIsUndelivered, DeliveredOnce
    <2>4. QED
      BY <2>2, <2>3
  <1>6. QED
    BY <1>3, <1>4, <1>5 DEF OutboxInv

\* A run that is lost takes nothing with it but its locks.
LEMMA LoseKeeps ==
  ASSUME OutboxInv, NEW w \in Workers, Lose(w) PROVE OutboxInv'
  <1>1. EndRun(w) /\ UNCHANGED <<delivery, requeued, delivered>>
    BY DEF Lose, rows, history
  <1>2. RowsShaped'
    BY <1>1, EndRunShape DEF OutboxInv, RowsShaped
  <1>3. LockedIsOpen'
    BY <1>1, EndRunShape DEF OutboxInv, LockedIsOpen
  <1>4. QED
    BY <1>1, <1>2, <1>3 DEF OutboxInv, OpenIsUndelivered, DeliveredOnce

\* Every step keeps the invariant.
LEMMA OutboxStep == OutboxInv /\ [Next]_vars => OutboxInv'
  <1> SUFFICES ASSUME OutboxInv, [Next]_vars PROVE OutboxInv'
    OBVIOUS
  <1>1. ASSUME NEW i \in Integrations, CreateIntegration(i) PROVE OutboxInv'
    BY <1>1, OutboxKept DEF CreateIntegration, run, locks
  <1>2. ASSUME NEW h \in Handlers, Operator(h) PROVE OutboxInv'
    <2>1. ASSUME NEW op, NEW x, Request(h, op, x) PROVE OutboxInv'
      BY <2>1, OutboxKept DEF Request, rows, run, locks
    <2>2. ASSUME NEW s, SetStatus(h, s) PROVE OutboxInv'
      BY <2>2, OutboxKept DEF SetStatus, run, locks
    <2>3. CASE Abort(h)
      BY <2>3, OutboxKept DEF Abort, rows, run, locks
    <2>4. QED
      BY <1>2, <2>1, <2>2, <2>3, RetryKeeps DEF Operator, Disable, Test
  <1>3. ASSUME NEW w \in Workers, Progress(w) PROVE OutboxInv'
    <2>1. CASE Select(w) \/ Load(w) \/ Send(w)
      BY <2>1, OutboxKept DEF Select, Load, Send, rows, locks
    <2>2. CASE Refuse(w)
      BY <2>2, MarkKeeps DEF Refuse, rows, locks
    <2>3. CASE RecordDelivered(w)
      BY <2>3, MarkKeeps DEF RecordDelivered, rows
    <2>4. CASE RecordGivenUp(w)
      BY <2>4, MarkKeeps DEF RecordGivenUp, rows
    <2>5. CASE RecordRetry(w)
      BY <2>5, MarkKeeps DEF RecordRetry, rows, locks
    <2>6. QED
      BY <1>3, <2>1, <2>2, <2>3, <2>4, <2>5, ClaimKeeps, CommitKeeps DEF Progress
  <1>4. CASE UNCHANGED vars
    BY <1>4, OutboxKept DEF vars, rows, run, locks
  <1>5. QED
    BY <1>1, <1>2, <1>3, <1>4, EmitKeeps, BackoffKeeps, PurgeKeeps, LoseKeeps DEF Next

\* A delivery is recorded as delivered once, and once more for every time an operator retried
\* it after it was settled: the re-check of the status in claim_deliveries under the row lock,
\* and requeue_delivery waiting for that lock.
THEOREM RetriesNeverDuplicate == Spec => []DeliveredOnce
  <1>1. OutboxInv => DeliveredOnce
    BY DEF OutboxInv
  <1>2. QED
    BY <1>1, OutboxInit, OutboxStep, PTL DEF Spec

-----------------------------------------------------------------------------

\* A run that is about to send, or has sent, loaded an active integration; the only status a
\* run writes is degraded.
RunInv ==
  /\ pc \in [Workers -> {"idle", "claim", "process", "send", "record", "commit"}]
  /\ DOMAIN seen = Workers
  /\ \A w \in Workers : pc[w] \in {"send", "record"} => seen[w] = "active"
  /\ status \in [Workers -> [Integrations -> {"none", "degraded"}]]
  /\ DOMAIN integration = Integrations /\ DOMAIN request = Handlers

\* The next step of a run after a claim or a delivery is neither of the two.
LEMMA NextStepRange ==
  ASSUME NEW a, NEW b PROVE NextStep(a, b) \in {"claim", "process", "commit"}
  BY DEF NextStep

\* The invariant holds before any run.
LEMMA RunInit == Init => RunInv
  BY DEF Init, RunInv, NoStatus

\* A run that goes on with the next delivery.
LEMMA MarkEndsDelivery ==
  ASSUME RunInv, NEW w \in Workers, NEW s, Mark(w, s),
         status' \in [Workers -> [Integrations -> {"none", "degraded"}]],
         UNCHANGED <<integration, request>>
  PROVE  RunInv'
  <1>1. PICK step \in {"claim", "process", "commit"} : pc' = [pc EXCEPT ![w] = step]
    BY NextStepRange DEF Mark, Goto
  <1>2. seen' = [seen EXCEPT ![w] = "none"]
    BY DEF Mark
  <1>3. QED
    BY <1>1, <1>2 DEF RunInv

\* Every step keeps it.
LEMMA RunStep == RunInv /\ [Next]_vars => RunInv'
  <1> SUFFICES ASSUME RunInv, [Next]_vars PROVE RunInv'
    OBVIOUS
  <1>1. ASSUME UNCHANGED <<pc, seen, status>>,
               DOMAIN integration' = Integrations, DOMAIN request' = Handlers
        PROVE  RunInv'
    BY <1>1 DEF RunInv
  <1>2. ASSUME NEW w \in Workers, EndRun(w),
               DOMAIN integration' = Integrations, request' = request
        PROVE  RunInv'
    BY <1>2 DEF RunInv, EndRun, Goto, NoStatus
  <1>3. ASSUME NEW w \in Workers, Progress(w) PROVE RunInv'
    <2>1. CASE Select(w)
      BY <2>1 DEF Select, Goto, RunInv, rows
    <2>2. CASE Claim(w)
      <3>1. PICK step \in {"claim", "process", "commit"} : pc' = [pc EXCEPT ![w] = step]
        BY <2>2, NextStepRange DEF Claim, Goto
      <3>2. QED
        BY <2>2, <3>1 DEF Claim, RunInv, rows
    <2>3. CASE Load(w)
      BY <2>3 DEF Load, Goto, RunInv, rows
    <2>4. CASE Send(w)
      BY <2>4 DEF Send, Goto, RunInv, rows
    <2>5. CASE Refuse(w)
      BY <2>5, MarkEndsDelivery DEF Refuse, RunInv, rows
    <2>6. CASE RecordDelivered(w)
      <3>1. seen[w] = "active"
        BY <2>6 DEF RecordDelivered, RunInv
      <3>2. status' \in [Workers -> [Integrations -> {"none", "degraded"}]]
        BY <2>6, <3>1 DEF RecordDelivered, SetRunStatus, Assigned, RunInv
      <3>3. QED
        BY <2>6, <3>2, MarkEndsDelivery DEF RecordDelivered, rows
    <2>7. CASE RecordGivenUp(w)
      <3>1. seen[w] = "active"
        BY <2>7 DEF RecordGivenUp, RunInv
      <3>2. status' \in [Workers -> [Integrations -> {"none", "degraded"}]]
        BY <2>7, <3>1 DEF RecordGivenUp, SetRunStatus, Assigned, RunInv
      <3>3. QED
        BY <2>7, <3>2, MarkEndsDelivery DEF RecordGivenUp, rows
    <2>8. CASE RecordRetry(w)
      BY <2>8, MarkEndsDelivery DEF RecordRetry, RunInv, rows
    <2>9. CASE Commit(w)
      BY <1>2, <2>9 DEF Commit, RunInv
    <2>10. QED
      BY <1>3, <2>1, <2>2, <2>3, <2>4, <2>5, <2>6, <2>7, <2>8, <2>9 DEF Progress
  <1>4. ASSUME NEW h \in Handlers, Operator(h) PROVE RunInv'
    BY <1>1, <1>4 DEF Operator, Request, Disable, Test, SetStatus, Retry, Abort, Answered, run, rows, RunInv
  <1>5. ASSUME NEW i \in Integrations, CreateIntegration(i) PROVE RunInv'
    BY <1>1, <1>5 DEF CreateIntegration, run, RunInv
  <1>6. ASSUME NEW e \in Events, Emit(e) PROVE RunInv'
    BY <1>1, <1>6 DEF Emit, run, RunInv
  <1>7. ASSUME NEW d \in Deliveries, BackoffElapses(d) \/ Purge(d) PROVE RunInv'
    BY <1>1, <1>7 DEF BackoffElapses, Purge, run, RunInv
  <1>8. ASSUME NEW w \in Workers, Lose(w) PROVE RunInv'
    BY <1>2, <1>8 DEF Lose, RunInv, rows
  <1>9. CASE UNCHANGED vars
    BY <1>1, <1>9 DEF vars, run, rows, RunInv
  <1>10. QED
    BY <1>3, <1>4, <1>5, <1>6, <1>7, <1>8, <1>9 DEF Next

\* What a step writes into the status of an integration that exists.
LEMMA ReactivationStep ==
  ASSUME RunInv, [Next]_vars, NEW i \in Integrations,
         integration[i] \in {"degraded", "revoked"}, integration'[i] = "active"
  PROVE  \E h \in Handlers : request[h].op = "test" /\ request'[h] = NoRequest
  <1>1. integration' # integration
    OBVIOUS
  <1>2. \A j \in Integrations : ~CreateIntegration(j)
    BY DEF CreateIntegration, RunInv
  <1>3. \A e \in Events : ~Emit(e)
    BY <1>1 DEF Emit
  <1>4. \A d \in Deliveries : ~BackoffElapses(d) /\ ~Purge(d)
    BY <1>1 DEF BackoffElapses, Purge
  <1>5. \A w \in Workers : ~Commit(w)
    BY DEF Commit, RunInv
  <1>6. \A w \in Workers : ~Progress(w) /\ ~Lose(w)
    BY <1>1, <1>5 DEF Progress, Lose, Select, Claim, Refuse, Load, Send, RecordDelivered,
       RecordGivenUp, RecordRetry, rows
  <1>7. PICK h \in Handlers : Operator(h)
    BY <1>1, <1>2, <1>3, <1>4, <1>6 DEF Next, vars, rows
  <1>8. ~Disable(h)
    BY DEF Disable, SetStatus, Assigned, RunInv
  <1>9. Test(h)
    BY <1>1, <1>7, <1>8 DEF Operator, Request, Retry, Abort, rows
  <1>10. request[h].op = "test" /\ request'[h] = NoRequest
    BY <1>9 DEF Test, SetStatus, Answered, RunInv
  <1>11. QED
    BY <1>10

\* An integration that an operator disabled, or that a run or a test found broken, becomes
\* active again by test_integration alone: the set_status(integration, "active") after a
\* successful delivery writes nothing, because the run loaded the row as active.
THEOREM ReactivationIsTested == Spec => OnlyTestReactivates
  <1>1. RunInv /\ [Next]_vars =>
          [\A i \in Integrations :
             integration[i] \in {"degraded", "revoked"} /\ integration'[i] = "active"
               => \E h \in Handlers : request[h].op = "test" /\ request'[h] = NoRequest]_vars
    BY ReactivationStep
  <1>2. QED
    BY <1>1, RunInit, RunStep, PTL DEF Spec, OnlyTestReactivates

=============================================================================
