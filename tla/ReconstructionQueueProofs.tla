--------------------- MODULE ReconstructionQueueProofs ---------------------
(***************************************************************************)
(* The compare-and-set of the claim is enough: whatever the number of      *)
(* runs, jobs and crashes, the processing of a job is committed once.      *)
(* With two runs at a time a finished job also stays visible.              *)
(* At the end, what the incidents list of the alerts (module Incidents).   *)
(***************************************************************************)
EXTENDS ReconstructionQueue, Incidents, FiniteSetTheorems, WellFoundedInduction, TLAPS

\* A locked job is pending in the table, and its holder has claimed it: it is settled,
\* or it waits in the holder's batch.
LockInv ==
  \A w \in Workers, j \in Jobs :
    jobLock[j] = w =>
      /\ status[j] = "pending"
      /\ outcome[w][j] \in {"claimed", "done", "failed"}
      /\ outcome[w][j] = "claimed" => \E k \in 1..Len(batch[w]) : batch[w][k] = j

\* A run processes a job of its batch, and has none left when it looks for more.
BatchInv ==
  \A w \in Workers :
    /\ pc[w] \in {"read", "lookup", "flush"} => batch[w] # <<>>
    /\ pc[w] \in {"idle", "orgs", "commit"} => batch[w] = <<>>

\* The history agrees with the table.
CountInv ==
  \A j \in Jobs : completions[j] = IF status[j] \in {"done", "failed"} THEN 1 ELSE 0

\* The inductive invariant.
IInv == TypeOK /\ LockInv /\ BatchInv /\ CountInv

\* The run has read the alerts and not yet written the incident.
Reading(w) == pc[w] \in {"lookup", "flush"}

\* Alerts only grow: nothing was read, written or required of them that is ahead of what they are.
SeenInv ==
  /\ \A a \in Alerts : version[a] <= Len(Spans[a])
  /\ \A j \in Jobs : status[j] # "none" =>
       /\ trigger[j] \in Alerts
       /\ 1 <= required[j] /\ required[j] <= version[trigger[j]]
  /\ \A w \in Workers, a \in Alerts : snap[w][a] <= version[a]
  /\ \A i \in Incidents, a \in Alerts : incident[i].at[a] <= version[a]
  /\ \A w \in Workers, i \in Incidents, a \in Alerts : written[w][i].at[a] <= version[a]

\* A run holds the jobs of its batch.
BatchHeld == \A w \in Workers : \A k \in 1..Len(batch[w]) : jobLock[batch[w][k]] = w

\* A run that has read sees the alert of its job, as it was when the job was enqueued or later.
SnapInv ==
  \A w \in Workers : Reading(w) => snap[w][trigger[Job(w)]] >= required[Job(w)]

\* The row r of incident i was built by a job of its trace.
Built(i, r) == r.by \in Jobs /\ status[r.by] # "none" /\ TraceOfJob(r.by) = i.trace

RowInv ==
  /\ \A i \in Incidents : incident[i] = NoRow \/ Built(i, incident[i])
  /\ \A w \in Workers, i \in Incidents : written[w][i] = NoRow \/ Built(i, written[w][i])

-----------------------------------------------------------------------------

\* What a run is sure of.
Base == IInv /\ SeenInv /\ BatchHeld /\ SnapInv /\ RowInv

\* A set of numbers that is not empty has a least one.
LEMMA LeastOf ==
  ASSUME NEW S \in SUBSET Nat, S # {}
  PROVE  Min(S) \in S
<1>1. PICK j \in S : \A k \in S : ~(<<k, j>> \in OpToRel(<, Nat))
  BY NatLessThanWellFounded, WFMin, Zenon
<1>2. ASSUME NEW k \in S PROVE j <= k
  <2>1. j \in Nat /\ k \in Nat
    OBVIOUS
  <2>2. ~(k < j)
    BY <1>1, <2>1 DEF OpToRel
  <2> QED BY <2>1, <2>2
<1> QED BY <1>2 DEF Min

\* The versions of an alert: each is a span, and covers the ones before.
LEMMA SpanFacts ==
  ASSUME NEW a \in Alerts, NEW m \in 1..Len(Spans[a]), NEW n \in 1..Len(Spans[a]), m <= n
  PROVE  /\ Spans[a][m].first \in Nat /\ Spans[a][m].last \in Nat
         /\ Spans[a][n].first \in Nat /\ Spans[a][n].last \in Nat
         /\ Spans[a][n].first <= Spans[a][m].first /\ Spans[a][m].first <= Spans[a][m].last
         /\ Spans[a][m].last <= Spans[a][n].last
<1>1. Spans[a] \in Seq([first : Nat, last : Nat])
  BY SpanAssumption
<1>2. Spans[a][m] \in [first : Nat, last : Nat] /\ Spans[a][n] \in [first : Nat, last : Nat]
  <2>1. \A R : \A s \in Seq(R) : \A k \in 1..Len(s) : s[k] \in R
    OBVIOUS
  <2> QED BY <1>1, <2>1
<1>3. /\ Spans[a][n].first <= Spans[a][m].first /\ Spans[a][m].first <= Spans[a][m].last
      /\ Spans[a][m].last <= Spans[a][n].last
  BY SpanAssumption
<1> QED BY <1>2, <1>3

\* A job whose window reaches an alert reaches its later versions.
LEMMA WindowReaches ==
  ASSUME NEW j \in Jobs, trigger[j] \in Alerts, required[j] \in 1..Len(Spans[trigger[j]]),
         NEW a \in Alerts, NEW m \in 1..Len(Spans[a]), NEW n \in 1..Len(Spans[a]), m <= n,
         InWindow(j, a, m)
  PROVE  InWindow(j, a, n)
<1> DEFINE f == Spans[trigger[j]][required[j]].first
           l == Spans[trigger[j]][required[j]].last
<1>1. f \in Nat /\ l \in Nat
  BY SpanFacts
<1>2. /\ Spans[a][m].first \in Nat /\ Spans[a][m].last \in Nat
      /\ Spans[a][n].first \in Nat /\ Spans[a][n].last \in Nat
      /\ Spans[a][n].first <= Spans[a][m].first /\ Spans[a][m].last <= Spans[a][n].last
  BY SpanFacts
<1>3. Spans[a][m].last >= f - Window /\ Spans[a][m].first <= l + Window
  BY DEF InWindow
<1>4. Spans[a][n].last >= f - Window /\ Spans[a][n].first <= l + Window
  <2> HIDE DEF f, l
  <2> QED BY <1>1, <1>2, <1>3, QueueAssumption
<1> QED BY <1>4 DEF InWindow

\* A job sees its own alert, and what it computes from what it sees identifies an incident of
\* the alert's trace.
LEMMA IdentityType ==
  ASSUME NEW j \in Jobs, NEW at \in Contents, trigger[j] \in Alerts, required[j] \in Nat,
         1 <= required[j], at[trigger[j]] >= required[j], \A a \in Alerts : at[a] <= Len(Spans[a])
  PROVE  /\ trigger[j] \in Related(j, at)
         /\ Identity(j, at) \in Incidents /\ Identity(j, at).trace = TraceOfJob(j)
<1> DEFINE t == trigger[j]
           S == Related(j, at)
           F == {Spans[a][at[a]].first : a \in S}
<1>1. ASSUME NEW a \in Alerts PROVE at[a] \in Nat /\ Len(Spans[a]) \in Nat
  <2>1. Spans[a] \in Seq([first : Nat, last : Nat])
    BY SpanAssumption
  <2> QED BY <2>1 DEF Contents
<1>2. required[j] \in 1..Len(Spans[t]) /\ at[t] \in 1..Len(Spans[t]) /\ at[t] # 0
  BY <1>1
<1>3. t \in S
  <2>1. InWindow(j, t, required[j])
    <3> DEFINE f == Spans[t][required[j]].first
               l == Spans[t][required[j]].last
    <3>1. f \in Nat /\ l \in Nat /\ f <= l
      BY <1>2, SpanFacts
    <3>2. l >= f - Window /\ f <= l + Window
      <4> HIDE DEF f, l
      <4> QED BY <3>1, QueueAssumption
    <3> QED BY <3>2 DEF InWindow
  <2>2. InWindow(j, t, at[t])
    BY <1>2, <2>1, WindowReaches
  <2> QED BY <1>2, <2>2 DEF Related, TraceOfJob
<1>4. ASSUME NEW a \in S
      PROVE  a \in Alerts /\ at[a] \in 1..Len(Spans[a]) /\ Spans[a][at[a]].first \in Nat
  <2>1. a \in Alerts /\ at[a] # 0
    BY DEF Related
  <2>2. at[a] \in 1..Len(Spans[a])
    BY <1>1, <2>1
  <2> QED BY <2>1, <2>2, SpanFacts
<1>5. Min(F) \in F
  <2>1. F \in SUBSET Nat /\ F # {}
    BY <1>3, <1>4
  <2> HIDE DEF F
  <2> QED BY <2>1, LeastOf
<1>6. Min(F) \div Window \in Buckets
  <2>1. PICK a \in S : Min(F) = Spans[a][at[a]].first
    BY <1>5
  <2>2. a \in Alerts /\ at[a] \in 1..Len(Spans[a])
    BY <1>4
  <2> HIDE DEF F, S
  <2> QED BY <2>1, <2>2 DEF Buckets
<1>7. KindOf(S) \in Surfaces \cup {"multi_surface"}
  <2> DEFINE U == {SurfaceOf[a] : a \in S}
  <2>1. U # {} /\ U \subseteq Surfaces
    BY <1>3, <1>4 DEF Surfaces
  <2>2. KindOf(S) = IF Cardinality(U) > 1 THEN "multi_surface" ELSE CHOOSE s \in U : TRUE
    BY DEF KindOf
  <2> HIDE DEF U
  <2> QED BY <2>1, <2>2
<1>8. TraceOfJob(j) \in Traces
  BY QueueAssumption DEF TraceOfJob
<1>9. Identity(j, at) = [trace |-> TraceOfJob(j), kind |-> KindOf(S), bucket |-> Min(F) \div Window]
  BY DEF Identity
<1> HIDE DEF S, F
<1> QED BY <1>3, <1>6, <1>7, <1>8, <1>9 DEF S, Incidents

\* The job a run processes is pending under its lock, and was enqueued for an alert.
LEMMA JobFacts ==
  ASSUME IInv, SeenInv, BatchHeld, NEW w \in Workers, batch[w] # <<>>
  PROVE  /\ Job(w) \in Jobs /\ jobLock[Job(w)] = w /\ status[Job(w)] = "pending"
         /\ trigger[Job(w)] \in Alerts /\ required[Job(w)] \in Nat /\ 1 <= required[Job(w)]
         /\ required[Job(w)] <= version[trigger[Job(w)]]
<1>1. batch[w] \in Seq(Jobs)
  BY DEF IInv, TypeOK
<1>2. Job(w) = batch[w][1] /\ Job(w) \in Jobs /\ 1 \in 1..Len(batch[w])
  BY <1>1 DEF Job
<1>3. jobLock[Job(w)] = w
  BY <1>2 DEF BatchHeld
<1>4. status[Job(w)] = "pending"
  BY <1>2, <1>3 DEF IInv, LockInv
<1>5. trigger[Job(w)] \in Alerts /\ 1 <= required[Job(w)] /\ required[Job(w)] <= version[trigger[Job(w)]]
  BY <1>2, <1>4 DEF SeenInv
<1>6. required[Job(w)] \in Nat
  BY <1>2 DEF IInv, TypeOK
<1> QED BY <1>2, <1>3, <1>4, <1>5, <1>6

\* A run that has read has a job and an incident to write.
LEMMA ReadingHasJob ==
  ASSUME Base, NEW w \in Workers, Reading(w)
  PROVE  /\ batch[w] # <<>> /\ Job(w) \in Jobs /\ jobLock[Job(w)] = w
         /\ status[Job(w)] = "pending" /\ trigger[Job(w)] \in Alerts
         /\ IncidentFor(w) \in Incidents /\ IncidentFor(w).trace = TraceOfJob(Job(w))
         /\ snap[w][trigger[Job(w)]] >= required[Job(w)]
<1>1. batch[w] # <<>>
  BY DEF Base, IInv, BatchInv, Reading
<1>2. /\ Job(w) \in Jobs /\ jobLock[Job(w)] = w /\ status[Job(w)] = "pending"
      /\ trigger[Job(w)] \in Alerts /\ required[Job(w)] \in Nat /\ 1 <= required[Job(w)]
  BY <1>1, JobFacts DEF Base
<1>3. snap[w][trigger[Job(w)]] >= required[Job(w)]
  BY DEF Base, SnapInv
<1>4. snap[w] \in Contents
  BY DEF Base, IInv, TypeOK
<1>5. ASSUME NEW a \in Alerts PROVE snap[w][a] <= Len(Spans[a])
  <2>1. snap[w][a] \in Nat /\ version[a] \in Nat
    BY <1>4 DEF Base, IInv, TypeOK, Contents
  <2>2. snap[w][a] <= version[a] /\ version[a] <= Len(Spans[a])
    BY DEF Base, SeenInv
  <2>3. Spans[a] \in Seq([first : Nat, last : Nat])
    BY SpanAssumption
  <2>4. Len(Spans[a]) \in Nat
    BY <2>3
  <2> QED BY <2>1, <2>2, <2>4
<1>6. IncidentFor(w) \in Incidents /\ IncidentFor(w).trace = TraceOfJob(Job(w))
  BY <1>2, <1>3, <1>4, <1>5, IdentityType DEF IncidentFor
<1> QED BY <1>1, <1>2, <1>3, <1>6

\* The incident a run writes depends on its job and on what it has read.
LEMMA IncidentKept ==
  ASSUME NEW w, Job(w)' = Job(w), snap'[w] = snap[w],
         trigger'[Job(w)] = trigger[Job(w)], required'[Job(w)] = required[Job(w)]
  PROVE  IncidentFor(w)' = IncidentFor(w)
<1> DEFINE j == Job(w)
           at == snap[w]
<1>1. \A k, f : Related(k, f) = {a \in Alerts : TraceOf[a] = TraceOf[trigger[k]] /\ f[a] # 0
                  /\ Spans[a][f[a]].last >= Spans[trigger[k]][required[k]].first - Window
                  /\ Spans[a][f[a]].first <= Spans[trigger[k]][required[k]].last + Window}
  BY DEF Related, InWindow, TraceOfJob
<1>2. IncidentFor(w) = [trace |-> TraceOf[trigger[j]], kind |-> KindOf(Related(j, at)),
                        bucket |-> Min({Spans[a][at[a]].first : a \in Related(j, at)}) \div Window]
  BY DEF IncidentFor, Identity, TraceOfJob
<1> QED BY <1>2 DEF IncidentFor, Identity, Related, InWindow, TraceOfJob, KindOf, j, at

\* max(1, n) of _claim_reconstruction_jobs_fair is a number.
LEMMA MaxType == ASSUME NEW n \in Nat PROVE Max({1, n}) \in Nat
<1>1. PICK x \in {1, n} : \A y \in {1, n} : x >= y
  BY SMT
<1> QED BY <1>1 DEF Max

\* The share of an organization is a number: no organization is left out.
LEMMA ShareType ==
  ASSUME NEW S \in SUBSET Jobs, S # {}
  PROVE  Max({1, Batch \div Cardinality(S)}) \in Nat
<1>1. IsFiniteSet(Jobs)
  BY BoundAssumption, FS_Interval DEF Jobs
<1>2. IsFiniteSet(S)
  BY <1>1, FS_Subset
<1>3. Cardinality(S) \in Nat /\ Cardinality(S) # 0
  BY <1>2, FS_CardinalityType, FS_EmptySet
<1>4. Batch \div Cardinality(S) \in Nat
  BY <1>3, BoundAssumption, SMT
<1> QED BY <1>4, MaxType

\* The end of a run, committed or not, leaves its own state empty.
LEMMA EndRunLemma ==
  ASSUME IInv, NEW w \in Workers, EndRun(w)
  PROVE  /\ pc' \in [Workers -> Steps] /\ orgs' \in [Workers -> SUBSET Jobs]
         /\ share' \in [Workers -> Nat] /\ cand' \in [Workers -> SUBSET Jobs]
         /\ batch' \in [Workers -> Seq(Jobs)]
         /\ outcome' \in [Workers -> [Jobs -> Statuses]]
         /\ snap' \in [Workers -> Contents] /\ found' \in [Workers -> BOOLEAN]
         /\ written' \in [Workers -> [Incidents -> Rows]]
         /\ jobLock' \in [Jobs -> Workers \cup {None}]
         /\ incidentLock' \in [Incidents -> Workers \cup {None}]
         /\ BatchInv'
         /\ \A j \in Jobs : jobLock'[j] = IF jobLock[j] = w THEN None ELSE jobLock[j]
         /\ \A v \in Workers \ {w} : outcome'[v] = outcome[v] /\ batch'[v] = batch[v]
<1> USE DEF IInv, TypeOK, EndRun, Goto
<1>1. NoAlerts \in Contents /\ NoRows \in [Incidents -> Rows]
  BY DEF NoAlerts, NoRows, NoRow, Rows, Contents
<1>2. NoOutcome \in [Jobs -> Statuses]
  BY DEF NoOutcome, Statuses
<1>3. pc' \in [Workers -> Steps]
  BY DEF Steps
<1>4. /\ orgs' \in [Workers -> SUBSET Jobs] /\ cand' \in [Workers -> SUBSET Jobs]
      /\ share' \in [Workers -> Nat] /\ batch' \in [Workers -> Seq(Jobs)]
  OBVIOUS
<1>5. outcome' \in [Workers -> [Jobs -> Statuses]]
  BY <1>2
<1>6. snap' \in [Workers -> Contents] /\ written' \in [Workers -> [Incidents -> Rows]]
  BY <1>1
<1>7. found' \in [Workers -> BOOLEAN]
  BY Zenon
<1>8. /\ jobLock' \in [Jobs -> Workers \cup {None}]
      /\ \A j \in Jobs : jobLock'[j] = IF jobLock[j] = w THEN None ELSE jobLock[j]
  BY DEF Release
<1>9. incidentLock' \in [Incidents -> Workers \cup {None}]
  BY DEF Release
<1>10. BatchInv'
  BY DEF BatchInv
<1>11. \A v \in Workers \ {w} : outcome'[v] = outcome[v] /\ batch'[v] = batch[v]
  OBVIOUS
<1> QED BY <1>3, <1>4, <1>5, <1>6, <1>7, <1>8, <1>9, <1>10, <1>11

\* A run that is rolled back leaves the tables as they were.
LEMMA RollbackLemma ==
  ASSUME IInv, NEW w \in Workers, Rollback(w), crashes' \in Nat
  PROVE  IInv'
<1>1. EndRun(w) /\ UNCHANGED <<tables, history>>
  BY DEF Rollback
<1>2. TypeOK'
  BY <1>1, EndRunLemma DEF IInv, TypeOK, tables, history
<1>3. LockInv'
  <2> SUFFICES ASSUME NEW v \in Workers, NEW j \in Jobs, jobLock'[j] = v
               PROVE  /\ status'[j] = "pending"
                      /\ outcome'[v][j] \in {"claimed", "done", "failed"}
                      /\ outcome'[v][j] = "claimed" => \E k \in 1..Len(batch'[v]) : batch'[v][k] = j
    BY DEF LockInv
  <2>1. v # w /\ jobLock[j] = v
    BY <1>1, EndRunLemma, QueueAssumption
  <2>2. outcome'[v] = outcome[v] /\ batch'[v] = batch[v]
    BY <1>1, <2>1, EndRunLemma
  <2>3. status' = status
    BY <1>1 DEF tables
  <2>4. LockInv
    BY DEF IInv
  <2> QED BY <2>1, <2>2, <2>3, <2>4 DEF LockInv
<1>4. BatchInv'
  BY <1>1, EndRunLemma
<1>5. CountInv'
  BY <1>1 DEF IInv, CountInv, tables, history
<1> QED BY <1>2, <1>3, <1>4, <1>5 DEF IInv

\* Steps that touch no lock, no outcome, no batch and no table.
LEMMA QuietLemma ==
  ASSUME IInv, NEW w \in Workers, NEW step \in Steps,
         pc' = [pc EXCEPT ![w] = step],
         step \in {"read", "lookup", "flush"} => batch[w] # <<>>,
         step \in {"idle", "orgs", "commit"} => batch[w] = <<>>,
         UNCHANGED <<status, batch, outcome, jobLock, completions>>
  PROVE  LockInv' /\ BatchInv' /\ CountInv' /\ pc' \in [Workers -> Steps]
<1> USE DEF IInv, TypeOK
<1>1. LockInv' /\ CountInv'
  BY DEF LockInv, CountInv
<1>2. pc' \in [Workers -> Steps]
  OBVIOUS
<1>3. BatchInv'
  BY DEF BatchInv
<1> QED BY <1>1, <1>2, <1>3

\* complete_reconstruction_job settles the first job of the batch.
LEMMA CompleteLemma ==
  ASSUME IInv, NEW w \in Workers, NEW r \in {"done", "failed"},
         pc[w] \in {"read", "lookup", "flush"}, Complete(w, r),
         UNCHANGED <<status, jobLock, completions>>
  PROVE  /\ LockInv' /\ BatchInv' /\ CountInv'
         /\ pc' \in [Workers -> Steps] /\ batch' \in [Workers -> Seq(Jobs)]
         /\ outcome' \in [Workers -> [Jobs -> Statuses]]
<1> USE DEF IInv, TypeOK, Complete, Goto
<1>1. batch[w] # <<>> /\ batch[w] \in Seq(Jobs)
  BY DEF BatchInv
<1>2. Job(w) = batch[w][1] /\ Job(w) \in Jobs /\ Len(batch[w]) \in Nat /\ Len(batch[w]) >= 1
  BY <1>1 DEF Job
<1>3. /\ Tail(batch[w]) \in Seq(Jobs) /\ Len(Tail(batch[w])) = Len(batch[w]) - 1
      /\ \A k \in 1..(Len(batch[w]) - 1) : Tail(batch[w])[k] = batch[w][k + 1]
  BY <1>1
<1>4. pc' \in [Workers -> Steps]
  BY DEF Steps
<1>5. batch' \in [Workers -> Seq(Jobs)]
  BY <1>3
<1>6. outcome' \in [Workers -> [Jobs -> Statuses]]
  BY <1>2 DEF Statuses
<1>7. LockInv'
  <2> SUFFICES ASSUME NEW v \in Workers, NEW j \in Jobs, jobLock[j] = v
               PROVE  /\ status[j] = "pending"
                      /\ outcome'[v][j] \in {"claimed", "done", "failed"}
                      /\ outcome'[v][j] = "claimed" =>
                           \E k \in 1..Len(batch'[v]) : batch'[v][k] = j
    BY DEF LockInv
  <2>1. /\ status[j] = "pending" /\ outcome[v][j] \in {"claimed", "done", "failed"}
        /\ outcome[v][j] = "claimed" => \E k \in 1..Len(batch[v]) : batch[v][k] = j
    BY DEF LockInv
  <2>2. CASE v # w
    BY <2>1, <2>2
  <2>3. CASE v = w /\ j = Job(w)
    BY <2>1, <2>3, <1>2
  <2>4. CASE v = w /\ j # Job(w)
    <3>1. outcome'[v][j] = outcome[v][j] /\ batch'[v] = Tail(batch[w])
      BY <2>4, <1>2
    <3>2. ASSUME outcome[v][j] = "claimed"
          PROVE  \E k \in 1..Len(Tail(batch[w])) : Tail(batch[w])[k] = j
      <4>1. PICK k \in 1..Len(batch[w]) : batch[w][k] = j
        BY <2>1, <2>4, <3>2
      <4>2. k # 1
        BY <4>1, <2>4, <1>2
      <4>3. k - 1 \in 1..(Len(batch[w]) - 1) /\ (k - 1) + 1 = k
        BY <4>1, <4>2, <1>2
      <4> QED BY <4>1, <4>3, <1>3
    <3> QED BY <2>1, <3>1, <3>2
  <2> QED BY <2>2, <2>3, <2>4
<1>8. BatchInv'
  <2>1. Len(batch[w]) > 1 => Tail(batch[w]) # <<>>
    <3>1. Len(<<>>) = 0
      OBVIOUS
    <3> SUFFICES ASSUME Len(batch[w]) > 1, Tail(batch[w]) = <<>> PROVE FALSE
      OBVIOUS
    <3>2. Len(Tail(batch[w])) = 0
      BY <3>1
    <3>3. Len(batch[w]) - 1 = 0
      BY <3>2, <1>3
    <3> DEFINE n == Len(batch[w])
    <3>4. n \in Nat /\ n > 1 /\ n - 1 = 0
      BY <3>3, <1>2
    <3> HIDE DEF n, IInv, TypeOK, Complete, Goto
    <3> QED BY <3>4
  <2>2. ~(Len(batch[w]) > 1) => Tail(batch[w]) = <<>>
    BY <1>3, <1>2
  <2> QED BY <2>1, <2>2 DEF BatchInv
<1>9. CountInv'
  BY DEF CountInv
<1> QED BY <1>4, <1>5, <1>6, <1>7, <1>8, <1>9

\* A committed ingest adds a pending job, which nobody holds.
LEMMA IngestLemma ==
  ASSUME IInv, NEW a \in Alerts, NEW n \in Jobs, Ingest(a, n) PROVE IInv'
<1> USE DEF IInv, TypeOK, Ingest, claims, work, locks
<1>1. TypeOK'
  BY DEF Contents
<1>2. LockInv'
  BY DEF LockInv
<1>3. BatchInv' /\ CountInv'
  BY DEF BatchInv, CountInv
<1> QED BY <1>1, <1>2, <1>3

\* A claim that wins puts a pending job under the run's lock.
LEMMA ClaimLemma ==
  ASSUME IInv, NEW w \in Workers, Claim(w) PROVE IInv'
<1> USE DEF IInv, TypeOK, tables, history
<1>1. PICK j \in Jobs :
        LET won == status[j] = "pending"
            claimed == IF won THEN Append(batch[w], j) ELSE batch[w]
        IN
        /\ Free(jobLock, j, w)
        /\ cand' = [cand EXCEPT ![w] = @ \ {j}]
        /\ jobLock' = [jobLock EXCEPT ![j] = IF won THEN w ELSE @]
        /\ outcome' = [outcome EXCEPT ![w][j] = IF won THEN "claimed" ELSE @]
        /\ batch' = [batch EXCEPT ![w] = claimed]
        /\ Goto(w, AfterClaim(cand[w] \ {j}, orgs[w], claimed))
  BY DEF Claim, FirstCandidate
<1>2. UNCHANGED <<tables, orgs, share, snap, found, written, incidentLock, crashes, history>>
  BY DEF Claim
<1>3. pc' = [pc EXCEPT ![w] = AfterClaim(cand[w] \ {j}, orgs[w], batch'[w])]
  BY <1>1 DEF Goto
<1>4. /\ batch'[w] \in Seq(Jobs) /\ batch' = [batch EXCEPT ![w] = batch'[w]]
      /\ \A k \in 1..Len(batch[w]) : k \in 1..Len(batch'[w]) /\ batch'[w][k] = batch[w][k]
      /\ status[j] = "pending" => \E k \in 1..Len(batch'[w]) : batch'[w][k] = j
  <2>1. batch[w] \in Seq(Jobs) /\ Len(batch[w]) \in Nat
    OBVIOUS
  <2>2. /\ batch'[w] = IF status[j] = "pending" THEN Append(batch[w], j) ELSE batch[w]
        /\ batch' = [batch EXCEPT ![w] = batch'[w]]
    BY <1>1
  <2>3. CASE status[j] = "pending"
    <3>1. /\ batch'[w] \in Seq(Jobs) /\ Len(batch'[w]) = Len(batch[w]) + 1
          /\ batch'[w][Len(batch[w]) + 1] = j
          /\ \A k \in 1..Len(batch[w]) : batch'[w][k] = batch[w][k]
      BY <2>1, <2>2, <2>3
    <3>2. Len(batch[w]) + 1 \in 1..Len(batch'[w])
      BY <2>1, <3>1
    <3>3. \A k \in 1..Len(batch[w]) : k \in 1..Len(batch'[w])
      BY <2>1, <3>1
    <3> QED BY <2>2, <3>1, <3>2, <3>3
  <2>4. CASE status[j] # "pending"
    BY <2>1, <2>2, <2>4
  <2> QED BY <2>3, <2>4
<1>5. TypeOK'
  <2>1. pc' \in [Workers -> Steps]
    BY <1>3 DEF AfterClaim, Steps
  <2>2. cand' \in [Workers -> SUBSET Jobs] /\ batch' \in [Workers -> Seq(Jobs)]
    BY <1>1, <1>4
  <2>3. outcome' \in [Workers -> [Jobs -> Statuses]] /\ jobLock' \in [Jobs -> Workers \cup {None}]
    BY <1>1 DEF Statuses
  <2> QED BY <1>2, <2>1, <2>2, <2>3
<1>6. LockInv'
  <2> SUFFICES ASSUME NEW v \in Workers, NEW i \in Jobs, jobLock'[i] = v
               PROVE  /\ status[i] = "pending"
                      /\ outcome'[v][i] \in {"claimed", "done", "failed"}
                      /\ outcome'[v][i] = "claimed" =>
                           \E k \in 1..Len(batch'[v]) : batch'[v][k] = i
    <3>1. status' = status
      BY <1>2
    <3> HIDE DEF TypeOK, IInv
    <3> QED BY <3>1 DEF LockInv
  <2>1. CASE i = j /\ status[j] = "pending"
    <3>1. v = w /\ outcome'[v][i] = "claimed"
      BY <1>1, <2>1
    <3> QED BY <2>1, <3>1, <1>4
  <2>2. CASE ~(i = j /\ status[j] = "pending")
    <3>1. jobLock[i] = v /\ outcome'[v][i] = outcome[v][i]
      BY <1>1, <2>2
    <3>2. \A k \in 1..Len(batch[v]) : k \in 1..Len(batch'[v]) /\ batch'[v][k] = batch[v][k]
      BY <1>4
    <3>3. /\ status[i] = "pending" /\ outcome[v][i] \in {"claimed", "done", "failed"}
          /\ outcome[v][i] = "claimed" => \E k \in 1..Len(batch[v]) : batch[v][k] = i
      BY <3>1 DEF LockInv
    <3> QED BY <3>1, <3>2, <3>3
  <2> QED BY <2>1, <2>2
<1>7. BatchInv'
  BY <1>3, <1>4 DEF BatchInv, AfterClaim
<1>8. CountInv'
  BY <1>2 DEF CountInv
<1> QED BY <1>5, <1>6, <1>7, <1>8

\* A commit settles every job the run holds, each of which was pending.
LEMMA CommitLemma ==
  ASSUME IInv, NEW w \in Workers, Commit(w) PROVE IInv'
<1> USE DEF IInv, TypeOK
<1>1. /\ EndRun(w) /\ UNCHANGED <<version, trigger, crashes, required, builtIn>>
      /\ status' = [j \in Jobs |-> IF jobLock[j] = w THEN outcome[w][j] ELSE status[j]]
      /\ incident' = [i \in Incidents |-> IF incidentLock[i] = w THEN written[w][i] ELSE incident[i]]
      /\ completions' = [j \in Jobs |-> completions[j] + IF jobLock[j] = w THEN 1 ELSE 0]
  BY DEF Commit
<1>2. ASSUME NEW j \in Jobs, jobLock[j] = w
      PROVE  outcome[w][j] \in {"done", "failed"} /\ status[j] = "pending"
  <2>1. batch[w] = <<>>
    BY DEF BatchInv, Commit
  <2>2. ~ \E k \in 1..Len(batch[w]) : batch[w][k] = j
    BY <2>1
  <2> QED BY <1>2, <2>2 DEF LockInv
<1>3. TypeOK'
  <2>1. status' \in [Jobs -> {"none", "pending", "done", "failed"}]
    BY <1>1, <1>2
  <2>2. incident' \in [Incidents -> Rows] /\ completions' \in [Jobs -> Nat]
    BY <1>1
  <2> QED BY <1>1, <2>1, <2>2, EndRunLemma
<1>4. LockInv'
  <2> SUFFICES ASSUME NEW v \in Workers, NEW j \in Jobs, jobLock'[j] = v
               PROVE  /\ status'[j] = "pending"
                      /\ outcome'[v][j] \in {"claimed", "done", "failed"}
                      /\ outcome'[v][j] = "claimed" => \E k \in 1..Len(batch'[v]) : batch'[v][k] = j
    BY DEF LockInv
  <2>1. v # w /\ jobLock[j] = v
    BY <1>1, EndRunLemma, QueueAssumption
  <2>2. outcome'[v] = outcome[v] /\ batch'[v] = batch[v]
    BY <1>1, <2>1, EndRunLemma
  <2>3. status'[j] = status[j]
    BY <1>1, <2>1
  <2>4. /\ status[j] = "pending" /\ outcome[v][j] \in {"claimed", "done", "failed"}
        /\ outcome[v][j] = "claimed" => \E k \in 1..Len(batch[v]) : batch[v][k] = j
    BY <2>1 DEF LockInv
  <2> QED BY <2>2, <2>3, <2>4
<1>5. BatchInv'
  BY <1>1, EndRunLemma
<1>6. CountInv'
  <2> SUFFICES ASSUME NEW j \in Jobs
               PROVE  completions'[j] = IF status'[j] \in {"done", "failed"} THEN 1 ELSE 0
    BY DEF CountInv
  <2>1. completions[j] = IF status[j] \in {"done", "failed"} THEN 1 ELSE 0
    BY DEF CountInv
  <2>2. CASE jobLock[j] = w
    <3>1. status'[j] \in {"done", "failed"} /\ completions[j] = 0
      BY <1>1, <1>2, <2>1, <2>2
    <3> QED BY <1>1, <2>2, <3>1
  <2>3. CASE jobLock[j] # w
    BY <1>1, <2>1, <2>3
  <2> QED BY <2>2, <2>3
<1> QED BY <1>3, <1>4, <1>5, <1>6

\* Every step keeps the invariant.
LEMMA StepInv == Base /\ [Next]_vars => IInv'
<1> SUFFICES ASSUME Base, [Next]_vars PROVE IInv'
  OBVIOUS
<1>0. IInv
  BY DEF Base
<1>1. ASSUME NEW a \in Alerts, NEW j \in Jobs, Ingest(a, j) PROVE IInv'
  BY <1>0, <1>1, IngestLemma
<1>2. ASSUME NEW w \in Workers, Start(w) PROVE IInv'
  <2>1. "orgs" \in Steps /\ batch[w] = <<>>
    BY <1>0, <1>2 DEF Start, Steps, IInv, BatchInv
  <2>2. LockInv' /\ BatchInv' /\ CountInv' /\ pc' \in [Workers -> Steps]
    BY <1>0, <1>2, <2>1, QuietLemma DEF Start, Goto, tables, work, locks, history
  <2> QED BY <1>0, <1>2, <2>2 DEF Start, IInv, TypeOK, tables, claims, work, locks, history
<1>3. ASSUME NEW w \in Workers, SelectOrganizations(w) PROVE IInv'
  <2> DEFINE heads == Oldest(Batch, Heads(w))
  <2>1. heads \in SUBSET Jobs
    BY DEF Oldest, Heads, Pending
  <2>2. batch[w] = <<>>
    BY <1>0, <1>3 DEF SelectOrganizations, IInv, BatchInv
  <2>3. LockInv' /\ BatchInv' /\ CountInv' /\ pc' \in [Workers -> Steps]
    <3>1. CASE heads = {}
      BY <1>0, <1>3, <2>2, <3>1, QuietLemma
      DEF SelectOrganizations, Goto, Steps, tables, work, locks, history
    <3>2. CASE heads # {}
      BY <1>0, <1>3, <2>2, <3>2, QuietLemma
      DEF SelectOrganizations, Goto, Steps, tables, work, locks, history
    <3> QED BY <3>1, <3>2
  <2>4. share' \in [Workers -> Nat]
    <3>1. (IF heads = {} THEN 0 ELSE Max({1, Batch \div Cardinality(heads)})) \in Nat
      BY <2>1, ShareType
    <3> QED BY <1>0, <1>3, <3>1 DEF SelectOrganizations, IInv, TypeOK
  <2>5. orgs' \in [Workers -> SUBSET Jobs]
    BY <1>0, <1>3, <2>1 DEF SelectOrganizations, IInv, TypeOK
  <2> QED BY <1>0, <1>3, <2>3, <2>4, <2>5
          DEF SelectOrganizations, IInv, TypeOK, tables, work, locks, history
<1>4. ASSUME NEW w \in Workers, SelectJobs(w) PROVE IInv'
  <2> DEFINE rest == orgs[w] \ {Min(orgs[w])}
             candidates == Oldest(share[w], {j \in Pending(w) : OrgOfJob(j) = OrgOfJob(Min(orgs[w]))})
             step == AfterClaim(candidates, rest, batch[w])
  <2>1. candidates \in SUBSET Jobs /\ rest \in SUBSET Jobs
    BY <1>0, <1>4 DEF Oldest, Pending, IInv, TypeOK
  <2>2. /\ pc' = [pc EXCEPT ![w] = step]
        /\ orgs' = [orgs EXCEPT ![w] = rest] /\ cand' = [cand EXCEPT ![w] = candidates]
        /\ UNCHANGED <<tables, share, work, locks, crashes, history>>
    BY <1>0, <1>4 DEF SelectJobs, Goto, IInv, TypeOK
  <2>3. /\ step \in Steps
        /\ step \in {"read", "lookup", "flush"} => batch[w] # <<>>
        /\ step \in {"idle", "orgs", "commit"} => batch[w] = <<>>
    BY DEF AfterClaim, Steps
  <2>4. LockInv' /\ BatchInv' /\ CountInv' /\ pc' \in [Workers -> Steps]
    <3> HIDE DEF step
    <3> QED BY <1>0, <2>2, <2>3, QuietLemma DEF tables, work, locks, history
  <2>5. orgs' \in [Workers -> SUBSET Jobs] /\ cand' \in [Workers -> SUBSET Jobs]
    <3> HIDE DEF rest, candidates
    <3> QED BY <1>0, <2>1, <2>2 DEF IInv, TypeOK
  <2> QED BY <1>0, <2>2, <2>4, <2>5 DEF IInv, TypeOK, tables, work, locks, history
<1>5. ASSUME NEW w \in Workers, Claim(w) PROVE IInv'
  BY <1>0, <1>5, ClaimLemma
<1>6. ASSUME NEW w \in Workers, ReadAlerts(w) PROVE IInv'
  <2>1. "lookup" \in Steps /\ batch[w] # <<>>
    BY <1>0, <1>6 DEF ReadAlerts, Steps, IInv, BatchInv
  <2>2. LockInv' /\ BatchInv' /\ CountInv' /\ pc' \in [Workers -> Steps]
    BY <1>0, <1>6, <2>1, QuietLemma DEF ReadAlerts, Goto, tables, locks, history
  <2>3. snap' \in [Workers -> Contents]
    BY <1>0, <1>6 DEF ReadAlerts, Contents, IInv, TypeOK
  <2> QED BY <1>0, <1>6, <2>2, <2>3 DEF ReadAlerts, IInv, TypeOK, tables, claims, locks, history
<1>7. ASSUME NEW w \in Workers, LookupIncident(w) PROVE IInv'
  <2>1. "flush" \in Steps /\ batch[w] # <<>>
    BY <1>0, <1>7 DEF LookupIncident, Steps, IInv, BatchInv
  <2>2. LockInv' /\ BatchInv' /\ CountInv' /\ pc' \in [Workers -> Steps]
    BY <1>0, <1>7, <2>1, QuietLemma DEF LookupIncident, Goto, tables, locks, history
  <2>3. found' \in [Workers -> BOOLEAN]
    BY <1>0, <1>7, Zenon DEF LookupIncident, IInv, TypeOK
  <2> QED BY <1>0, <1>7, <2>2, <2>3 DEF LookupIncident, IInv, TypeOK, tables, claims, locks, history
<1>8. ASSUME NEW w \in Workers, FlushIncident(w) PROVE IInv'
  <2> DEFINE row == [by |-> Job(w), at |-> snap[w]]
             i == IncidentFor(w)
  <2>1. /\ LockInv' /\ BatchInv' /\ CountInv'
        /\ pc' \in [Workers -> Steps] /\ batch' \in [Workers -> Seq(Jobs)]
        /\ outcome' \in [Workers -> [Jobs -> Statuses]]
    BY <1>0, <1>8, CompleteLemma DEF FlushIncident, tables, history
  <2>2. i \in Incidents /\ Job(w) \in Jobs
    BY <1>8, ReadingHasJob DEF FlushIncident, Reading
  <2>3. row \in Rows
    BY <1>0, <2>2 DEF Rows, IInv, TypeOK
  <2>4. /\ incidentLock' = [incidentLock EXCEPT ![i] = w]
        /\ written' = [written EXCEPT ![w][i] = row] /\ builtIn' = [builtIn EXCEPT ![Job(w)] = i]
    BY <1>8 DEF FlushIncident
  <2> HIDE DEF row, i
  <2>5. /\ incidentLock' \in [Incidents -> Workers \cup {None}]
        /\ written' \in [Workers -> [Incidents -> Rows]]
        /\ builtIn' \in [Jobs -> Incidents \cup {None}]
    BY <1>0, <2>2, <2>3, <2>4 DEF IInv, TypeOK
  <2> QED BY <1>0, <1>8, <2>1, <2>5 DEF FlushIncident, IInv, TypeOK, tables, claims
<1>9. ASSUME NEW w \in Workers, JobError(w) PROVE IInv'
  <2>1. /\ LockInv' /\ BatchInv' /\ CountInv'
        /\ pc' \in [Workers -> Steps] /\ batch' \in [Workers -> Seq(Jobs)]
        /\ outcome' \in [Workers -> [Jobs -> Statuses]]
    BY <1>0, <1>9, CompleteLemma DEF JobError, tables, locks, history
  <2> QED BY <1>0, <1>9, <2>1 DEF JobError, IInv, TypeOK, tables, claims, locks, history
<1>10. ASSUME NEW w \in Workers, Commit(w) PROVE IInv'
  BY <1>0, <1>10, CommitLemma
<1>11. ASSUME NEW w \in Workers, FlushConflict(w) \/ DeadlockVictim(w) \/ Crash(w) PROVE IInv'
  <2>1. Rollback(w) /\ crashes' \in Nat
    BY <1>0, <1>11 DEF FlushConflict, DeadlockVictim, Crash, IInv, TypeOK
  <2> QED BY <1>0, <2>1, RollbackLemma
<1>12. CASE UNCHANGED vars
  BY <1>0, <1>12 DEF vars, tables, claims, work, locks, history, IInv, TypeOK, LockInv, BatchInv, CountInv
<1> QED BY <1>1, <1>2, <1>3, <1>4, <1>5, <1>6, <1>7, <1>8, <1>9, <1>10, <1>11, <1>12
        DEF Next, Progress

\* Before anything was ingested.
LEMMA InitInv == Init => IInv
<1> SUFFICES ASSUME Init PROVE IInv
  OBVIOUS
<1>1. NoAlerts \in Contents /\ NoRows \in [Incidents -> Rows] /\ NoOutcome \in [Jobs -> Statuses]
  BY DEF NoAlerts, NoRows, NoRow, Rows, NoOutcome, Contents, Statuses
<1>2. TypeOK
  BY <1>1 DEF Init, TypeOK, Steps
<1>3. LockInv /\ BatchInv /\ CountInv
  BY QueueAssumption DEF Init, LockInv, BatchInv, CountInv
<1> QED BY <1>2, <1>3 DEF IInv

-----------------------------------------------------------------------------
(* With two runs a finished job stays visible.  A run that has read the     *)
(* alerts holds a pending job of their organization, so the other run,      *)
(* before it can commit a later reading, has to wait for that job.          *)

\* No organization is left out of a run that claims.
ShareInv == \A w \in Workers : pc[w] \in {"jobs", "claim"} => share[w] >= 1

\* Of the trace of incident i, f shows nothing that is newer than in g.
NoNewer(i, f, g) == \A a \in Alerts : TraceOf[a] = i.trace => f[a] <= g[a]

\* The run w cannot commit before it has claimed another job, or waited for its holder.
Detained(w) ==
  \/ batch[w] # <<>>
  \/ pc[w] = "orgs"
  \/ pc[w] = "jobs" /\ \E h \in orgs[w] : status[h] = "pending" /\ jobLock[h] # w
  \/ pc[w] = "claim" /\ \E h \in orgs[w] \cup cand[w] : status[h] = "pending" /\ jobLock[h] # w

\* What a run has read is late enough for what is in the table.
ReadInv ==
  \A w \in Workers : Reading(w) =>
    NoNewer(IncidentFor(w), incident[IncidentFor(w)].at, snap[w])

\* What another run has written there is no later, or that run will not commit it now.
OrderInv ==
  \A w, u \in Workers : Reading(w) /\ incidentLock[IncidentFor(w)] = u =>
    \/ u # w /\ Detained(u)
    \/ NoNewer(IncidentFor(w), written[u][IncidentFor(w)].at, snap[w])

\* A row that is written and not committed is no older than the committed one.
WrittenInv ==
  \A w \in Workers, i \in Incidents :
    incidentLock[i] = w => NoNewer(i, incident[i].at, written[w][i].at)

\* A job settled as done has an incident of its trace written, late enough.
SettledInv ==
  \A w \in Workers, j \in Jobs :
    jobLock[j] = w /\ outcome[w][j] = "done" =>
      /\ builtIn[j] \in Incidents /\ builtIn[j].trace = TraceOfJob(j)
      /\ incidentLock[builtIn[j]] = w
      /\ written[w][builtIn[j]].at[trigger[j]] >= required[j]

\* A job that is done was written late enough, and every row that took the place of its own
\* was no older.
DoneInv ==
  \A j \in Jobs : status[j] = "done" =>
    /\ builtIn[j] \in Incidents /\ builtIn[j].trace = TraceOfJob(j)
    /\ incident[builtIn[j]].at[trigger[j]] >= required[j]

\* A set of jobs that is not empty has an oldest one.
LEMMA OldestExists ==
  ASSUME NEW S \in SUBSET Jobs, S # {}
  PROVE  \E j \in S : \A k \in S : j <= k
<1>1. S \subseteq Nat
  BY BoundAssumption DEF Jobs
<1>2. PICK j \in S : \A k \in S : ~(<<k, j>> \in OpToRel(<, Nat))
  BY <1>1, NatLessThanWellFounded, WFMin, Zenon
<1>3. ASSUME NEW k \in S PROVE j <= k
  <2>1. j \in Nat /\ k \in Nat
    BY <1>1
  <2>2. ~(k < j)
    BY <1>2, <2>1 DEF OpToRel
  <2> QED BY <2>1, <2>2
<1> QED BY <1>3

\* ORDER BY created_at LIMIT n, n at least 1, finds a row where there is one.
LEMMA OldestFound ==
  ASSUME NEW S \in SUBSET Jobs, S # {}, NEW n \in Nat, n >= 1
  PROVE  Oldest(n, S) # {}
<1>1. PICK j \in S : \A k \in S : j <= k
  BY OldestExists
<1>2. {k \in S : k <= j} = {j}
  <2>1. ASSUME NEW k \in S, k <= j PROVE k = j
    <3>1. k \in Int /\ j \in Int /\ j <= k
      BY <1>1 DEF Jobs
    <3> QED BY <2>1, <3>1
  <2>2. j <= j
    BY <1>1
  <2> QED BY <2>1, <2>2
<1>3. Cardinality({k \in S : k <= j}) = 1
  BY <1>2, FS_Singleton
<1> QED BY <1>1, <1>3 DEF Oldest

\* An organization with a pending job is visited.
LEMMA HeadFound ==
  ASSUME NEW w \in Workers, Pending(w) # {}
  PROVE  Oldest(Batch, Heads(w)) # {}
<1>1. Pending(w) \in SUBSET Jobs
  BY DEF Pending
<1>2. PICK j \in Pending(w) : \A k \in Pending(w) : j <= k
  BY <1>1, OldestExists
<1>3. Heads(w) \in SUBSET Jobs /\ j \in Heads(w)
  BY <1>1, <1>2 DEF Heads
<1> QED BY <1>3, OldestFound, BoundAssumption

\* max(1, n) is at least 1.
LEMMA MaxAtLeastOne == ASSUME NEW n \in Nat PROVE Max({1, n}) >= 1
<1>1. PICK x \in {1, n} : \A y \in {1, n} : x >= y
  BY SMT
<1>2. Max({1, n}) \in {1, n} /\ \A y \in {1, n} : Max({1, n}) >= y
  BY <1>1 DEF Max
<1> QED BY <1>2

\* The share of an organization is at least one job.
LEMMA ShareAtLeastOne ==
  ASSUME NEW S \in SUBSET Jobs, S # {}
  PROVE  Max({1, Batch \div Cardinality(S)}) >= 1
<1>1. IsFiniteSet(Jobs)
  BY BoundAssumption, FS_Interval DEF Jobs
<1>2. IsFiniteSet(S)
  BY <1>1, FS_Subset
<1>3. Cardinality(S) \in Nat /\ Cardinality(S) # 0
  BY <1>2, FS_CardinalityType, FS_EmptySet
<1>4. Batch \div Cardinality(S) \in Nat
  BY <1>3, BoundAssumption, SMT
<1> QED BY <1>4, MaxAtLeastOne

\* What a run that ends leaves behind of what it read and wrote.
LEMMA EndRunRows ==
  ASSUME IInv, NEW w \in Workers, EndRun(w)
  PROVE  /\ pc'[w] = "idle" /\ batch'[w] = <<>>
         /\ snap'[w] = NoAlerts /\ written'[w] = NoRows
         /\ \A j \in Jobs : jobLock'[j] # w /\ (jobLock[j] # w => jobLock'[j] = jobLock[j])
         /\ \A i \in Incidents :
              incidentLock'[i] # w /\ (incidentLock[i] # w => incidentLock'[i] = incidentLock[i])
         /\ \A v \in Workers \ {w} :
              /\ pc'[v] = pc[v] /\ batch'[v] = batch[v] /\ outcome'[v] = outcome[v]
              /\ snap'[v] = snap[v] /\ written'[v] = written[v]
              /\ orgs'[v] = orgs[v] /\ share'[v] = share[v] /\ cand'[v] = cand[v]
<1> USE DEF IInv, TypeOK, EndRun, Goto
<1>1. pc'[w] = "idle" /\ batch'[w] = <<>> /\ snap'[w] = NoAlerts /\ written'[w] = NoRows
  OBVIOUS
<1>2. \A j \in Jobs : jobLock'[j] # w /\ (jobLock[j] # w => jobLock'[j] = jobLock[j])
  BY QueueAssumption DEF Release
<1>3. \A i \in Incidents :
        incidentLock'[i] # w /\ (incidentLock[i] # w => incidentLock'[i] = incidentLock[i])
  BY QueueAssumption DEF Release
<1>4. ASSUME NEW v \in Workers \ {w}
      PROVE  /\ pc'[v] = pc[v] /\ batch'[v] = batch[v] /\ outcome'[v] = outcome[v]
             /\ snap'[v] = snap[v] /\ written'[v] = written[v]
             /\ orgs'[v] = orgs[v] /\ share'[v] = share[v] /\ cand'[v] = cand[v]
  OBVIOUS
<1> QED BY <1>1, <1>2, <1>3, <1>4

\* Nothing was written of what is 0 everywhere.
LEMMA NothingSeen ==
  ASSUME IInv
  PROVE  \A a \in Alerts :
           NoAlerts[a] <= version[a] /\ \A i \in Incidents : NoRows[i].at[a] <= version[a]
BY DEF IInv, TypeOK, Contents, NoAlerts, NoRow, NoRows

\* Every step keeps SeenInv: versions grow with an ingest, and everything else is read off them.
LEMMA StepSeen ==
  ASSUME IInv, SeenInv, BatchHeld, [Next]_vars PROVE SeenInv'
<1>1. ASSUME NEW b \in Alerts, NEW n \in Jobs, Ingest(b, n) PROVE SeenInv'
  <2>1. /\ version' = [version EXCEPT ![b] = @ + 1] /\ status' = [status EXCEPT ![n] = "pending"]
        /\ trigger' = [trigger EXCEPT ![n] = b] /\ required' = [required EXCEPT ![n] = version[b] + 1]
        /\ incident' = incident /\ snap' = snap /\ written' = written
    BY <1>1 DEF Ingest, work
  <2>2. /\ version \in [Alerts -> Nat] /\ trigger \in [Jobs -> Alerts \cup {None}]
        /\ required \in [Jobs -> Nat] /\ status \in [Jobs -> {"none", "pending", "done", "failed"}]
    BY DEF IInv, TypeOK, Contents
  <2>3. \A a \in Alerts : version'[a] \in Nat /\ version[a] <= version'[a]
    BY <2>1, <2>2
  <2>4. ASSUME NEW j \in Jobs, status'[j] # "none"
        PROVE  trigger'[j] \in Alerts /\ 1 <= required'[j] /\ required'[j] <= version'[trigger'[j]]
    <3>1. CASE j = n
      BY <2>1, <2>2, <3>1
    <3>2. CASE j # n
      <4>1. trigger'[j] = trigger[j] /\ required'[j] = required[j] /\ status'[j] = status[j]
        BY <2>1, <2>2, <3>2
      <4>2. trigger[j] \in Alerts /\ 1 <= required[j] /\ required[j] <= version[trigger[j]]
        BY <2>4, <4>1 DEF SeenInv
      <4> QED BY <2>2, <2>3, <4>1, <4>2
    <3> QED BY <3>1, <3>2
  <2>5. ASSUME NEW a \in Alerts, NEW i \in Incidents, NEW w \in Workers
        PROVE  written'[w][i].at[a] <= version'[a]
    <3>1. written[w][i].at[a] \in Nat /\ written[w][i].at[a] <= version[a]
      BY DEF IInv, TypeOK, Rows, Contents, SeenInv
    <3> QED BY <2>1, <2>2, <2>3, <3>1
  <2>6. ASSUME NEW a \in Alerts, NEW w \in Workers PROVE snap'[w][a] <= version'[a]
    <3>1. snap[w][a] \in Nat /\ snap[w][a] <= version[a]
      BY DEF IInv, TypeOK, Contents, SeenInv
    <3> QED BY <2>1, <2>2, <2>3, <3>1
  <2>7. \A i \in Incidents, a \in Alerts : incident'[i].at[a] <= version'[a]
    <3> SUFFICES ASSUME NEW i \in Incidents, NEW a \in Alerts PROVE incident'[i].at[a] <= version'[a]
      OBVIOUS
    <3>1. incident[i].at[a] \in Nat /\ incident[i].at[a] <= version[a]
      BY DEF IInv, TypeOK, Rows, Contents, SeenInv
    <3> QED BY <2>1, <2>2, <2>3, <3>1
  <2>8. \A a \in Alerts : version'[a] <= Len(Spans[a])
    <3> SUFFICES ASSUME NEW a \in Alerts PROVE version'[a] <= Len(Spans[a])
      OBVIOUS
    <3>1. version[b] < Len(Spans[b]) /\ Spans[b] \in Seq([first : Nat, last : Nat])
      BY <1>1, SpanAssumption DEF Ingest
    <3>2. Len(Spans[b]) \in Nat
      BY <3>1
    <3>3. CASE a = b
      BY <2>1, <2>2, <3>1, <3>2, <3>3
    <3>4. CASE a # b
      BY <2>1, <2>2, <3>4 DEF SeenInv
    <3> QED BY <3>3, <3>4
  <2> QED BY <2>4, <2>5, <2>6, <2>7, <2>8 DEF SeenInv
<1>2. ASSUME NEW w \in Workers, EndRun(w), UNCHANGED <<version, trigger, required>>,
             \A j \in Jobs : status'[j] # "none" => status[j] # "none",
             \A i \in Incidents : incident'[i] \in {incident[i], written[w][i]}
      PROVE  SeenInv'
  <2>1. /\ snap'[w] = NoAlerts /\ written'[w] = NoRows
        /\ \A v \in Workers \ {w} : snap'[v] = snap[v] /\ written'[v] = written[v]
    BY <1>2, EndRunRows
  <2>2. \A j \in Jobs : status'[j] # "none" =>
           trigger'[j] \in Alerts /\ 1 <= required'[j] /\ required'[j] <= version'[trigger'[j]]
    BY <1>2 DEF SeenInv
  <2>3. \A v \in Workers, a \in Alerts : snap'[v][a] <= version'[a]
    <3> SUFFICES ASSUME NEW v \in Workers, NEW a \in Alerts PROVE snap'[v][a] <= version'[a]
      OBVIOUS
    <3>1. NoAlerts[a] <= version[a]
      BY NothingSeen
    <3> QED BY <1>2, <2>1, <3>1 DEF SeenInv
  <2>4. \A i \in Incidents, a \in Alerts : incident'[i].at[a] <= version'[a]
    BY <1>2 DEF SeenInv
  <2>5. \A v \in Workers, i \in Incidents, a \in Alerts : written'[v][i].at[a] <= version'[a]
    BY <1>2, <2>1, NothingSeen DEF SeenInv
  <2>6. \A a \in Alerts : version'[a] <= Len(Spans[a])
    BY <1>2 DEF SeenInv
  <2> QED BY <2>2, <2>3, <2>4, <2>5, <2>6 DEF SeenInv
<1>3. ASSUME NEW w \in Workers, Rollback(w) PROVE SeenInv'
  BY <1>2, <1>3 DEF Rollback, tables, history
<1>4. ASSUME NEW w \in Workers, Commit(w) PROVE SeenInv'
  <2>1. /\ EndRun(w) /\ UNCHANGED <<version, trigger, required>>
        /\ status' = [j \in Jobs |-> IF jobLock[j] = w THEN outcome[w][j] ELSE status[j]]
        /\ incident' = [i \in Incidents |-> IF incidentLock[i] = w THEN written[w][i] ELSE incident[i]]
    BY <1>4 DEF Commit
  <2>2. \A j \in Jobs : status'[j] # "none" => status[j] # "none"
    BY <2>1 DEF IInv, LockInv
  <2>3. \A i \in Incidents : incident'[i] \in {incident[i], written[w][i]}
    BY <2>1
  <2> QED BY <1>2, <2>1, <2>2, <2>3
<1>5. ASSUME NEW w \in Workers, ReadAlerts(w) PROVE SeenInv'
  <2>1. snap' = [snap EXCEPT ![w] = [a \in Alerts |-> IF TraceOf[a] = TraceOfJob(Job(w)) THEN version[a] ELSE 0]]
    BY <1>5 DEF ReadAlerts
  <2>2. \A v \in Workers, a \in Alerts : snap'[v][a] <= version[a]
    <3> SUFFICES ASSUME NEW v \in Workers, NEW a \in Alerts PROVE snap'[v][a] <= version[a]
      OBVIOUS
    <3>1. version[a] \in Nat /\ snap \in [Workers -> Contents]
      BY DEF IInv, TypeOK, Contents
    <3>2. CASE v = w
      BY <2>1, <3>1, <3>2
    <3>3. CASE v # w
      BY <2>1, <3>1, <3>3 DEF SeenInv
    <3> QED BY <3>2, <3>3
  <2> QED BY <1>5, <2>2 DEF ReadAlerts, SeenInv, tables, history
<1>6. ASSUME NEW w \in Workers, FlushIncident(w) PROVE SeenInv'
  <2>1. written' = [written EXCEPT ![w][IncidentFor(w)] = [by |-> Job(w), at |-> snap[w]]]
    BY <1>6 DEF FlushIncident
  <2>2. \A v \in Workers, i \in Incidents, a \in Alerts : written'[v][i].at[a] <= version[a]
    <3> SUFFICES ASSUME NEW v \in Workers, NEW i \in Incidents, NEW a \in Alerts
                 PROVE  written'[v][i].at[a] <= version[a]
      OBVIOUS
    <3>1. written'[v][i] \in {written[v][i], [by |-> Job(w), at |-> snap[w]]}
      BY <2>1 DEF IInv, TypeOK
    <3> QED BY <3>1 DEF SeenInv
  <2> QED BY <1>6, <2>2 DEF FlushIncident, SeenInv, tables, history
<1>7. ASSUME \/ \E w \in Workers : Start(w) \/ SelectOrganizations(w) \/ SelectJobs(w) \/ Claim(w)
                                    \/ LookupIncident(w) \/ JobError(w)
             \/ UNCHANGED vars
      PROVE  SeenInv'
  <2>1. /\ version' = version /\ status' = status /\ trigger' = trigger /\ incident' = incident
        /\ snap' = snap /\ written' = written /\ required' = required
    BY <1>7 DEF Start, SelectOrganizations, SelectJobs, Claim, LookupIncident, JobError, vars,
                tables, work, history
  <2> QED BY <2>1 DEF SeenInv
<1> QED BY <1>1, <1>3, <1>4, <1>5, <1>6, <1>7
        DEF Next, Progress, FlushConflict, DeadlockVictim, Crash

\* Every step keeps the batches under lock and the shares positive.
LEMMA StepHeld ==
  ASSUME IInv, BatchHeld, ShareInv, [Next]_vars PROVE BatchHeld' /\ ShareInv'
<1>1. ASSUME NEW w \in Workers, EndRun(w) PROVE BatchHeld' /\ ShareInv'
  <2>1. ASSUME NEW v \in Workers, NEW k \in 1..Len(batch'[v]) PROVE jobLock'[batch'[v][k]] = v
    <3>1. v # w
      <4>1. Len(<<>>) = 0
        OBVIOUS
      <4> QED BY <1>1, <2>1, <4>1, EndRunRows
    <3>2. batch'[v] = batch[v] /\ batch[v] \in Seq(Jobs)
      BY <1>1, <3>1, EndRunRows DEF IInv, TypeOK
    <3>3. batch[v][k] \in Jobs /\ jobLock[batch[v][k]] = v
      BY <2>1, <3>2 DEF BatchHeld
    <3> QED BY <1>1, <3>1, <3>2, <3>3, EndRunRows
  <2>2. ShareInv'
    BY <1>1, EndRunRows DEF ShareInv
  <2> QED BY <2>1, <2>2 DEF BatchHeld
<1>2. ASSUME NEW w \in Workers, SelectOrganizations(w) PROVE BatchHeld' /\ ShareInv'
  <2> DEFINE heads == Oldest(Batch, Heads(w))
             n == IF heads = {} THEN 0 ELSE Max({1, Batch \div Cardinality(heads)})
  <2>1. heads \in SUBSET Jobs
    BY DEF Oldest, Heads, Pending
  <2>2. heads # {} => n >= 1
    BY <2>1, ShareAtLeastOne
  <2>3. /\ share' = [share EXCEPT ![w] = n]
        /\ pc' = [pc EXCEPT ![w] = IF heads = {} THEN "commit" ELSE "jobs"]
        /\ batch' = batch /\ jobLock' = jobLock
    BY <1>2 DEF SelectOrganizations, Goto, work, locks
  <2>4. share \in [Workers -> Nat] /\ pc \in [Workers -> Steps]
    BY DEF IInv, TypeOK
  <2>5. ShareInv'
    <3> HIDE DEF n, heads
    <3> QED BY <2>2, <2>3, <2>4 DEF ShareInv
  <2> QED BY <2>3, <2>5 DEF BatchHeld
<1>3. ASSUME NEW w \in Workers, Claim(w) PROVE BatchHeld' /\ ShareInv'
  <2>1. PICK j \in Jobs :
          LET won == status[j] = "pending"
              claimed == IF won THEN Append(batch[w], j) ELSE batch[w]
          IN
          /\ Free(jobLock, j, w)
          /\ jobLock' = [jobLock EXCEPT ![j] = IF won THEN w ELSE @]
          /\ batch' = [batch EXCEPT ![w] = claimed]
    BY <1>3 DEF Claim, FirstCandidate, IInv, TypeOK
  <2>2. share' = share /\ pc[w] = "claim" /\ \A v \in Workers \ {w} : pc'[v] = pc[v]
    BY <1>3 DEF Claim, Goto, IInv, TypeOK
  <2>3. ShareInv'
    BY <2>2 DEF ShareInv
  <2>4. jobLock \in [Jobs -> Workers \cup {None}] /\ batch \in [Workers -> Seq(Jobs)]
    BY DEF IInv, TypeOK
  <2>5. ASSUME NEW v \in Workers, NEW k \in 1..Len(batch'[v]) PROVE jobLock'[batch'[v][k]] = v
    <3>1. CASE v = w /\ status[j] = "pending"
      <4>1. batch'[v] = Append(batch[w], j) /\ jobLock'[j] = w
        BY <2>1, <2>4, <3>1
      <4>2. batch[w] \in Seq(Jobs) /\ Len(Append(batch[w], j)) = Len(batch[w]) + 1
        BY <2>4
      <4>3. CASE k = Len(batch[w]) + 1
        BY <4>1, <4>2, <4>3, <3>1
      <4>4. CASE k # Len(batch[w]) + 1
        <5>1. k \in 1..Len(batch[w])
          BY <2>5, <4>1, <4>2, <4>4
        <5>2. batch'[v][k] = batch[w][k] /\ batch[w][k] \in Jobs
          BY <4>1, <4>2, <5>1
        <5>3. jobLock[batch[w][k]] = w
          BY <5>1 DEF BatchHeld
        <5> QED BY <2>1, <2>4, <3>1, <5>2, <5>3
      <4> QED BY <4>3, <4>4
    <3>2. CASE ~(v = w /\ status[j] = "pending")
      <4>1. batch'[v] = batch[v] /\ batch[v] \in Seq(Jobs)
        BY <2>1, <2>4, <3>2
      <4>2. jobLock[batch[v][k]] = v /\ batch[v][k] \in Jobs
        BY <2>5, <4>1 DEF BatchHeld
      <4>3. batch[v][k] = j => v = w
        BY <2>1, <4>2, QueueAssumption DEF Free
      <4> QED BY <2>1, <2>4, <4>1, <4>2, <4>3
    <3> QED BY <3>1, <3>2
  <2> QED BY <2>3, <2>5 DEF BatchHeld
<1>4. ASSUME NEW w \in Workers, NEW r, Complete(w, r), pc[w] \in {"read", "lookup", "flush"},
             share' = share, jobLock' = jobLock
      PROVE  BatchHeld' /\ ShareInv'
  <2>1. /\ batch' = [batch EXCEPT ![w] = Tail(@)]
        /\ pc' = [pc EXCEPT ![w] = IF Len(batch[w]) > 1 THEN "read" ELSE "orgs"]
    BY <1>4 DEF Complete, Goto
  <2>2. batch[w] # <<>> /\ batch \in [Workers -> Seq(Jobs)] /\ pc \in [Workers -> Steps]
    BY <1>4 DEF IInv, BatchInv, TypeOK
  <2>3. batch[w] \in Seq(Jobs) /\ Len(batch[w]) \in Nat
    BY <2>2
  <2>4. /\ Len(Tail(batch[w])) = Len(batch[w]) - 1
        /\ \A k \in 1..(Len(batch[w]) - 1) : Tail(batch[w])[k] = batch[w][k + 1]
    BY <2>2, <2>3
  <2>5. ShareInv'
    BY <1>4, <2>1, <2>2 DEF ShareInv
  <2>6. ASSUME NEW v \in Workers, NEW k \in 1..Len(batch'[v]) PROVE jobLock[batch'[v][k]] = v
    <3>1. CASE v = w
      <4>1. k \in 1..(Len(batch[w]) - 1) /\ batch'[w][k] = batch[w][k + 1]
        BY <2>1, <2>2, <2>4, <2>6, <3>1
      <4>2. k + 1 \in 1..Len(batch[w])
        BY <2>3, <4>1
      <4> QED BY <3>1, <4>1, <4>2 DEF BatchHeld
    <3>2. CASE v # w
      BY <2>1, <2>2, <2>6, <3>2 DEF BatchHeld
    <3> QED BY <3>1, <3>2
  <2> QED BY <1>4, <2>5, <2>6 DEF BatchHeld
<1>5. ASSUME \/ \E a \in Alerts, j \in Jobs : Ingest(a, j)
             \/ \E w \in Workers : Start(w) \/ SelectJobs(w) \/ ReadAlerts(w) \/ LookupIncident(w)
             \/ UNCHANGED vars
      PROVE  BatchHeld' /\ ShareInv'
  <2>1. batch' = batch /\ jobLock' = jobLock /\ share' = share
    BY <1>5 DEF Ingest, Start, SelectJobs, ReadAlerts, LookupIncident, vars, claims, work, locks
  <2>2. \A v \in Workers : pc'[v] \in {"jobs", "claim"} => pc[v] \in {"jobs", "claim"}
    BY <1>5 DEF Ingest, Start, SelectJobs, ReadAlerts, LookupIncident, vars, Goto, IInv, TypeOK
  <2> QED BY <2>1, <2>2 DEF BatchHeld, ShareInv
<1>6. ASSUME NEW w \in Workers, FlushIncident(w) \/ JobError(w) PROVE BatchHeld' /\ ShareInv'
  <2>1. PICK r : Complete(w, r)
    BY <1>6 DEF FlushIncident, JobError
  <2>2. pc[w] \in {"read", "lookup", "flush"} /\ share' = share /\ jobLock' = jobLock
    BY <1>6 DEF FlushIncident, JobError, claims, locks
  <2> QED BY <1>4, <2>1, <2>2
<1> QED BY <1>1, <1>2, <1>3, <1>5, <1>6
        DEF Next, Progress, FlushConflict, DeadlockVictim, Crash, Rollback, Commit

\* Every step keeps SnapInv: a run reads the alerts as they are.
LEMMA StepSnap == ASSUME Base, [Next]_vars PROVE SnapInv'
<1>0. IInv /\ SeenInv /\ BatchHeld /\ SnapInv
  BY DEF Base
<1>1. ASSUME NEW b \in Alerts, NEW n \in Jobs, Ingest(b, n) PROVE SnapInv'
  <2> SUFFICES ASSUME NEW v \in Workers, Reading(v)'
               PROVE  snap'[v][trigger'[Job(v)']] >= required'[Job(v)']
    BY DEF SnapInv
  <2>1. /\ status[n] = "none" /\ snap' = snap /\ pc' = pc /\ batch' = batch
        /\ trigger' = [trigger EXCEPT ![n] = b] /\ required' = [required EXCEPT ![n] = version[b] + 1]
    BY <1>1 DEF Ingest, work
  <2>2. Reading(v) /\ Job(v)' = Job(v)
    BY <2>1 DEF Reading, Job
  <2>3. Job(v) \in Jobs /\ Job(v) # n
    BY <2>1, <2>2, ReadingHasJob
  <2>4. trigger'[Job(v)] = trigger[Job(v)] /\ required'[Job(v)] = required[Job(v)]
    BY <1>0, <2>1, <2>3 DEF IInv, TypeOK
  <2> QED BY <1>0, <2>1, <2>2, <2>4 DEF SnapInv
<1>2. ASSUME UNCHANGED <<trigger, required>>,
             \A v \in Workers : Reading(v)' => Reading(v) /\ batch'[v] = batch[v] /\ snap'[v] = snap[v]
      PROVE  SnapInv'
  <2> SUFFICES ASSUME NEW v \in Workers, Reading(v)'
               PROVE  snap'[v][trigger'[Job(v)']] >= required'[Job(v)']
    BY DEF SnapInv
  <2>1. Reading(v) /\ Job(v)' = Job(v) /\ snap'[v] = snap[v]
    BY <1>2 DEF Job
  <2> QED BY <1>0, <1>2, <2>1 DEF SnapInv
<1>3. ASSUME NEW w \in Workers, EndRun(w), UNCHANGED <<trigger, required>> PROVE SnapInv'
  <2>1. \A v \in Workers : Reading(v)' => Reading(v) /\ batch'[v] = batch[v] /\ snap'[v] = snap[v]
    BY <1>0, <1>3, EndRunRows DEF Reading
  <2> QED BY <1>2, <1>3, <2>1
<1>4. ASSUME NEW w \in Workers, ReadAlerts(w) PROVE SnapInv'
  <2>1. /\ pc[w] = "read" /\ pc' = [pc EXCEPT ![w] = "lookup"]
        /\ snap' = [snap EXCEPT ![w] = [a \in Alerts |-> IF TraceOf[a] = TraceOfJob(Job(w)) THEN version[a] ELSE 0]]
        /\ batch' = batch /\ trigger' = trigger /\ required' = required
    BY <1>4 DEF ReadAlerts, Goto, tables, history
  <2>2. pc \in [Workers -> Steps] /\ snap \in [Workers -> Contents] /\ version \in [Alerts -> Nat]
    BY <1>0 DEF IInv, TypeOK, Contents
  <2> SUFFICES ASSUME NEW v \in Workers, Reading(v)'
               PROVE  snap'[v][trigger[Job(v)]] >= required[Job(v)]
    BY <2>1 DEF SnapInv, Job
  <2>3. CASE v = w
    <3>1. batch[w] # <<>>
      BY <1>0, <2>1 DEF IInv, BatchInv
    <3>2. trigger[Job(w)] \in Alerts /\ required[Job(w)] <= version[trigger[Job(w)]] /\ required[Job(w)] \in Nat
      BY <1>0, <3>1, JobFacts
    <3>3. snap'[w][trigger[Job(w)]] = version[trigger[Job(w)]]
      BY <2>1, <2>2, <3>2 DEF TraceOfJob
    <3> QED BY <2>2, <2>3, <3>2, <3>3
  <2>4. CASE v # w
    <3>1. Reading(v) /\ snap'[v] = snap[v]
      BY <2>1, <2>2, <2>4 DEF Reading
    <3> QED BY <1>0, <3>1 DEF SnapInv
  <2> QED BY <2>3, <2>4
<1>5. ASSUME NEW w \in Workers,
             Start(w) \/ SelectOrganizations(w) \/ SelectJobs(w) \/ Claim(w) \/ LookupIncident(w)
             \/ FlushIncident(w) \/ JobError(w)
      PROVE  SnapInv'
  <2>1. UNCHANGED <<trigger, required, snap>>
    BY <1>5 DEF Start, SelectOrganizations, SelectJobs, Claim, LookupIncident, FlushIncident, JobError,
                tables, work, history
  <2>2. pc \in [Workers -> Steps] /\ batch \in [Workers -> Seq(Jobs)]
    BY <1>0 DEF IInv, TypeOK
  <2>3. \A v \in Workers \ {w} : pc'[v] = pc[v] /\ batch'[v] = batch[v]
    BY <1>5, <2>2 DEF Start, SelectOrganizations, SelectJobs, Claim, LookupIncident, FlushIncident, JobError,
                      Complete, Goto, work
  <2>4. Reading(w)' => Reading(w) /\ batch'[w] = batch[w]
    <3>1. CASE LookupIncident(w)
      BY <3>1 DEF LookupIncident, Reading
    <3>2. CASE Start(w) \/ SelectOrganizations(w)
      BY <2>2, <3>2 DEF Start, SelectOrganizations, Goto, Reading
    <3>3. CASE SelectJobs(w) \/ Claim(w)
      BY <2>2, <3>3 DEF SelectJobs, Claim, Goto, AfterClaim, Reading
    <3>4. CASE FlushIncident(w) \/ JobError(w)
      BY <2>2, <3>4 DEF FlushIncident, JobError, Complete, Goto, Reading
    <3> QED BY <1>5, <3>1, <3>2, <3>3, <3>4
  <2>5. \A v \in Workers : Reading(v)' => Reading(v) /\ batch'[v] = batch[v] /\ snap'[v] = snap[v]
    BY <2>1, <2>3, <2>4 DEF Reading
  <2> QED BY <1>2, <2>1, <2>5
<1>6. CASE UNCHANGED vars
  BY <1>0, <1>6 DEF vars, tables, work, history, SnapInv, Reading, Job
<1>7. ASSUME NEW w \in Workers, FlushConflict(w) \/ DeadlockVictim(w) \/ Crash(w) \/ Commit(w) PROVE SnapInv'
  BY <1>3, <1>7 DEF FlushConflict, DeadlockVictim, Crash, Rollback, Commit, tables, history
<1> QED BY <1>1, <1>4, <1>5, <1>6, <1>7 DEF Next, Progress

\* Every step keeps RowInv: an incident is only written by jobs of its trace.
LEMMA StepRows == ASSUME Base, [Next]_vars PROVE RowInv'
<1>0. IInv /\ RowInv
  BY DEF Base
<1>1. ASSUME \A j \in Jobs : status[j] # "none" => status'[j] # "none" /\ trigger'[j] = trigger[j]
      PROVE  \A i, r : Built(i, r) => Built(i, r)'
  BY <1>1 DEF Built, TraceOfJob
<1>2. ASSUME NEW b \in Alerts, NEW n \in Jobs, Ingest(b, n) PROVE RowInv'
  <2>1. \A j \in Jobs : status[j] # "none" => status'[j] # "none" /\ trigger'[j] = trigger[j]
    BY <1>0, <1>2 DEF Ingest, IInv, TypeOK
  <2> QED BY <1>0, <1>1, <1>2, <2>1 DEF Ingest, work, RowInv
<1>3. ASSUME NEW w \in Workers, EndRun(w), trigger' = trigger,
             \A j \in Jobs : status[j] # "none" => status'[j] # "none",
             \A i \in Incidents : incident'[i] \in {incident[i], written[w][i]}
      PROVE  RowInv'
  <2> DEFINE Kept(i, r) == r.by \in Jobs /\ status'[r.by] # "none" /\ TraceOf[trigger'[r.by]] = i.trace
  <2>1. \A i, r : Built(i, r) => Kept(i, r)
    BY <1>3 DEF Built, TraceOfJob
  <2> HIDE DEF Kept
  <2>2. \A i \in Incidents : incident'[i] = NoRow \/ Kept(i, incident'[i])
    BY <1>0, <1>3, <2>1 DEF RowInv
  <2>3. \A v \in Workers, i \in Incidents : written'[v][i] = NoRow \/ written'[v][i] = written[v][i]
    BY <1>0, <1>3, EndRunRows DEF NoRows
  <2>4. \A v \in Workers, i \in Incidents : written'[v][i] = NoRow \/ Kept(i, written'[v][i])
    BY <1>0, <2>1, <2>3 DEF RowInv
  <2> QED BY <2>2, <2>4 DEF RowInv, Built, TraceOfJob, Kept
<1>4. ASSUME NEW w \in Workers, FlushConflict(w) \/ DeadlockVictim(w) \/ Crash(w) PROVE RowInv'
  BY <1>3, <1>4 DEF FlushConflict, DeadlockVictim, Crash, Rollback, tables
<1>5. ASSUME NEW w \in Workers, Commit(w) PROVE RowInv'
  <2>1. /\ EndRun(w) /\ trigger' = trigger /\ pc[w] = "commit"
        /\ status' = [j \in Jobs |-> IF jobLock[j] = w THEN outcome[w][j] ELSE status[j]]
        /\ incident' = [i \in Incidents |-> IF incidentLock[i] = w THEN written[w][i] ELSE incident[i]]
    BY <1>5 DEF Commit
  <2>2. \A j \in Jobs : status[j] # "none" => status'[j] # "none"
    BY <1>0, <2>1 DEF IInv, LockInv
  <2>3. \A i \in Incidents : incident'[i] \in {incident[i], written[w][i]}
    BY <2>1
  <2> QED BY <1>3, <2>1, <2>2, <2>3
<1>6. ASSUME NEW w \in Workers, FlushIncident(w) PROVE RowInv'
  <2> DEFINE i == IncidentFor(w)
             j == Job(w)
             row == [by |-> j, at |-> snap[w]]
  <2>1. /\ Reading(w) /\ written' = [written EXCEPT ![w][i] = row]
        /\ incident' = incident /\ status' = status /\ trigger' = trigger
    BY <1>6 DEF FlushIncident, tables, Reading
  <2>2. i \in Incidents /\ i.trace = TraceOfJob(j) /\ j \in Jobs /\ status[j] # "none"
    BY <2>1, ReadingHasJob
  <2>3. Built(i, row)
    BY <2>2 DEF Built
  <2> HIDE DEF i, row
  <2>4. \A v \in Workers, k \in Incidents : written'[v][k] = written[v][k] \/ (k = i /\ written'[v][k] = row)
    BY <1>0, <2>1 DEF IInv, TypeOK
  <2>5. \A k, r : Built(k, r)' <=> Built(k, r)
    BY <2>1 DEF Built, TraceOfJob
  <2>6. \A v \in Workers, k \in Incidents : written'[v][k] = NoRow \/ Built(k, written'[v][k])
    BY <1>0, <2>3, <2>4 DEF RowInv
  <2> QED BY <1>0, <2>1, <2>5, <2>6 DEF RowInv, Built, TraceOfJob
<1>7. ASSUME \/ \E w \in Workers : Start(w) \/ SelectOrganizations(w) \/ SelectJobs(w) \/ Claim(w)
                                    \/ ReadAlerts(w) \/ LookupIncident(w) \/ JobError(w)
             \/ UNCHANGED vars
      PROVE  RowInv'
  <2>1. status' = status /\ trigger' = trigger /\ incident' = incident /\ written' = written
    BY <1>7 DEF Start, SelectOrganizations, SelectJobs, Claim, ReadAlerts, LookupIncident, JobError, vars,
                tables, work
  <2> QED BY <1>0, <2>1 DEF RowInv, Built, TraceOfJob
<1> QED BY <1>2, <1>4, <1>5, <1>6, <1>7 DEF Next, Progress

\* Before anything was ingested.
LEMMA InitBase == Init => Base
<1> SUFFICES ASSUME Init PROVE Base
  OBVIOUS
<1>1. IInv
  BY InitInv
<1>2. SeenInv
  <2>1. \A a \in Alerts : version[a] = 0 /\ 0 <= Len(Spans[a])
    <3> SUFFICES ASSUME NEW a \in Alerts PROVE version[a] = 0 /\ 0 <= Len(Spans[a])
      OBVIOUS
    <3>1. Spans[a] \in Seq([first : Nat, last : Nat])
      BY SpanAssumption
    <3> QED BY <3>1 DEF Init, NoAlerts
  <2> QED BY <2>1 DEF Init, SeenInv, NoAlerts, NoRow, NoRows
<1>3. BatchHeld
  <2>1. Len(<<>>) = 0
    OBVIOUS
  <2> QED BY <2>1 DEF Init, BatchHeld
<1>4. SnapInv
  BY DEF Init, SnapInv, Reading
<1>5. RowInv
  BY DEF Init, RowInv, NoRows
<1> QED BY <1>1, <1>2, <1>3, <1>4, <1>5 DEF Base

\* Every step keeps it.
LEMMA StepBase == Base /\ ShareInv /\ [Next]_vars => Base' /\ ShareInv'
BY StepInv, StepSeen, StepHeld, StepSnap, StepRows DEF Base

\* The invariant holds for any number of runs, jobs and crashes.
THEOREM Invariance == Spec => [](Base /\ ShareInv)
<1>1. Init => ShareInv
  BY DEF Init, ShareInv
<1> QED BY <1>1, InitBase, StepBase, PTL DEF Spec

\* reconstruction_jobs, incidents and the runs' state keep their types; in particular
\* no job is ever left "claimed" in the table.
THEOREM TypeCorrect == Spec => []TypeOK
<1>1. Base => TypeOK
  BY DEF Base, IInv
<1> QED BY <1>1, Invariance, PTL

\* claim_reconstruction_jobs: concurrent runs, rollbacks and crashes never commit the
\* processing of a job twice.
THEOREM JobsProcessedOnce == Spec => []ProcessedOnce
<1>1. Base => ProcessedOnce
  BY DEF Base, IInv, CountInv, ProcessedOnce
<1> QED BY <1>1, Invariance, PTL

\* A run stays detained whatever the other runs do, unless one of them commits.
LEMMA DetainedByOthers ==
  ASSUME IInv, NEW u \in Workers, Detained(u),
         pc'[u] = pc[u], batch'[u] = batch[u], orgs'[u] = orgs[u], cand'[u] = cand[u],
         \A h \in Jobs : status[h] = "pending" => status'[h] = "pending",
         \A h \in Jobs : jobLock[h] # u => jobLock'[h] # u
  PROVE  Detained(u)'
<1>1. orgs[u] \subseteq Jobs /\ cand[u] \subseteq Jobs
  BY DEF IInv, TypeOK
<1>2. CASE batch[u] # <<>> \/ pc[u] = "orgs"
  BY <1>2 DEF Detained
<1>3. CASE pc[u] = "jobs" /\ \E h \in orgs[u] : status[h] = "pending" /\ jobLock[h] # u
  BY <1>1, <1>3 DEF Detained
<1>4. CASE pc[u] = "claim" /\ \E h \in orgs[u] \cup cand[u] : status[h] = "pending" /\ jobLock[h] # u
  BY <1>1, <1>4 DEF Detained
<1> QED BY <1>2, <1>3, <1>4 DEF Detained

\* A run that starts over finds the pending jobs of the others.
LEMMA DetainedBySelection ==
  ASSUME IInv, NEW u \in Workers, Pending(u) # {}, SelectOrganizations(u)
  PROVE  Detained(u)'
<1> DEFINE heads == Oldest(Batch, Heads(u))
<1>1. heads # {} /\ heads \subseteq Pending(u)
  BY HeadFound DEF Oldest, Heads
<1>2. PICK h \in heads : h \in Jobs /\ status[h] = "pending" /\ jobLock[h] # u
  BY <1>1 DEF Pending
<1>3. orgs'[u] = heads /\ pc'[u] = "jobs" /\ status' = status /\ jobLock' = jobLock
  BY <1>1 DEF SelectOrganizations, Goto, IInv, TypeOK, tables, locks
<1> HIDE DEF heads
<1> QED BY <1>2, <1>3 DEF Detained

\* A run that looks for the jobs of an organization finds the one it was sent for, unless that
\* was committed.
LEMMA DetainedByCandidates ==
  ASSUME IInv, ShareInv, NEW u \in Workers, Detained(u), SelectJobs(u)
  PROVE  Detained(u)'
<1> DEFINE rest == orgs[u] \ {Min(orgs[u])}
           open == {j \in Pending(u) : OrgOfJob(j) = OrgOfJob(Min(orgs[u]))}
           candidates == Oldest(share[u], open)
<1>1. /\ orgs'[u] = rest /\ cand'[u] = candidates
      /\ pc'[u] = AfterClaim(candidates, rest, batch[u])
      /\ batch' = batch /\ status' = status /\ jobLock' = jobLock /\ pc[u] = "jobs"
  BY DEF SelectJobs, Goto, IInv, TypeOK, tables, work, locks
<1>2. CASE batch[u] # <<>>
  BY <1>1, <1>2 DEF Detained
<1>3. CASE batch[u] = <<>>
  <2>1. PICK h \in orgs[u] : status[h] = "pending" /\ jobLock[h] # u
    BY <1>1, <1>3 DEF Detained
  <2>2. h \in Jobs /\ h \in Pending(u)
    BY <2>1 DEF IInv, TypeOK, Pending
  <2>3. CASE h = Min(orgs[u])
    <3>1. open \in SUBSET Jobs /\ open # {}
      BY <2>2, <2>3 DEF Pending
    <3>2. share[u] \in Nat /\ share[u] >= 1
      BY <1>1 DEF IInv, TypeOK, ShareInv
    <3>3. candidates # {} /\ candidates \subseteq Pending(u)
      <4>1. candidates # {}
        <5> HIDE DEF open
        <5> QED BY <3>1, <3>2, OldestFound
      <4> QED BY <4>1 DEF Oldest
    <3>4. PICK c \in candidates : status[c] = "pending" /\ jobLock[c] # u
      BY <3>3 DEF Pending
    <3>5. pc'[u] = "claim"
      BY <1>1, <3>3 DEF AfterClaim
    <3> HIDE DEF candidates, rest
    <3> QED BY <1>1, <3>4, <3>5 DEF Detained
  <2>4. CASE h # Min(orgs[u])
    <3>1. h \in rest
      BY <2>1, <2>4
    <3>2. pc'[u] \in {"claim", "jobs"}
      BY <1>1, <3>1 DEF AfterClaim
    <3> HIDE DEF candidates, rest
    <3> QED BY <1>1, <2>1, <3>1, <3>2 DEF Detained
  <2> QED BY <2>3, <2>4
<1> QED BY <1>2, <1>3

\* A claim that is lost leaves the candidates that are not.
LEMMA DetainedByClaim ==
  ASSUME IInv, NEW u \in Workers, Detained(u), Claim(u)
  PROVE  Detained(u)'
<1>1. PICK j \in Jobs :
        LET won == status[j] = "pending"
            claimed == IF won THEN Append(batch[u], j) ELSE batch[u]
        IN
        /\ Free(jobLock, j, u)
        /\ cand' = [cand EXCEPT ![u] = @ \ {j}]
        /\ jobLock' = [jobLock EXCEPT ![j] = IF won THEN u ELSE @]
        /\ batch' = [batch EXCEPT ![u] = claimed]
        /\ Goto(u, AfterClaim(cand[u] \ {j}, orgs[u], claimed))
  BY DEF Claim, FirstCandidate, IInv, TypeOK
<1>2. status' = status /\ orgs' = orgs /\ pc[u] = "claim"
  BY DEF Claim, tables
<1>3. batch[u] \in Seq(Jobs) /\ batch \in [Workers -> Seq(Jobs)] /\ cand \in [Workers -> SUBSET Jobs]
      /\ pc \in [Workers -> Steps] /\ jobLock \in [Jobs -> Workers \cup {None}]
  BY DEF IInv, TypeOK
<1>4. CASE status[j] = "pending"
  <2>1. batch'[u] = Append(batch[u], j)
    BY <1>1, <1>3, <1>4
  <2>2. Len(Append(batch[u], j)) = Len(batch[u]) + 1 /\ Len(batch[u]) \in Nat /\ Len(<<>>) = 0
    BY <1>3
  <2>3. batch'[u] # <<>>
    <3> SUFFICES ASSUME Append(batch[u], j) = <<>> PROVE FALSE
      BY <2>1
    <3> DEFINE n == Len(batch[u])
    <3>1. n + 1 = 0 /\ n \in Nat
      BY <2>2
    <3> HIDE DEF n
    <3> QED BY <3>1
  <2> QED BY <2>3 DEF Detained
<1>5. CASE status[j] # "pending"
  <2>1. batch'[u] = batch[u] /\ jobLock' = jobLock /\ cand'[u] = cand[u] \ {j}
    BY <1>1, <1>3, <1>5
  <2>2. CASE batch[u] # <<>>
    BY <2>1, <2>2 DEF Detained
  <2>3. CASE batch[u] = <<>>
    <3>1. PICK h \in orgs[u] \cup cand[u] : status[h] = "pending" /\ jobLock[h] # u
      BY <1>2, <2>3 DEF Detained
    <3>2. h \in orgs'[u] \cup cand'[u] /\ h # j
      BY <1>2, <1>5, <2>1, <3>1
    <3>3. pc'[u] = AfterClaim(cand[u] \ {j}, orgs[u], batch[u])
      BY <1>1, <1>3, <1>5 DEF Goto
    <3>4. pc'[u] = "claim" \/ (pc'[u] = "jobs" /\ cand'[u] = {})
      BY <1>2, <2>1, <3>2, <3>3 DEF AfterClaim
    <3>5. CASE pc'[u] = "claim"
      BY <1>2, <2>1, <3>1, <3>2, <3>5 DEF Detained
    <3>6. CASE pc'[u] = "jobs" /\ cand'[u] = {}
      BY <1>2, <2>1, <3>1, <3>2, <3>6 DEF Detained
    <3> QED BY <3>4, <3>5, <3>6
  <2> QED BY <2>2, <2>3
<1> QED BY <1>4, <1>5

\* The parts that need the hypothesis of two runs.
TwoRunsInv == ReadInv /\ OrderInv /\ WrittenInv /\ SettledInv /\ DoneInv

\* The inductive invariant behind DoneIsReflected.
ReflectInv == Base /\ ShareInv /\ (AtMostTwoRuns => TwoRunsInv)

\* Everything that holds before a step.
Before == Base /\ ShareInv /\ AtMostTwoRuns /\ TwoRunsInv

\* An ingest adds a job that nobody has read for.
LEMMA IngestReflects ==
  ASSUME Before, NEW b \in Alerts, NEW n \in Jobs, Ingest(b, n) PROVE TwoRunsInv'
<1>1. /\ status[n] = "none" /\ status' = [status EXCEPT ![n] = "pending"]
      /\ trigger' = [trigger EXCEPT ![n] = b] /\ required' = [required EXCEPT ![n] = version[b] + 1]
  BY DEF Ingest
<1>2. /\ incident' = incident /\ snap' = snap /\ written' = written /\ pc' = pc /\ batch' = batch
      /\ orgs' = orgs /\ cand' = cand /\ outcome' = outcome
      /\ jobLock' = jobLock /\ incidentLock' = incidentLock /\ builtIn' = builtIn
  BY DEF Ingest, work, claims, locks
<1>3. \A j \in Jobs \ {n} :
        /\ status'[j] = status[j] /\ trigger'[j] = trigger[j] /\ required'[j] = required[j]
        /\ TraceOfJob(j)' = TraceOfJob(j)
  BY <1>1 DEF Before, Base, IInv, TypeOK, TraceOfJob
<1>4. ASSUME NEW w \in Workers, Reading(w)'
      PROVE  Reading(w) /\ IncidentFor(w)' = IncidentFor(w)
  <2>1. Reading(w) /\ Job(w)' = Job(w)
    BY <1>2, <1>4 DEF Reading, Job
  <2>2. Job(w) \in Jobs \ {n}
    BY <1>1, <2>1, ReadingHasJob DEF Before
  <2>3. trigger'[Job(w)] = trigger[Job(w)] /\ required'[Job(w)] = required[Job(w)] /\ snap'[w] = snap[w]
    BY <1>2, <1>3, <2>2
  <2> QED BY <2>1, <2>3, IncidentKept
<1>5. ReadInv'
  BY <1>2, <1>4 DEF Before, TwoRunsInv, ReadInv, NoNewer
<1>6. \A u \in Workers : Detained(u) => Detained(u)'
  BY <1>1, <1>2, <1>3, DetainedByOthers DEF Before, Base
<1>7. OrderInv'
  BY <1>2, <1>4, <1>6 DEF Before, TwoRunsInv, OrderInv, NoNewer
<1>8. WrittenInv'
  BY <1>2 DEF Before, TwoRunsInv, WrittenInv, NoNewer
<1>9. SettledInv'
  <2> SUFFICES ASSUME NEW w \in Workers, NEW j \in Jobs, jobLock'[j] = w /\ outcome'[w][j] = "done"
               PROVE  /\ builtIn'[j] \in Incidents /\ builtIn'[j].trace = TraceOfJob(j)'
                      /\ incidentLock'[builtIn'[j]] = w
                      /\ written'[w][builtIn'[j]].at[trigger'[j]] >= required'[j]
    BY DEF SettledInv
  <2>1. j # n
    BY <1>1, <1>2 DEF Before, Base, IInv, LockInv
  <2> QED BY <1>2, <1>3, <2>1 DEF Before, TwoRunsInv, SettledInv
<1>10. DoneInv'
  <2> SUFFICES ASSUME NEW j \in Jobs, status'[j] = "done"
               PROVE  /\ builtIn'[j] \in Incidents /\ builtIn'[j].trace = TraceOfJob(j)'
                      /\ incident'[builtIn'[j]].at[trigger'[j]] >= required'[j]
    BY DEF DoneInv
  <2>1. j # n
    BY <1>1 DEF Before, Base, IInv, TypeOK
  <2> QED BY <1>2, <1>3, <2>1 DEF Before, TwoRunsInv, DoneInv
<1> QED BY <1>5, <1>7, <1>8, <1>9, <1>10 DEF TwoRunsInv

\* A step of w that neither reads nor writes rows keeps everything, if w stays detained.
LEMMA QuietReflects ==
  ASSUME Before, NEW w \in Workers,
         UNCHANGED <<status, trigger, incident, snap, written, required, incidentLock, builtIn>>,
         Reading(w)' => Reading(w) /\ batch'[w] = batch[w],
         \A v \in Workers \ {w} :
           pc'[v] = pc[v] /\ batch'[v] = batch[v] /\ orgs'[v] = orgs[v] /\ cand'[v] = cand[v],
         \A j \in Jobs : jobLock'[j] # jobLock[j] => jobLock'[j] = w,
         \A v \in Workers, j \in Jobs :
           jobLock'[j] = v /\ outcome'[v][j] = "done" => jobLock[j] = v /\ outcome[v][j] = "done",
         Detained(w) /\ Pending(w) # {} => Detained(w)'
  PROVE  TwoRunsInv'
<1>1. ASSUME NEW v \in Workers, Reading(v)'
      PROVE  Reading(v) /\ IncidentFor(v)' = IncidentFor(v)
  <2>1. Reading(v) /\ Job(v)' = Job(v)
    BY <1>1 DEF Reading, Job
  <2> QED BY <2>1, IncidentKept
<1>2. ReadInv'
  BY <1>1 DEF Before, Base, TwoRunsInv, ReadInv, NoNewer
<1>3. ASSUME NEW v \in Workers, Reading(v), NEW u \in Workers, u # v, Detained(u)
      PROVE  Detained(u)'
  <2>1. CASE u = w
    <3>1. Job(v) \in Pending(w)
      BY <1>3, <2>1, ReadingHasJob DEF Before, Pending
    <3> QED BY <1>3, <2>1, <3>1
  <2>2. CASE u # w
    BY <1>3, <2>2, DetainedByOthers DEF Before, Base
  <2> QED BY <2>1, <2>2
<1>4. OrderInv'
  BY <1>1, <1>3 DEF Before, Base, TwoRunsInv, OrderInv, NoNewer
<1>5. WrittenInv' /\ SettledInv' /\ DoneInv'
  BY DEF Before, TwoRunsInv, WrittenInv, SettledInv, DoneInv, TraceOfJob, NoNewer
<1> QED BY <1>2, <1>4, <1>5 DEF TwoRunsInv

\* A run that reads the alerts reads them as they are.
LEMMA ReadReflects ==
  ASSUME Before, NEW w \in Workers, ReadAlerts(w) PROVE TwoRunsInv'
<1>1. /\ pc[w] = "read"
      /\ snap' = [snap EXCEPT ![w] = [a \in Alerts |-> IF TraceOf[a] = TraceOfJob(Job(w)) THEN version[a] ELSE 0]]
      /\ pc' = [pc EXCEPT ![w] = "lookup"]
      /\ UNCHANGED <<tables, claims, batch, outcome, written, locks, history>>
  BY DEF ReadAlerts, Goto
<1>2. /\ version' = version /\ status' = status /\ trigger' = trigger /\ incident' = incident
      /\ orgs' = orgs /\ cand' = cand /\ jobLock' = jobLock /\ incidentLock' = incidentLock
      /\ required' = required /\ builtIn' = builtIn /\ batch' = batch /\ outcome' = outcome /\ written' = written
  BY <1>1 DEF tables, claims, locks, history
<1>3. /\ snap \in [Workers -> Contents] /\ pc \in [Workers -> Steps] /\ version \in [Alerts -> Nat]
  BY DEF Before, Base, IInv, TypeOK, Contents
<1>4. batch[w] # <<>>
  BY <1>1 DEF Before, Base, IInv, BatchInv
<1>5. /\ Job(w) \in Jobs /\ trigger[Job(w)] \in Alerts /\ required[Job(w)] \in Nat
      /\ 1 <= required[Job(w)] /\ required[Job(w)] <= version[trigger[Job(w)]]
  BY <1>4, JobFacts DEF Before, Base
<1>6. PICK at \in Contents :
        /\ at = snap'[w]
        /\ \A a \in Alerts : IF TraceOf[a] = TraceOfJob(Job(w)) THEN at[a] = version[a] ELSE at[a] = 0
  BY <1>1, <1>3 DEF Contents
<1>7. PICK i : i = Identity(Job(w), at)
  OBVIOUS
<1>8. i \in Incidents /\ i.trace = TraceOfJob(Job(w)) /\ IncidentFor(w)' = i
  <2>1. at[trigger[Job(w)]] >= required[Job(w)]
    BY <1>3, <1>5, <1>6 DEF TraceOfJob
  <2>2. ASSUME NEW a \in Alerts PROVE at[a] <= Len(Spans[a])
    <3>1. version[a] <= Len(Spans[a]) /\ version[a] \in Nat
      BY <1>3 DEF Before, Base, SeenInv
    <3>2. Spans[a] \in Seq([first : Nat, last : Nat])
      BY SpanAssumption
    <3>3. Len(Spans[a]) \in Nat
      BY <3>2
    <3> QED BY <1>6, <3>1, <3>3
  <2>3. i \in Incidents /\ i.trace = TraceOfJob(Job(w))
    BY <1>5, <1>7, <2>1, <2>2, IdentityType
  <2>4. Job(w)' = Job(w) /\ trigger' = trigger /\ required' = required /\ snap'[w] = at
    BY <1>2, <1>6 DEF Job
  <2>5. IncidentFor(w)' = i
    BY <1>7, <2>4 DEF IncidentFor, Identity, Related, InWindow, TraceOfJob, KindOf
  <2> QED BY <2>3, <2>5
<1>9. \A f : (\A a \in Alerts : f[a] <= version[a]) => NoNewer(i, f, at)
  BY <1>6, <1>8 DEF NoNewer
<1>10. ASSUME NEW v \in Workers \ {w}, Reading(v)'
       PROVE  Reading(v) /\ IncidentFor(v)' = IncidentFor(v) /\ snap'[v] = snap[v]
  <2>1. Reading(v) /\ Job(v)' = Job(v) /\ snap'[v] = snap[v]
    BY <1>1, <1>2, <1>3, <1>10 DEF Reading, Job
  <2> QED BY <1>2, <2>1, IncidentKept
<1>11. ReadInv'
  <2> SUFFICES ASSUME NEW v \in Workers, Reading(v)'
               PROVE  NoNewer(IncidentFor(v)', incident[IncidentFor(v)'].at, snap'[v])
    BY <1>2 DEF ReadInv, NoNewer
  <2>1. CASE v # w
    BY <1>10, <2>1 DEF Before, TwoRunsInv, ReadInv
  <2>2. CASE v = w
    <3>1. \A a \in Alerts : incident[i].at[a] <= version[a]
      BY <1>8 DEF Before, Base, SeenInv
    <3>2. NoNewer(i, incident[i].at, at)
      BY <1>9, <3>1
    <3> QED BY <1>6, <1>8, <2>2, <3>2
  <2> QED BY <2>1, <2>2
<1>12. \A u \in Workers : u # w /\ Detained(u) => Detained(u)'
  BY <1>1, <1>2, <1>3, DetainedByOthers DEF Before, Base
<1>13. Detained(w)'
  BY <1>2, <1>4 DEF Detained
<1>14. OrderInv'
  <2> SUFFICES ASSUME NEW v \in Workers, NEW u \in Workers, Reading(v)', incidentLock[IncidentFor(v)'] = u
               PROVE  \/ u # v /\ Detained(u)'
                      \/ NoNewer(IncidentFor(v)', written[u][IncidentFor(v)'].at, snap'[v])
    BY <1>2 DEF OrderInv, NoNewer
  <2>1. CASE v = w
    <3>1. \A a \in Alerts : written[u][i].at[a] <= version[a]
      BY <1>8 DEF Before, Base, SeenInv
    <3>2. NoNewer(i, written[u][i].at, at)
      BY <1>9, <3>1
    <3> QED BY <1>6, <1>8, <2>1, <3>2
  <2>2. CASE v # w
    <3>1. Reading(v) /\ IncidentFor(v)' = IncidentFor(v) /\ snap'[v] = snap[v]
      BY <1>10, <2>2
    <3>2. \/ u # v /\ Detained(u)
          \/ NoNewer(IncidentFor(v), written[u][IncidentFor(v)].at, snap[v])
      BY <3>1 DEF Before, TwoRunsInv, OrderInv
    <3> QED BY <1>12, <1>13, <3>1, <3>2
  <2> QED BY <2>1, <2>2
<1>15. WrittenInv' /\ SettledInv' /\ DoneInv'
  BY <1>2 DEF Before, TwoRunsInv, WrittenInv, SettledInv, DoneInv, TraceOfJob, NoNewer
<1> QED BY <1>11, <1>14, <1>15 DEF TwoRunsInv

\* complete_reconstruction_job leads on to the next job or to another look at the queue.
LEMMA CompleteDetains ==
  ASSUME Before, NEW w \in Workers, NEW r, pc[w] \in {"read", "lookup", "flush"}, Complete(w, r)
  PROVE  /\ Detained(w)' /\ ~Reading(w)'
         /\ \A v \in Workers \ {w} : pc'[v] = pc[v] /\ batch'[v] = batch[v]
         /\ \A v \in Workers, j \in Jobs :
              outcome'[v][j] # outcome[v][j] => v = w /\ j = Job(w) /\ outcome'[v][j] = r
<1>1. /\ outcome' = [outcome EXCEPT ![w][Job(w)] = r]
      /\ batch' = [batch EXCEPT ![w] = Tail(@)]
      /\ pc' = [pc EXCEPT ![w] = IF Len(batch[w]) > 1 THEN "read" ELSE "orgs"]
  BY DEF Complete, Goto
<1>2. /\ batch \in [Workers -> Seq(Jobs)] /\ pc \in [Workers -> Steps]
      /\ outcome \in [Workers -> [Jobs -> Statuses]] /\ batch[w] # <<>>
  BY DEF Before, Base, IInv, TypeOK, BatchInv
<1>3. Detained(w)'
  <2>1. CASE Len(batch[w]) > 1
    <3>1. batch[w] \in Seq(Jobs) /\ Len(Tail(batch[w])) = Len(batch[w]) - 1 /\ Len(batch[w]) \in Nat
      BY <1>2
    <3>2. Tail(batch[w]) # <<>>
      <4> SUFFICES ASSUME Tail(batch[w]) = <<>> PROVE FALSE
        OBVIOUS
      <4> DEFINE n == Len(batch[w])
      <4>0. Len(<<>>) = 0
        OBVIOUS
      <4>1. Len(Tail(batch[w])) = 0
        BY <4>0
      <4>2. n \in Nat /\ n > 1 /\ n - 1 = 0
        BY <2>1, <3>1, <4>1
      <4> HIDE DEF n
      <4> QED BY <4>2
    <3>3. batch'[w] = Tail(batch[w])
      BY <1>1, <1>2
    <3> QED BY <3>2, <3>3 DEF Detained
  <2>2. CASE ~(Len(batch[w]) > 1)
    BY <1>1, <1>2, <2>2 DEF Detained
  <2> QED BY <2>1, <2>2
<1>4. ~Reading(w)'
  BY <1>1, <1>2 DEF Reading
<1>5. \A v \in Workers \ {w} : pc'[v] = pc[v] /\ batch'[v] = batch[v]
  BY <1>1, <1>2
<1>6. ASSUME NEW v \in Workers, NEW j \in Jobs, outcome'[v][j] # outcome[v][j]
      PROVE  v = w /\ j = Job(w) /\ outcome'[v][j] = r
  <2>1. v = w
    BY <1>1, <1>2, <1>6
  <2>2. j = Job(w)
    BY <1>1, <1>2, <1>6, <2>1
  <2> QED BY <1>1, <1>2, <2>1, <2>2
<1> QED BY <1>3, <1>4, <1>5, <1>6

\* A job that fails writes nothing.
LEMMA ErrorReflects ==
  ASSUME Before, NEW w \in Workers, JobError(w) PROVE TwoRunsInv'
<1>1. /\ Detained(w)' /\ ~Reading(w)'
      /\ \A v \in Workers \ {w} : pc'[v] = pc[v] /\ batch'[v] = batch[v]
      /\ \A v \in Workers, j \in Jobs :
           outcome'[v][j] # outcome[v][j] => v = w /\ j = Job(w) /\ outcome'[v][j] = "failed"
  <2>1. pc[w] \in {"read", "lookup", "flush"} /\ Complete(w, "failed")
    BY DEF JobError
  <2> QED BY <2>1, CompleteDetains
<1>2. UNCHANGED <<status, trigger, incident, snap, written, required, orgs, cand, jobLock, incidentLock, builtIn>>
  BY DEF JobError, tables, claims, locks, history
<1>3. \A v \in Workers, j \in Jobs :
        jobLock'[j] = v /\ outcome'[v][j] = "done" => jobLock[j] = v /\ outcome[v][j] = "done"
  BY <1>1, <1>2
<1> QED BY <1>1, <1>2, <1>3, QuietReflects

\* A run that writes the incident writes what it read, which is later than the committed row.
LEMMA FlushReflects ==
  ASSUME Before, NEW w \in Workers, FlushIncident(w) PROVE TwoRunsInv'
<1> DEFINE i == IncidentFor(w)
           row == [by |-> Job(w), at |-> snap[w]]
<1>1. /\ pc[w] = "flush" /\ Free(incidentLock, i, w) /\ Complete(w, "done")
      /\ incidentLock' = [incidentLock EXCEPT ![i] = w]
      /\ written' = [written EXCEPT ![w][i] = row]
      /\ builtIn' = [builtIn EXCEPT ![Job(w)] = i]
      /\ UNCHANGED <<status, trigger, incident, snap, required, orgs, cand, jobLock>>
  BY DEF FlushIncident, tables, claims
<1>2. /\ Detained(w)' /\ ~Reading(w)'
      /\ \A v \in Workers \ {w} : pc'[v] = pc[v] /\ batch'[v] = batch[v]
      /\ \A v \in Workers, j \in Jobs :
           outcome'[v][j] # outcome[v][j] => v = w /\ j = Job(w) /\ outcome'[v][j] = "done"
  BY <1>1, CompleteDetains
<1>3. /\ Reading(w) /\ Job(w) \in Jobs /\ jobLock[Job(w)] = w /\ status[Job(w)] = "pending"
      /\ trigger[Job(w)] \in Alerts /\ i \in Incidents /\ i.trace = TraceOfJob(Job(w))
      /\ snap[w][trigger[Job(w)]] >= required[Job(w)]
  BY <1>1, ReadingHasJob DEF Before, Reading
<1>4. /\ incidentLock \in [Incidents -> Workers \cup {None}]
      /\ written \in [Workers -> [Incidents -> Rows]]
      /\ builtIn \in [Jobs -> Incidents \cup {None}]
  BY DEF Before, Base, IInv, TypeOK
<1>5. NoNewer(i, incident[i].at, snap[w])
  BY <1>3 DEF Before, TwoRunsInv, ReadInv
<1>6. incidentLock[i] = w => NoNewer(i, written[w][i].at, snap[w])
  BY <1>3 DEF Before, TwoRunsInv, OrderInv
<1>7. row.at = snap[w]
  OBVIOUS
<1> HIDE DEF i, row
<1>8. /\ incidentLock'[i] = w /\ written'[w][i].at = snap[w]
      /\ \A k \in Incidents \ {i} : incidentLock'[k] = incidentLock[k] /\ written'[w][k] = written[w][k]
      /\ \A v \in Workers \ {w} : written'[v] = written[v]
      /\ builtIn'[Job(w)] = i /\ \A j \in Jobs \ {Job(w)} : builtIn'[j] = builtIn[j]
  BY <1>1, <1>3, <1>4, <1>7
<1>9. ASSUME NEW v \in Workers, Reading(v)'
      PROVE  v # w /\ Reading(v) /\ IncidentFor(v)' = IncidentFor(v)
  <2>1. v # w
    BY <1>2, <1>9
  <2>2. Reading(v) /\ Job(v)' = Job(v)
    BY <1>2, <1>9, <2>1 DEF Reading, Job
  <2> QED BY <1>1, <2>1, <2>2, IncidentKept
<1>10. ReadInv'
  BY <1>1, <1>9 DEF Before, TwoRunsInv, ReadInv, NoNewer
<1>11. \A u \in Workers : u # w /\ Detained(u) => Detained(u)'
  BY <1>1, <1>2, DetainedByOthers DEF Before, Base
<1>12. OrderInv'
  <2> SUFFICES ASSUME NEW v \in Workers, NEW u \in Workers, Reading(v)',
                      incidentLock'[IncidentFor(v)'] = u
               PROVE  \/ u # v /\ Detained(u)'
                      \/ NoNewer(IncidentFor(v)', written'[u][IncidentFor(v)'].at, snap'[v])
    BY DEF OrderInv, NoNewer
  <2>1. v # w /\ Reading(v) /\ IncidentFor(v)' = IncidentFor(v)
    BY <1>9
  <2>2. CASE u = w
    BY <1>2, <2>1, <2>2
  <2>3. CASE u # w
    <3>1. IncidentFor(v) \in Incidents
      BY <2>1, ReadingHasJob DEF Before
    <3>2. incidentLock[IncidentFor(v)] = u /\ written'[u] = written[u]
      BY <1>8, <2>1, <2>3, <3>1
    <3>3. \/ u # v /\ Detained(u)
          \/ NoNewer(IncidentFor(v), written[u][IncidentFor(v)].at, snap[v])
      BY <2>1, <3>2 DEF Before, TwoRunsInv, OrderInv
    <3> QED BY <1>1, <1>11, <2>1, <2>3, <3>2, <3>3
  <2> QED BY <2>2, <2>3
<1>13. WrittenInv'
  <2> SUFFICES ASSUME NEW v \in Workers, NEW k \in Incidents, incidentLock'[k] = v
               PROVE  NoNewer(k, incident[k].at, written'[v][k].at)
    BY <1>1 DEF WrittenInv, NoNewer
  <2>1. CASE k = i
    BY <1>5, <1>8, <2>1
  <2>2. CASE k # i
    BY <1>8, <2>2 DEF Before, TwoRunsInv, WrittenInv
  <2> QED BY <2>1, <2>2
<1>14. SettledInv'
  <2> SUFFICES ASSUME NEW v \in Workers, NEW j \in Jobs, jobLock[j] = v, outcome'[v][j] = "done"
               PROVE  /\ builtIn'[j] \in Incidents /\ builtIn'[j].trace = TraceOfJob(j)
                      /\ incidentLock'[builtIn'[j]] = v
                      /\ written'[v][builtIn'[j]].at[trigger[j]] >= required[j]
    BY <1>1 DEF SettledInv, TraceOfJob
  <2>1. CASE j = Job(w)
    BY <1>3, <1>8, <2>1
  <2>2. CASE j # Job(w)
    <3>1. outcome[v][j] = "done" /\ builtIn'[j] = builtIn[j]
      BY <1>2, <1>8, <2>2
    <3> DEFINE k == builtIn[j]
    <3>2. /\ k \in Incidents /\ k.trace = TraceOfJob(j) /\ incidentLock[k] = v
          /\ written[v][k].at[trigger[j]] >= required[j]
      BY <3>1 DEF Before, TwoRunsInv, SettledInv
    <3>3. CASE k # i
      BY <1>8, <3>1, <3>2, <3>3
    <3>4. CASE k = i
      <4>1. v = w
        BY <1>1, <3>2, <3>4, QueueAssumption DEF Free
      <4>2. trigger[j] \in Alerts
        <5>1. status[j] = "pending"
          BY DEF Before, Base, IInv, LockInv
        <5> QED BY <5>1 DEF Before, Base, SeenInv
      <4>3. written[w][i].at[trigger[j]] <= snap[w][trigger[j]]
        BY <1>6, <3>2, <3>4, <4>1, <4>2 DEF NoNewer, TraceOfJob
      <4>4. written[w][i].at[trigger[j]] \in Nat /\ snap[w][trigger[j]] \in Nat /\ required[j] \in Nat
        BY <1>3, <4>2 DEF Before, Base, IInv, TypeOK, Rows, Contents
      <4>5. snap[w][trigger[j]] >= required[j]
        BY <3>2, <3>4, <4>1, <4>3, <4>4
      <4> QED BY <1>8, <3>1, <3>2, <3>4, <4>1, <4>5
    <3> QED BY <3>3, <3>4
  <2> QED BY <2>1, <2>2
<1>15. DoneInv'
  <2> SUFFICES ASSUME NEW j \in Jobs, status[j] = "done"
               PROVE  /\ builtIn'[j] \in Incidents /\ builtIn'[j].trace = TraceOfJob(j)
                      /\ incident[builtIn'[j]].at[trigger[j]] >= required[j]
    BY <1>1 DEF DoneInv, TraceOfJob
  <2>1. builtIn'[j] = builtIn[j]
    BY <1>3, <1>8
  <2> QED BY <2>1 DEF Before, TwoRunsInv, DoneInv
<1> QED BY <1>10, <1>12, <1>13, <1>14, <1>15 DEF TwoRunsInv

\* What the end of w leaves of the other runs.
LEMMA EndRunReflects ==
  ASSUME Before, NEW w \in Workers, EndRun(w), UNCHANGED <<trigger, required, builtIn>>
  PROVE  /\ \A v \in Workers : Reading(v)' =>
              v # w /\ Reading(v) /\ IncidentFor(v)' = IncidentFor(v)
         /\ \A v \in Workers, i \in Incidents : incidentLock'[i] = v =>
              v # w /\ incidentLock[i] = v /\ written'[v] = written[v]
         /\ SettledInv'
<1>1. ASSUME NEW v \in Workers, Reading(v)'
      PROVE  v # w /\ Reading(v) /\ IncidentFor(v)' = IncidentFor(v)
  <2>1. pc'[w] = "idle"
    BY EndRunRows DEF Before, Base
  <2>2. v # w
    BY <1>1, <2>1 DEF Reading
  <2>3. pc'[v] = pc[v] /\ batch'[v] = batch[v] /\ snap'[v] = snap[v]
    BY <2>2, EndRunRows DEF Before, Base
  <2>4. Reading(v) /\ Job(v)' = Job(v)
    BY <1>1, <2>3 DEF Reading, Job
  <2> QED BY <2>2, <2>3, <2>4, IncidentKept
<1>2. ASSUME NEW v \in Workers, NEW i \in Incidents, incidentLock'[i] = v
      PROVE  v # w /\ incidentLock[i] = v /\ written'[v] = written[v]
  <2>1. v # w
    BY <1>2, EndRunRows DEF Before, Base
  <2>2. incidentLock'[i] = IF incidentLock[i] = w THEN None ELSE incidentLock[i]
    BY DEF EndRun, Release, Before, Base, IInv, TypeOK
  <2> QED BY <1>2, <2>1, <2>2, EndRunRows, QueueAssumption DEF Before, Base
<1>3. SettledInv'
  <2> SUFFICES ASSUME NEW v \in Workers, NEW j \in Jobs, jobLock'[j] = v, outcome'[v][j] = "done"
               PROVE  /\ builtIn[j] \in Incidents /\ builtIn[j].trace = TraceOfJob(j)
                      /\ incidentLock'[builtIn[j]] = v
                      /\ written'[v][builtIn[j]].at[trigger[j]] >= required[j]
    BY DEF SettledInv, TraceOfJob
  <2>1. v # w /\ jobLock[j] = v
    BY EndRunLemma, QueueAssumption DEF Before, Base
  <2>2. outcome'[v] = outcome[v] /\ written'[v] = written[v]
    BY <2>1, EndRunRows DEF Before, Base
  <2>3. /\ builtIn[j] \in Incidents /\ builtIn[j].trace = TraceOfJob(j)
        /\ incidentLock[builtIn[j]] = v
        /\ written[v][builtIn[j]].at[trigger[j]] >= required[j]
    BY <2>1, <2>2 DEF Before, Base, TwoRunsInv, SettledInv
  <2>4. incidentLock'[builtIn[j]] = v
    BY <2>1, <2>3, EndRunRows DEF Before, Base
  <2> QED BY <2>2, <2>3, <2>4
<1> QED BY <1>1, <1>2, <1>3

\* A run that is rolled back changes no row.
LEMMA RollbackReflects ==
  ASSUME Before, NEW w \in Workers, Rollback(w) PROVE TwoRunsInv'
<1>1. EndRun(w) /\ UNCHANGED <<status, trigger, incident, required, builtIn>>
  BY DEF Rollback, tables, history
<1>2. /\ \A v \in Workers : Reading(v)' =>
           v # w /\ Reading(v) /\ IncidentFor(v)' = IncidentFor(v)
      /\ \A v \in Workers, i \in Incidents : incidentLock'[i] = v =>
           v # w /\ incidentLock[i] = v /\ written'[v] = written[v]
      /\ SettledInv'
  BY <1>1, EndRunReflects
<1>3. \A v \in Workers \ {w} : snap'[v] = snap[v]
  BY <1>1, EndRunRows DEF Before, Base
<1>4. ReadInv'
  BY <1>1, <1>2, <1>3 DEF Before, Base, TwoRunsInv, ReadInv, NoNewer
<1>5. ASSUME NEW u \in Workers, u # w, Detained(u) PROVE Detained(u)'
  <2>1. pc'[u] = pc[u] /\ batch'[u] = batch[u] /\ orgs'[u] = orgs[u] /\ cand'[u] = cand[u]
    BY <1>1, <1>5, EndRunRows DEF Before, Base
  <2>2. \A h \in Jobs : jobLock[h] # u => jobLock'[h] # u
    BY <1>1, EndRunLemma, QueueAssumption DEF Before, Base
  <2>3. \A h \in Jobs : status[h] = "pending" => status'[h] = "pending"
    BY <1>1
  <2> QED BY <1>5, <2>1, <2>2, <2>3, DetainedByOthers DEF Before, Base
<1>6. OrderInv'
  <2> SUFFICES ASSUME NEW v \in Workers, NEW u \in Workers, Reading(v)',
                      incidentLock'[IncidentFor(v)'] = u
               PROVE  \/ u # v /\ Detained(u)'
                      \/ NoNewer(IncidentFor(v)', written'[u][IncidentFor(v)'].at, snap'[v])
    BY DEF OrderInv, NoNewer
  <2>1. v # w /\ Reading(v) /\ IncidentFor(v)' = IncidentFor(v) /\ snap'[v] = snap[v]
    BY <1>2, <1>3
  <2>2. IncidentFor(v) \in Incidents
    BY <2>1, ReadingHasJob DEF Before
  <2>3. u # w /\ incidentLock[IncidentFor(v)] = u /\ written'[u] = written[u]
    BY <1>2, <2>1, <2>2
  <2>4. \/ u # v /\ Detained(u)
        \/ NoNewer(IncidentFor(v), written[u][IncidentFor(v)].at, snap[v])
    BY <2>1, <2>3 DEF Before, Base, TwoRunsInv, OrderInv
  <2> QED BY <1>5, <2>1, <2>3, <2>4
<1>7. WrittenInv'
  BY <1>1, <1>2 DEF Before, Base, TwoRunsInv, WrittenInv, NoNewer
<1>8. DoneInv'
  BY <1>1 DEF Before, TwoRunsInv, DoneInv, TraceOfJob
<1> QED BY <1>2, <1>4, <1>6, <1>7, <1>8 DEF TwoRunsInv

\* A run commits rows that are later than the committed ones and no later than what another
\* run has read: that other run would have detained it.
LEMMA CommitReflects ==
  ASSUME Before, NEW w \in Workers, Commit(w) PROVE TwoRunsInv'
<1>1. /\ EndRun(w) /\ UNCHANGED <<trigger, required, builtIn>> /\ pc[w] = "commit"
      /\ status' = [j \in Jobs |-> IF jobLock[j] = w THEN outcome[w][j] ELSE status[j]]
      /\ incident' = [i \in Incidents |-> IF incidentLock[i] = w THEN written[w][i] ELSE incident[i]]
  BY DEF Commit
<1>2. /\ \A v \in Workers : Reading(v)' =>
           v # w /\ Reading(v) /\ IncidentFor(v)' = IncidentFor(v)
      /\ \A v \in Workers, i \in Incidents : incidentLock'[i] = v =>
           v # w /\ incidentLock[i] = v /\ written'[v] = written[v]
      /\ SettledInv'
  BY <1>1, EndRunReflects
<1>3. \A v \in Workers \ {w} : snap'[v] = snap[v]
  BY <1>1, EndRunRows DEF Before, Base
<1>4. ~Detained(w)
  BY <1>1 DEF Detained, Before, Base, IInv, BatchInv
<1>5. ReadInv'
  <2> SUFFICES ASSUME NEW v \in Workers, Reading(v)'
               PROVE  NoNewer(IncidentFor(v)', incident'[IncidentFor(v)'].at, snap'[v])
    BY <1>1 DEF ReadInv, NoNewer
  <2>1. /\ v # w /\ Reading(v) /\ IncidentFor(v)' = IncidentFor(v)
        /\ snap'[v] = snap[v]
    BY <1>2, <1>3
  <2>2. IncidentFor(v) \in Incidents
    BY <2>1, ReadingHasJob DEF Before
  <2>3. NoNewer(IncidentFor(v), incident[IncidentFor(v)].at, snap[v])
    BY <2>1 DEF Before, Base, TwoRunsInv, ReadInv
  <2>4. incidentLock[IncidentFor(v)] = w => NoNewer(IncidentFor(v), written[w][IncidentFor(v)].at, snap[v])
    BY <1>4, <2>1 DEF Before, Base, TwoRunsInv, OrderInv
  <2>5. incident'[IncidentFor(v)] =
          IF incidentLock[IncidentFor(v)] = w THEN written[w][IncidentFor(v)] ELSE incident[IncidentFor(v)]
    BY <1>1, <2>2
  <2> QED BY <2>1, <2>3, <2>4, <2>5
<1>6. OrderInv'
  <2> SUFFICES ASSUME NEW v \in Workers, NEW u \in Workers, Reading(v)',
                      incidentLock'[IncidentFor(v)'] = u
               PROVE  NoNewer(IncidentFor(v)', written'[u][IncidentFor(v)'].at, snap'[v])
    BY DEF OrderInv, NoNewer
  <2>1. v # w /\ Reading(v) /\ IncidentFor(v)' = IncidentFor(v) /\ snap'[v] = snap[v]
    BY <1>2, <1>3
  <2>2. IncidentFor(v) \in Incidents
    BY <2>1, ReadingHasJob DEF Before
  <2>3. u # w /\ incidentLock[IncidentFor(v)] = u /\ written'[u] = written[u]
    BY <1>2, <2>1, <2>2
  <2>4. u = v
    BY <2>1, <2>3 DEF Before, Base, AtMostTwoRuns
  <2>5. NoNewer(IncidentFor(v), written[u][IncidentFor(v)].at, snap[v])
    BY <2>1, <2>3, <2>4 DEF Before, Base, TwoRunsInv, OrderInv
  <2> QED BY <2>1, <2>3, <2>5
<1>7. WrittenInv'
  <2> SUFFICES ASSUME NEW v \in Workers, NEW i \in Incidents, incidentLock'[i] = v
               PROVE  NoNewer(i, incident'[i].at, written'[v][i].at)
    BY DEF WrittenInv, NoNewer
  <2>1. v # w /\ incidentLock[i] = v /\ written'[v] = written[v]
    BY <1>2
  <2>2. incident'[i] = incident[i]
    BY <1>1, <2>1
  <2> QED BY <2>1, <2>2 DEF Before, Base, TwoRunsInv, WrittenInv
<1>8. DoneInv'
  <2> SUFFICES ASSUME NEW j \in Jobs, status'[j] = "done"
               PROVE  /\ builtIn[j] \in Incidents /\ builtIn[j].trace = TraceOfJob(j)
                      /\ incident'[builtIn[j]].at[trigger[j]] >= required[j]
    BY <1>1 DEF DoneInv, TraceOfJob
  <2> DEFINE a == trigger[j]
             i == builtIn[j]
  <2>1. status[j] # "none" /\ (jobLock[j] # w => status[j] = "done")
        /\ (jobLock[j] = w => outcome[w][j] = "done")
    BY <1>1 DEF Before, Base, IInv, LockInv
  <2>2. a \in Alerts
    BY <2>1 DEF Before, Base, SeenInv
  <2>3. CASE jobLock[j] = w
    <3>1. /\ i \in Incidents /\ i.trace = TraceOfJob(j) /\ incidentLock[i] = w
          /\ written[w][i].at[a] >= required[j]
      BY <2>1, <2>3 DEF Before, TwoRunsInv, SettledInv
    <3> QED BY <1>1, <3>1
  <2>4. CASE jobLock[j] # w
    <3>1. i \in Incidents /\ i.trace = TraceOfJob(j) /\ incident[i].at[a] >= required[j]
      BY <2>1, <2>4 DEF Before, TwoRunsInv, DoneInv
    <3>2. incidentLock[i] = w => incident[i].at[a] <= written[w][i].at[a]
      BY <2>2, <3>1 DEF Before, TwoRunsInv, WrittenInv, NoNewer, TraceOfJob
    <3>3. /\ incident[i].at[a] \in Nat /\ written[w][i].at[a] \in Nat /\ required[j] \in Nat
      BY <2>2, <3>1 DEF Before, Base, IInv, TypeOK, Rows, Contents
    <3>4. incident'[i] = IF incidentLock[i] = w THEN written[w][i] ELSE incident[i]
      BY <1>1, <3>1
    <3>5. incident'[i].at[a] >= required[j]
      <4>1. CASE incidentLock[i] = w
        <5>1. incident'[i].at[a] = written[w][i].at[a]
          BY <3>4, <4>1
        <5> DEFINE x == written[w][i].at[a]
                   y == incident[i].at[a]
        <5>2. x \in Nat /\ y \in Nat /\ y >= required[j] /\ y <= x
          BY <3>1, <3>2, <3>3, <4>1
        <5>3. x >= required[j]
          <6> HIDE DEF x, y
          <6> QED BY <3>3, <5>2
        <5> QED BY <5>1, <5>3
      <4>2. CASE incidentLock[i] # w
        BY <3>1, <3>4, <4>2
      <4> QED BY <4>1, <4>2
    <3> QED BY <3>1, <3>5
  <2> QED BY <2>3, <2>4
<1> QED BY <1>2, <1>5, <1>6, <1>7, <1>8 DEF TwoRunsInv

\* A run that claims reads and writes no rows.
LEMMA ClaimingReflects ==
  ASSUME Before, NEW w \in Workers,
         Start(w) \/ SelectOrganizations(w) \/ SelectJobs(w) \/ Claim(w) \/ LookupIncident(w)
  PROVE  TwoRunsInv'
<1>1. UNCHANGED <<status, trigger, incident, snap, written, required, incidentLock, builtIn>>
  BY DEF Start, SelectOrganizations, SelectJobs, Claim, LookupIncident, tables, work, locks, history
<1>2. \A v \in Workers \ {w} :
        pc'[v] = pc[v] /\ batch'[v] = batch[v] /\ orgs'[v] = orgs[v] /\ cand'[v] = cand[v]
  BY DEF Start, SelectOrganizations, SelectJobs, Claim, LookupIncident, Goto, claims, work,
         Before, Base, IInv, TypeOK
<1>3. Reading(w)' => Reading(w) /\ batch'[w] = batch[w]
  <2>1. CASE LookupIncident(w)
    BY <2>1 DEF LookupIncident, Reading
  <2>2. CASE Start(w) \/ SelectOrganizations(w)
    BY <2>2 DEF Start, SelectOrganizations, Goto, Reading, Before, Base, IInv, TypeOK
  <2>3. CASE SelectJobs(w) \/ Claim(w)
    BY <2>3 DEF SelectJobs, Claim, Goto, AfterClaim, Reading, Before, Base, IInv, TypeOK
  <2> QED BY <2>1, <2>2, <2>3
<1>4. /\ \A j \in Jobs : jobLock'[j] # jobLock[j] => jobLock'[j] = w
      /\ \A v \in Workers, j \in Jobs :
           jobLock'[j] = v /\ outcome'[v][j] = "done" => jobLock[j] = v /\ outcome[v][j] = "done"
  <2>1. CASE Claim(w)
    <3>1. PICK n \in Jobs :
            /\ jobLock' = [jobLock EXCEPT ![n] = IF status[n] = "pending" THEN w ELSE @]
            /\ outcome' = [outcome EXCEPT ![w][n] = IF status[n] = "pending" THEN "claimed" ELSE @]
      BY <2>1 DEF Claim, FirstCandidate, Before, Base, IInv, TypeOK
    <3>2. jobLock \in [Jobs -> Workers \cup {None}] /\ outcome \in [Workers -> [Jobs -> Statuses]]
      BY DEF Before, Base, IInv, TypeOK
    <3>3. \A j \in Jobs : jobLock'[j] # jobLock[j] => jobLock'[j] = w
      BY <3>1, <3>2
    <3>4. ASSUME NEW v \in Workers, NEW j \in Jobs, jobLock'[j] = v, outcome'[v][j] = "done"
          PROVE  jobLock[j] = v /\ outcome[v][j] = "done"
      <4>1. CASE j = n /\ status[n] = "pending"
        BY <3>1, <3>2, <3>4, <4>1
      <4>2. CASE ~(j = n /\ status[n] = "pending")
        BY <3>1, <3>2, <3>4, <4>2
      <4> QED BY <4>1, <4>2
    <3> QED BY <3>3, <3>4
  <2>2. CASE ~Claim(w)
    <3>1. jobLock' = jobLock /\ outcome' = outcome
      BY <2>2 DEF Start, SelectOrganizations, SelectJobs, LookupIncident, work, locks
    <3> QED BY <3>1
  <2> QED BY <2>1, <2>2
<1>5. Detained(w) /\ Pending(w) # {} => Detained(w)'
  <2> SUFFICES ASSUME Detained(w), Pending(w) # {} PROVE Detained(w)'
    OBVIOUS
  <2>1. CASE Start(w)
    BY <2>1 DEF Start, Goto, Detained, Before, Base, IInv, TypeOK
  <2>2. CASE LookupIncident(w)
    <3>1. batch' = batch /\ batch[w] # <<>>
      BY <2>2 DEF LookupIncident, Before, Base, IInv, BatchInv
    <3> QED BY <3>1 DEF Detained
  <2>3. CASE SelectOrganizations(w)
    BY <2>3, DetainedBySelection DEF Before, Base
  <2>4. CASE SelectJobs(w)
    BY <2>4, DetainedByCandidates DEF Before, Base
  <2>5. CASE Claim(w)
    BY <2>5, DetainedByClaim DEF Before, Base
  <2> QED BY <2>1, <2>2, <2>3, <2>4, <2>5
<1> QED BY <1>1, <1>2, <1>3, <1>4, <1>5, QuietReflects

\* Every step keeps the invariant.
LEMMA StepReflects == ReflectInv /\ [Next]_vars => ReflectInv'
<1> SUFFICES ASSUME ReflectInv, [Next]_vars PROVE ReflectInv'
  OBVIOUS
<1>1. Base' /\ ShareInv'
  BY StepBase DEF ReflectInv
<1>2. ASSUME AtMostTwoRuns PROVE TwoRunsInv'
  <2>1. Before
    BY <1>2 DEF ReflectInv, Before
  <2>2. CASE \E a \in Alerts, j \in Jobs : Ingest(a, j)
    BY <2>1, <2>2, IngestReflects
  <2>3. ASSUME NEW w \in Workers, Progress(w) \/ Crash(w) PROVE TwoRunsInv'
    <3>1. CASE Start(w) \/ SelectOrganizations(w) \/ SelectJobs(w) \/ Claim(w) \/ LookupIncident(w)
      BY <2>1, <3>1, ClaimingReflects
    <3>2. CASE ReadAlerts(w)
      BY <2>1, <3>2, ReadReflects
    <3>3. CASE FlushIncident(w)
      BY <2>1, <3>3, FlushReflects
    <3>4. CASE JobError(w)
      BY <2>1, <3>4, ErrorReflects
    <3>5. CASE Commit(w)
      BY <2>1, <3>5, CommitReflects
    <3>6. CASE FlushConflict(w) \/ DeadlockVictim(w) \/ Crash(w)
      <4>1. Rollback(w)
        BY <3>6 DEF FlushConflict, DeadlockVictim, Crash
      <4> QED BY <2>1, <4>1, RollbackReflects
    <3> QED BY <2>3, <3>1, <3>2, <3>3, <3>4, <3>5, <3>6 DEF Progress
  <2>4. CASE UNCHANGED vars
    <3>1. UNCHANGED <<version, status, trigger, incident, pc, orgs, cand, batch, outcome, snap,
                      written, jobLock, incidentLock, required, builtIn>>
      BY <2>4 DEF vars, tables, claims, work, locks, history
    <3>2. ASSUME NEW v \in Workers
          PROVE  /\ IncidentFor(v)' = IncidentFor(v)
                 /\ (Reading(v)' <=> Reading(v)) /\ (Detained(v)' <=> Detained(v))
      <4>1. Job(v)' = Job(v)
        BY <3>1 DEF Job
      <4>2. IncidentFor(v)' = IncidentFor(v)
        BY <3>1, <4>1, IncidentKept
      <4> QED BY <3>1, <4>2 DEF Reading, Detained
    <3>3. ReadInv' /\ WrittenInv' /\ SettledInv' /\ DoneInv'
      BY <2>1, <3>1, <3>2
      DEF Before, TwoRunsInv, ReadInv, WrittenInv, SettledInv, DoneInv, TraceOfJob, NoNewer
    <3>4. OrderInv'
      BY <2>1, <3>1, <3>2 DEF Before, TwoRunsInv, OrderInv, NoNewer
    <3> QED BY <3>3, <3>4 DEF TwoRunsInv
  <2> QED BY <2>2, <2>3, <2>4 DEF Next
<1>3. AtMostTwoRuns' <=> AtMostTwoRuns
  BY DEF AtMostTwoRuns
<1> QED BY <1>1, <1>2, <1>3 DEF ReflectInv

\* Before anything was ingested nothing is read or written.
LEMMA InitReflects == Init => ReflectInv
<1> SUFFICES ASSUME Init PROVE ReflectInv
  OBVIOUS
<1>1. Base
  BY InitBase
<1>2. ShareInv
  BY DEF Init, ShareInv
<1>3. ReadInv /\ OrderInv
  BY DEF Init, ReadInv, OrderInv, Reading
<1>4. SettledInv /\ DoneInv
  BY DEF Init, SettledInv, DoneInv, NoOutcome
<1>5. WrittenInv
  <2> SUFFICES ASSUME NEW w \in Workers, NEW i \in Incidents, incidentLock[i] = w PROVE FALSE
    BY DEF WrittenInv
  <2> QED BY QueueAssumption DEF Init
<1> QED BY <1>1, <1>2, <1>3, <1>4, <1>5 DEF ReflectInv, TwoRunsInv

\* What a row shows of an alert is shown by the incident if the window of its builder reaches it.
LEMMA ShownIfReached == ReflectInv => DoneIsReflected
<1> SUFFICES ASSUME ReflectInv, AtMostTwoRuns, NEW j \in Jobs, status[j] = "done",
                    NEW row, row = incident[builtIn[j]]
             PROVE  /\ row # NoRow
                    /\ InWindow(row.by, trigger[j], required[j]) =>
                         trigger[j] \in Related(row.by, row.at) /\ row.at[trigger[j]] >= required[j]
  BY DEF DoneIsReflected
<1>1. Base /\ DoneInv
  BY DEF ReflectInv, TwoRunsInv
<1> DEFINE i == builtIn[j]
           t == trigger[j]
<1>2. i \in Incidents /\ i.trace = TraceOfJob(j) /\ row.at[t] >= required[j]
  BY <1>1 DEF DoneInv
<1>3. t \in Alerts /\ required[j] \in Nat /\ 1 <= required[j]
  BY <1>1 DEF Base, SeenInv, IInv, TypeOK
<1>4. row.at[t] \in Nat /\ row.at[t] <= version[t] /\ version[t] \in Nat /\ version[t] <= Len(Spans[t])
  BY <1>1, <1>2, <1>3 DEF Base, SeenInv, IInv, TypeOK, Rows, Contents
<1>5. row.at[t] # 0
  BY <1>2, <1>3, <1>4
<1>6. row # NoRow
  BY <1>3, <1>5 DEF NoRow, NoAlerts
<1>7. Built(i, row)
  BY <1>1, <1>2, <1>6 DEF Base, RowInv
<1>8. Len(Spans[t]) \in Nat
  <2>1. Spans[t] \in Seq([first : Nat, last : Nat])
    BY <1>3, SpanAssumption
  <2> QED BY <2>1
<1>9. ASSUME InWindow(row.by, t, required[j]) PROVE t \in Related(row.by, row.at)
  <2> DEFINE k == row.by
  <2>1. k \in Jobs /\ status[k] # "none" /\ TraceOfJob(k) = TraceOf[t]
    BY <1>2, <1>7 DEF Built, TraceOfJob
  <2>2. trigger[k] \in Alerts /\ required[k] \in 1..Len(Spans[trigger[k]])
    <3>1. /\ trigger[k] \in Alerts /\ 1 <= required[k] /\ required[k] <= version[trigger[k]]
          /\ required[k] \in Nat
      BY <1>1, <2>1 DEF Base, SeenInv, IInv, TypeOK
    <3>2. version[trigger[k]] \in Nat /\ version[trigger[k]] <= Len(Spans[trigger[k]])
      BY <1>1, <3>1 DEF Base, SeenInv, IInv, TypeOK, Contents
    <3>3. Spans[trigger[k]] \in Seq([first : Nat, last : Nat])
      BY <3>1, SpanAssumption
    <3>4. Len(Spans[trigger[k]]) \in Nat
      BY <3>3
    <3> QED BY <3>1, <3>2, <3>4
  <2>3. required[j] \in 1..Len(Spans[t]) /\ row.at[t] \in 1..Len(Spans[t]) /\ required[j] <= row.at[t]
    BY <1>2, <1>3, <1>4, <1>8
  <2>4. InWindow(k, t, row.at[t])
    <3> DEFINE n == row.at[t]
    <3> HIDE DEF k, n, t, i
    <3> QED BY <1>3, <1>9, <2>1, <2>2, <2>3, WindowReaches DEF k, n, t
  <2> QED BY <1>3, <1>5, <2>1, <2>4 DEF Related
<1> QED BY <1>2, <1>6, <1>9

\* upsert_incidents_for_organization: while no more than two runs overlap, whatever their
\* batches and crashes, the alert of a job that is done stays in the incident the job was written
\* to, unless a job took its place whose window does not reach the alert.
THEOREM DoneJobsAreReflected == Spec => []DoneIsReflected
BY InitReflects, StepReflects, ShownIfReached, PTL DEF Spec

-----------------------------------------------------------------------------
(* Which alerts the incidents list (module Incidents, where a job is one   *)
(* step): an alert, or another of its trace within a window.               *)

\* What is stored of the alerts.
AlertInv ==
  /\ incidentClock \in Nat /\ IsFiniteSet(DOMAIN alertRows)
  /\ \A i \in DOMAIN alertRows :
       /\ alertRows[i].first \in Nat /\ alertRows[i].last \in Nat
       /\ alertRows[i].first <= alertRows[i].last /\ alertRows[i].last <= incidentClock

\* A job was made for an alert, which may have widened since.
IsFor(j, a) ==
  /\ a \in DOMAIN alertRows /\ j.trace = a.trace
  /\ j.start = alertRows[a].first - CorrelationWindow
  /\ j.end \in Int /\ alertRows[a].first + CorrelationWindow <= j.end
  /\ j.end <= alertRows[a].last + CorrelationWindow

JobInv == \A j \in reconstructions : \E a \in DOMAIN alertRows : IsFor(j, a)

\* When the time bucket of an incident begins.
Opening(n) == n.bucket * CorrelationWindow

\* An incident lists an alert of its bucket whose activity reaches the window of another one.
Reaches(n, y, a) ==
  /\ y \in DOMAIN alertRows /\ y.trace = a.trace
  /\ alertRows[y].first < Opening(n) + CorrelationWindow
  /\ alertRows[y].last >= alertRows[a].first - CorrelationWindow
Stands(n, a) ==
  /\ n.traces = {a.trace} /\ Opening(n) \in Int /\ Opening(n) <= alertRows[a].first
  /\ \E y \in incidentRows[n].alerts : Reaches(n, y, a)

\* The inductive invariant behind TouchIsNear: a job for an alert is pending, or an incident
\* of no later bucket than its own stands for it.
Due(a) == \E j \in reconstructions : IsFor(j, a)
StoodFor(a) == \E n \in DOMAIN incidentRows : Stands(n, a)
NearInv ==
  /\ AlertInv /\ JobInv
  /\ \A a \in DOMAIN alertRows : Due(a) \/ StoodFor(a)

\* A set of numbers has a least one.
LEMMA LeastNumber ==
  ASSUME NEW S, S \subseteq Nat, S # {} PROVE Min(S) \in S /\ \A i \in S : Min(S) <= i
  <1>1. PICK m \in S : \A k \in S : ~(<<k, m>> \in OpToRel(<, Nat))
    BY NatLessThanWellFounded, WFMin
  <1>2. \A k \in S : ~(k < m)
    BY <1>1 DEF OpToRel
  <1>3. \A k \in S : m <= k
    BY <1>2
  <1>4. QED
    BY <1>1, <1>3 DEF Min

\* A time is in its bucket.
LEMMA BucketBounds ==
  ASSUME NEW t \in Nat, NEW w \in Nat \ {0}
  PROVE  /\ (t \div w) * w \in Int
         /\ (t \div w) * w <= t /\ t < (t \div w) * w + w
  OBVIOUS

\* Of some alerts one is the latest, one has been seen first and one has been seen last.
LEMMA SeenFacts ==
  ASSUME AlertInv, NEW S, S \subseteq DOMAIN alertRows, S # {}
  PROVE  /\ LatestAlert(S) \in S /\ \A k \in S : alertRows[k].first <= alertRows[LatestAlert(S)].first
         /\ \E y \in S : alertRows[y].first = FirstSeen(S)
         /\ \A k \in S : FirstSeen(S) <= alertRows[k].first
         /\ \E y \in S : alertRows[y].last = LastSeen(S)
         /\ \A k \in S : alertRows[k].last <= LastSeen(S)
  <1>1. /\ incidentClock \in Nat
        /\ \A i \in S : /\ alertRows[i].first \in Nat /\ alertRows[i].last \in Nat
                        /\ alertRows[i].first <= incidentClock /\ alertRows[i].last <= incidentClock
    BY DEF AlertInv
  <1>2. \E y \in S : \A k \in S : alertRows[k].first <= alertRows[y].first
    <2> DEFINE T == {incidentClock - alertRows[i].first : i \in S}
    <2>1. T \subseteq Nat /\ T # {}
      BY <1>1
    <2>2. Min(T) \in T /\ \A i \in T : Min(T) <= i
      BY <2>1, LeastNumber
    <2>3. PICK y \in S : Min(T) = incidentClock - alertRows[y].first
      BY <2>2
    <2>4. \A k \in S : incidentClock - alertRows[y].first <= incidentClock - alertRows[k].first
      BY <2>2, <2>3
    <2>5. \A k \in S : alertRows[k].first <= alertRows[y].first
      BY <2>4, <1>1
    <2>6. QED
      BY <2>5
  <1>3. \E y \in S : \A k \in S : alertRows[k].last <= alertRows[y].last
    <2> DEFINE T == {incidentClock - alertRows[i].last : i \in S}
    <2>1. T \subseteq Nat /\ T # {}
      BY <1>1
    <2>2. Min(T) \in T /\ \A i \in T : Min(T) <= i
      BY <2>1, LeastNumber
    <2>3. PICK y \in S : Min(T) = incidentClock - alertRows[y].last
      BY <2>2
    <2>4. \A k \in S : incidentClock - alertRows[y].last <= incidentClock - alertRows[k].last
      BY <2>2, <2>3
    <2>5. \A k \in S : alertRows[k].last <= alertRows[y].last
      BY <2>4, <1>1
    <2>6. QED
      BY <2>5
  <1>4. LatestAlert(S) \in S /\ \A k \in S : alertRows[k].first <= alertRows[LatestAlert(S)].first
    BY <1>2 DEF LatestAlert
  <1>5. (\E y \in S : alertRows[y].first = FirstSeen(S)) /\ \A k \in S : FirstSeen(S) <= alertRows[k].first
    <2> DEFINE T == {alertRows[i].first : i \in S}
    <2>1. T \subseteq Nat /\ T # {}
      BY <1>1
    <2>2. Min(T) \in T /\ \A i \in T : Min(T) <= i
      BY <2>1, LeastNumber
    <2>3. QED
      BY <2>2 DEF FirstSeen
  <1>6. (\E y \in S : alertRows[y].last = LastSeen(S)) /\ \A k \in S : alertRows[k].last <= LastSeen(S)
    <2> DEFINE T == {alertRows[i].last : i \in S}
    <2>1. \E x \in T : \A y \in T : x >= y
      BY <1>3, <1>1
    <2>2. Max(T) \in T /\ \A y \in T : Max(T) >= y
      BY <2>1 DEF Max
    <2>3. LastSeen(S) = Max(T)
      BY DEF LastSeen
    <2>4. PICK y \in S : alertRows[y].last = LastSeen(S)
      BY <2>2, <2>3
    <2>5. \A k \in S : LastSeen(S) >= alertRows[k].last
      BY <2>2, <2>3
    <2>6. QED
      BY <2>4, <2>5, <1>1
  <1>7. QED
    BY <1>4, <1>5, <1>6

\* Induction up to a bound.
LEMMA UpTo ==
  ASSUME NEW n \in Nat, NEW S, 0 \in S, \A k \in Nat : k \in S /\ k < n => k + 1 \in S
  PROVE  n \in S
  <1> DEFINE T == (0 .. n) \ S
  <1> SUFFICES ASSUME T # {} PROVE FALSE
    OBVIOUS
  <1>1. PICK m \in T : \A k \in T : ~(<<k, m>> \in OpToRel(<, Nat))
    <2>1. T \subseteq Nat /\ T # {}
      OBVIOUS
    <2> HIDE DEF T
    <2>2. QED
      BY <2>1, NatLessThanWellFounded, WFMin
  <1>2. \A k \in T : ~(k < m)
    <2>1. T \subseteq Nat
      OBVIOUS
    <2> HIDE DEF T
    <2>2. QED
      BY <1>1, <2>1 DEF OpToRel
  <1>3. m # 0 /\ m - 1 \in Nat /\ m - 1 < n /\ m - 1 < m /\ m - 1 + 1 = m
    OBVIOUS
  <1>4. m - 1 \in S
    <2>1. m - 1 \in 0 .. n
      BY <1>3
    <2>2. m - 1 \in T => FALSE
      BY <1>2, <1>3
    <2>3. QED
      BY <2>1, <2>2
  <1>5. QED
    BY <1>3, <1>4

\* The groups of a set of alerts, from those of a smaller one.
Joined(f, S) == IF S = {} THEN << >> ELSE Join(f[S \ {LatestAlert(S)}], LatestAlert(S))

\* The recursion of Groups has a solution.
LEMMA JoinedExists ==
  ASSUME AlertInv, NEW ids, ids \subseteq DOMAIN alertRows
  PROVE  \E f : f = [S \in SUBSET ids |-> Joined(f, S)]
  <1>1. IsFiniteSet(ids) /\ Cardinality(ids) \in Nat
    <2>1. IsFiniteSet(ids)
      BY FS_Subset DEF AlertInv
    <2>2. QED
      BY <2>1, FS_CardinalityType
  <1>2. \A S \in SUBSET ids : IsFiniteSet(S) /\ Cardinality(S) \in Nat /\ Cardinality(S) <= Cardinality(ids)
    BY <1>1, FS_Subset, FS_CardinalityType
  <1>3. \A S \in SUBSET ids : S # {} => LatestAlert(S) \in S
    BY SeenFacts
  <1>4. \A S \in SUBSET ids : S # {} =>
          S \ {LatestAlert(S)} \in SUBSET ids /\ Cardinality(S \ {LatestAlert(S)}) = Cardinality(S) - 1
    BY <1>2, <1>3, FS_RemoveElement
  <1> DEFINE D(n) == {S \in SUBSET ids : Cardinality(S) <= n}
             Good(n, f) == f = [S \in D(n) |-> Joined(f, S)]
             N == {n \in Nat : \E f : Good(n, f)}
  <1>5. 0 \in N
    <2>1. \A S \in D(0) : S = {}
      BY <1>2, FS_EmptySet
    <2> DEFINE f == [S \in D(0) |-> << >>]
    <2>2. \A S \in D(0) : f[S] = Joined(f, S)
      BY <2>1 DEF Joined
    <2>3. PICK h : h = f
      OBVIOUS
    <2>4. h = [S \in D(0) |-> h[S]] /\ \A S \in D(0) : h[S] = Joined(h, S)
      BY <2>2, <2>3
    <2> HIDE DEF D, f
    <2>5. h = [S \in D(0) |-> Joined(h, S)]
      BY ONLY <2>4
    <2>6. QED
      BY <2>5
  <1>6. ASSUME NEW k \in Nat, k \in N PROVE k + 1 \in N
    <2>1. PICK f : Good(k, f)
      BY <1>6
    <2> DEFINE g == [S \in D(k + 1) |-> IF S \in D(k) THEN f[S] ELSE Joined(f, S)]
    <2>2. \A S \in D(k) : g[S] = f[S] /\ S \in D(k + 1)
      BY <1>2
    <2>3. \A S \in D(k + 1) : S # {} => S \ {LatestAlert(S)} \in D(k)
      BY <1>2, <1>4
    <2> HIDE DEF D
    <2>4. \A S \in D(k + 1) : Joined(g, S) = Joined(f, S)
      BY <2>2, <2>3 DEF Joined
    <2>5. \A S \in D(k) : f[S] = Joined(f, S)
      BY <2>1
    <2>6. \A S \in D(k + 1) : g[S] = Joined(g, S)
      BY <2>4, <2>5
    <2>7. PICK h : h = g
      OBVIOUS
    <2>8. h = [S \in D(k + 1) |-> h[S]] /\ \A S \in D(k + 1) : h[S] = Joined(h, S)
      BY <2>6, <2>7
    <2> HIDE DEF g
    <2>9. h = [S \in D(k + 1) |-> Joined(h, S)]
      BY ONLY <2>8
    <2>10. QED
      BY <2>9
  <1>7. D(Cardinality(ids)) = SUBSET ids
    BY <1>2
  <1> HIDE DEF N
  <1>8. Cardinality(ids) \in N
    BY <1>1, <1>5, <1>6, UpTo
  <1>9. QED
    BY <1>7, <1>8 DEF N

\* The alerts that a job loads are one group: each is of its trace and at most a window
\* from the alert that the job was made for.
LEMMA OneGroup ==
  ASSUME IncidentsAssumption, AlertInv, NEW j, NEW z, IsFor(j, z)
  PROVE  z \in RelatedAlerts(j) /\ Groups(RelatedAlerts(j)) = {RelatedAlerts(j)}
  <1> DEFINE R == RelatedAlerts(j)
             f == CHOOSE h : h = [S \in SUBSET R |-> Joined(h, S)]
  <1>1. /\ R \subseteq DOMAIN alertRows /\ z \in DOMAIN alertRows
        /\ \A i \in R : i.trace = z.trace
    BY DEF RelatedAlerts, IsFor
  <1>2. /\ CorrelationWindow \in Nat
        /\ \A i \in DOMAIN alertRows : alertRows[i].first \in Nat /\ alertRows[i].last \in Nat
        /\ alertRows[z].first <= alertRows[z].last
    BY <1>1 DEF IncidentsAssumption, AlertInv
  <1>3. \A i \in R : /\ alertRows[i].last >= alertRows[z].first - CorrelationWindow
                     /\ alertRows[i].first <= alertRows[z].last + CorrelationWindow
    <2>1. \A i \in R : alertRows[i].last >= j.start /\ alertRows[i].first <= j.end
      BY DEF RelatedAlerts
    <2>2. j.start = alertRows[z].first - CorrelationWindow /\ j.end \in Int
          /\ j.end <= alertRows[z].last + CorrelationWindow
      BY DEF IsFor
    <2>3. QED
      BY <2>1, <2>2, <1>1, <1>2
  <1>4. z \in R
    <2>1. alertRows[z].last >= alertRows[z].first - CorrelationWindow
      BY <1>1, <1>2
    <2>2. alertRows[z].first <= alertRows[z].first + CorrelationWindow
      BY <1>1, <1>2
    <2>3. alertRows[z].first <= j.end
      BY <2>2, <1>1, <1>2 DEF IsFor
    <2>4. QED
      BY <2>1, <2>3 DEF RelatedAlerts, IsFor
  <1>5. f = [S \in SUBSET R |-> Joined(f, S)]
    BY <1>1, JoinedExists
  <1>6. Groups(R) = Range(f[R])
    BY DEF Groups, Joined
  <1> HIDE DEF R, f
  <1>7. \A S \in SUBSET R : f[S] = Joined(f, S)
    BY <1>5
  <1> DEFINE Early(S) == \A x \in R, y \in S : alertRows[x].first < alertRows[y].first => x \in S
             Bad == {S \in SUBSET R : S # {} /\ Early(S) /\ f[S] # <<S>>}
  <1>8. ASSUME NEW S \in SUBSET R, S # {}, Early(S), S \ {LatestAlert(S)} # {}
        PROVE  RelatedTo(LatestAlert(S), S \ {LatestAlert(S)})
    <2> DEFINE id == LatestAlert(S)
               G == S \ {id}
    <2>1. id \in S /\ id \in R
      BY <1>1, <1>8, SeenFacts
    <2>2. G \subseteq DOMAIN alertRows /\ G # {} /\ G \subseteq R
      BY <1>1, <1>8
    <2>3. PICK y \in G : alertRows[y].last = LastSeen(G)
      BY <2>2, SeenFacts
    <2>4. \A k \in G : alertRows[k].last <= LastSeen(G)
      BY <2>2, SeenFacts
    <2> HIDE DEF id, G
    <2>5. LastSeen(G) \in Nat /\ alertRows[id].first \in Nat /\ alertRows[z].first \in Nat /\ alertRows[z].last \in Nat
      BY <2>1, <2>2, <2>3, <1>1, <1>2
    <2>6. alertRows[id].first - LastSeen(G) <= CorrelationWindow
      <3>1. CASE z \in G
        <4>1. alertRows[z].last <= LastSeen(G) /\ alertRows[id].first <= alertRows[z].last + CorrelationWindow
          BY <3>1, <2>4, <2>1, <1>3
        <4>2. QED
          BY <4>1, <2>5, <1>2
      <3>2. CASE z \notin G
        <4>1. ~(alertRows[z].first < alertRows[id].first)
          BY <3>2, <2>1, <1>4, <1>8, <2>5 DEF G
        <4>2. LastSeen(G) >= alertRows[z].first - CorrelationWindow
          BY <2>2, <2>3, <1>3
        <4>3. QED
          BY <4>1, <4>2, <2>5, <1>2
      <3>3. QED
        BY <3>1, <3>2
    <2>7. \E i \in G : i.trace = id.trace
      BY <2>1, <2>2, <1>1
    <2>8. QED
      BY <2>6, <2>7 DEF RelatedTo, id, G
  <1>9. ASSUME NEW S \in SUBSET R, S # {}, Early(S),
               S \ {LatestAlert(S)} = {} \/ f[S \ {LatestAlert(S)}] = <<S \ {LatestAlert(S)}>>
        PROVE  f[S] = <<S>>
    <2>1. LatestAlert(S) \in S
      BY <1>1, <1>9, SeenFacts
    <2>2. f[S] = Join(f[S \ {LatestAlert(S)}], LatestAlert(S))
      BY <1>7, <1>9 DEF Joined
    <2>3. CASE S \ {LatestAlert(S)} = {}
      <3>1. f[{}] = << >>
        BY <1>7 DEF Joined
      <3>2. f[S] = Join(<< >>, LatestAlert(S))
        BY <2>2, <2>3, <3>1
      <3>3. Join(<< >>, LatestAlert(S)) = << {LatestAlert(S)} >>
        BY DEF Join
      <3>4. S = {LatestAlert(S)}
        BY <2>1, <2>3
      <3>5. QED
        BY <3>2, <3>3, <3>4
    <2>4. CASE S \ {LatestAlert(S)} # {}
      <3> DEFINE id == LatestAlert(S)
                 G == S \ {id}
      <3>1. RelatedTo(id, G)
        BY <1>8, <1>9, <2>4
      <3>2. f[S] = Join(<<G>>, id)
        BY <2>2, <2>4, <1>9
      <3>3. G \cup {id} = S
        BY <2>1
      <3> HIDE DEF id, G
      <3>4. {n \in DOMAIN <<G>> : RelatedTo(id, <<G>>[n])} = {1}
        BY <3>1
      <3>5. Min({1}) = 1
        BY DEF Min
      <3>6. Join(<<G>>, id) = [<<G>> EXCEPT ![1] = @ \cup {id}]
        BY <3>4, <3>5 DEF Join
      <3>7. [<<G>> EXCEPT ![1] = @ \cup {id}] = << G \cup {id} >>
        OBVIOUS
      <3>8. QED
        BY <3>2, <3>3, <3>6, <3>7
    <2>5. QED
      BY <2>3, <2>4
  <1>10. Bad = {}
    <2> SUFFICES ASSUME Bad # {} PROVE FALSE
      OBVIOUS
    <2>1. IsFiniteSet(R)
      BY <1>1, FS_Subset DEF AlertInv
    <2>2. PICK S \in Bad : \A T \in Bad : ~(<<T, S>> \in StrictSubsetOrdering(R))
      <3>1. IsWellFoundedOn(StrictSubsetOrdering(R), SUBSET R)
        BY <2>1, FS_StrictSubsetOrderingWellFounded, FS_FiniteSubsetsOfFinite
      <3>2. Bad \subseteq SUBSET R /\ Bad # {}
        OBVIOUS
      <3> HIDE DEF Bad
      <3>3. QED
        BY <3>1, <3>2, WFMin
    <2>3. S \in SUBSET R /\ S # {} /\ Early(S) /\ f[S] # <<S>>
      OBVIOUS
    <2> DEFINE G == S \ {LatestAlert(S)}
    <2>4. LatestAlert(S) \in S /\ \A k \in S : alertRows[k].first <= alertRows[LatestAlert(S)].first
      BY <1>1, <2>3, SeenFacts
    <2>5. <<G, S>> \in StrictSubsetOrdering(R)
      BY <2>3, <2>4 DEF StrictSubsetOrdering
    <2>6. G \notin Bad
      BY <2>2, <2>5
    <2>7. Early(G)
      <3> SUFFICES ASSUME NEW x \in R, NEW y \in G, alertRows[x].first < alertRows[y].first PROVE x \in G
        OBVIOUS
      <3>1. x \in S
        BY <2>3
      <3>2. x # LatestAlert(S)
        <4>1. alertRows[y].first <= alertRows[LatestAlert(S)].first
          BY <2>4
        <4>2. alertRows[x].first \in Nat /\ alertRows[y].first \in Nat /\ alertRows[LatestAlert(S)].first \in Nat
          BY <2>3, <2>4, <1>1, <1>2
        <4>3. QED
          BY <4>1, <4>2
      <3>3. QED
        BY <3>1, <3>2
    <2>8. G = {} \/ f[G] = <<G>>
      BY <2>3, <2>6, <2>7
    <2>9. QED
      BY <1>9, <2>3, <2>8
  <1>11. f[R] = <<R>>
    <2>1. R \in SUBSET R /\ R # {} /\ Early(R)
      BY <1>4
    <2>2. QED
      BY <1>10, <2>1
  <1>12. Range(<<R>>) = {R}
    BY DEF Range
  <1>13. QED
    BY <1>4, <1>6, <1>11, <1>12 DEF R

\* What is computed for a job: one incident, whose bucket holds the first of its alerts.
LEMMA WhatIsBuilt ==
  ASSUME IncidentsAssumption, AlertInv, NEW j, NEW z, IsFor(j, z), ProcessReconstruction(j)
  PROVE  LET R == RelatedAlerts(j)
             n == IncidentId(R)
         IN /\ n.traces = {z.trace} /\ Opening(n) \in Int
            /\ Opening(n) <= FirstSeen(R) /\ FirstSeen(R) < Opening(n) + CorrelationWindow
            /\ DOMAIN incidentRows' = DOMAIN incidentRows \cup {n}
            /\ incidentRows'[n].alerts = R
            /\ \A m \in DOMAIN incidentRows : m # n => incidentRows'[m] = incidentRows[m]
  <1> DEFINE R == RelatedAlerts(j)
             n == IncidentId(R)
  <1>1. z \in R /\ Groups(R) = {R}
    BY OneGroup
  <1>2. n.traces = {z.trace}
    <2>1. \A i \in R : i.trace = z.trace
      BY DEF RelatedAlerts, IsFor
    <2>2. {i.trace : i \in R} = {z.trace}
      BY <1>1, <2>1
    <2>3. QED
      BY <2>2 DEF IncidentId
  <1>3. n.bucket = FirstSeen(R) \div CorrelationWindow
    BY DEF IncidentId
  <1>4. FirstSeen(R) \in Nat
    <2>1. R \subseteq DOMAIN alertRows
      BY DEF RelatedAlerts
    <2>2. PICK y \in R : alertRows[y].first = FirstSeen(R)
      BY <1>1, <2>1, SeenFacts
    <2>3. QED
      BY <2>1, <2>2 DEF AlertInv
  <1> HIDE DEF R, n
  <1>5. Opening(n) \in Int /\ Opening(n) <= FirstSeen(R) /\ FirstSeen(R) < Opening(n) + CorrelationWindow
    BY <1>3, <1>4, BucketBounds DEF Opening, IncidentsAssumption
  <1>6. {IncidentId(g) : g \in Groups(R)} = {n} /\ (CHOOSE g \in Groups(R) : IncidentId(g) = n) = R
    BY <1>1 DEF n
  <1>7. incidentRows' = [m \in DOMAIN incidentRows \cup {n} |-> IF m \in {n} THEN Build(R) ELSE incidentRows[m]]
    BY <1>6 DEF ProcessReconstruction, R
  <1>8. Build(R).alerts = R
    BY DEF Build
  <1>9. QED
    BY <1>2, <1>5, <1>7, <1>8 DEF R, n

\* It holds at the start.
LEMMA NearInit == IncidentInit => NearInv
  <1> SUFFICES ASSUME IncidentInit PROVE NearInv
    OBVIOUS
  <1>1. DOMAIN alertRows = {} /\ reconstructions = {} /\ incidentClock = 0
    BY DEF IncidentInit
  <1>2. QED
    BY <1>1, FS_EmptySet DEF NearInv, AlertInv, JobInv

\* An alert's row only widens, at its end.
Widen ==
  \A a \in DOMAIN alertRows :
    /\ a \in DOMAIN alertRows' /\ alertRows'[a].first = alertRows[a].first
    /\ alertRows[a].last <= alertRows'[a].last

\* What a job was made for, and what stands for an alert, stays so when rows widen.
LEMMA WideningKeeps ==
  ASSUME IncidentsAssumption, AlertInv, AlertInv', Widen
  PROVE  /\ \A j, a : IsFor(j, a) => IsFor(j, a)'
         /\ incidentRows' = incidentRows => \A a \in DOMAIN alertRows : StoodFor(a) => StoodFor(a)'
  <1>1. CorrelationWindow \in Nat
    BY DEF IncidentsAssumption
  <1>2. \A a \in DOMAIN alertRows :
          /\ alertRows[a].first \in Nat /\ alertRows[a].last \in Nat /\ alertRows'[a].last \in Nat
          /\ a \in DOMAIN alertRows' /\ alertRows'[a].first = alertRows[a].first
          /\ alertRows[a].last <= alertRows'[a].last
    BY DEF AlertInv, Widen
  <1>3. ASSUME NEW j, NEW a, IsFor(j, a) PROVE IsFor(j, a)'
    <2>1. a \in DOMAIN alertRows /\ j.end \in Int /\ j.end <= alertRows[a].last + CorrelationWindow
      BY <1>3 DEF IsFor
    <2>2. j.end <= alertRows'[a].last + CorrelationWindow
      BY <1>1, <1>2, <2>1
    <2>3. QED
      BY <1>2, <1>3, <2>1, <2>2 DEF IsFor
  <1>4. ASSUME NEW n, NEW y, NEW a \in DOMAIN alertRows, Reaches(n, y, a) PROVE Reaches(n, y, a)'
    <2>1. y \in DOMAIN alertRows /\ alertRows[y].last >= alertRows[a].first - CorrelationWindow
      BY <1>4 DEF Reaches
    <2>2. alertRows'[y].last >= alertRows'[a].first - CorrelationWindow
      BY <1>1, <1>2, <2>1
    <2>3. QED
      BY <1>2, <1>4, <2>1, <2>2 DEF Reaches, Opening
  <1>5. ASSUME incidentRows' = incidentRows, NEW a \in DOMAIN alertRows, StoodFor(a) PROVE StoodFor(a)'
    <2>1. PICK n \in DOMAIN incidentRows : Stands(n, a)
      BY <1>5 DEF StoodFor
    <2>2. PICK y \in incidentRows[n].alerts : Reaches(n, y, a)
      BY <2>1 DEF Stands
    <2>3. Reaches(n, y, a)' /\ y \in incidentRows'[n].alerts
      BY <1>4, <1>5, <2>2
    <2>4. Stands(n, a)'
      BY <1>2, <2>1, <2>3 DEF Stands, Opening
    <2>5. QED
      BY <1>5, <2>4 DEF StoodFor
  <1>6. QED
    BY <1>3, <1>5

\* Steps that complete no job, and that make one for an alert they store.
LEMMA NearStored ==
  ASSUME IncidentsAssumption, NearInv, AlertInv', Widen, incidentRows' = incidentRows,
         reconstructions \subseteq reconstructions',
         \A j \in reconstructions' : j \in reconstructions \/ \E a \in DOMAIN alertRows' : IsFor(j, a)',
         \A a \in DOMAIN alertRows' : a \in DOMAIN alertRows \/ \E j \in reconstructions' : IsFor(j, a)'
  PROVE  NearInv'
  <1>1. AlertInv /\ JobInv /\ \A a \in DOMAIN alertRows : Due(a) \/ StoodFor(a)
    BY DEF NearInv
  <1>2. /\ \A j, a : IsFor(j, a) => IsFor(j, a)'
        /\ \A a \in DOMAIN alertRows : StoodFor(a) => StoodFor(a)'
    BY <1>1, WideningKeeps
  <1>3. \A a \in DOMAIN alertRows : a \in DOMAIN alertRows'
    BY DEF Widen
  <1>4. JobInv'
    <2> SUFFICES ASSUME NEW j \in reconstructions' PROVE \E a \in DOMAIN alertRows' : IsFor(j, a)'
      BY DEF JobInv
    <2>1. CASE j \in reconstructions
      <3>1. PICK a \in DOMAIN alertRows : IsFor(j, a)
        BY <1>1, <2>1 DEF JobInv
      <3>2. QED
        BY <1>2, <1>3, <3>1
    <2>2. QED
      BY <2>1
  <1>5. ASSUME NEW a \in DOMAIN alertRows' PROVE Due(a)' \/ StoodFor(a)'
    <2>1. CASE a \in DOMAIN alertRows
      <3>1. CASE Due(a)
        <4>1. PICK j \in reconstructions : IsFor(j, a)
          BY <3>1 DEF Due
        <4>2. IsFor(j, a)' /\ j \in reconstructions'
          BY <1>2, <4>1
        <4>3. QED
          BY <4>2 DEF Due
      <3>2. QED
        BY <1>1, <1>2, <2>1, <3>1
    <2>2. CASE a \notin DOMAIN alertRows
      <3>1. PICK j \in reconstructions' : IsFor(j, a)'
        BY <2>2
      <3>2. QED
        BY <3>1 DEF Due
    <2>3. QED
      BY <2>1, <2>2
  <1>6. QED
    BY <1>4, <1>5 DEF NearInv

\* A time that passes.
LEMMA NearTime == ASSUME IncidentsAssumption, NearInv, TimePasses PROVE NearInv'
  <1>1. UNCHANGED <<alertRows, reconstructions, incidentRows>> /\ incidentClock' = incidentClock + 1
    BY DEF TimePasses
  <1>2. AlertInv
    BY DEF NearInv
  <1>3. AlertInv'
    <2>1. incidentClock \in Nat /\ \A i \in DOMAIN alertRows : alertRows[i].last \in Nat /\ alertRows[i].last <= incidentClock
      BY <1>2 DEF AlertInv
    <2>2. incidentClock' \in Nat /\ \A i \in DOMAIN alertRows : alertRows[i].last <= incidentClock'
      BY <1>1, <2>1
    <2>3. QED
      BY <1>1, <1>2, <2>2 DEF AlertInv
  <1>4. Widen
    BY <1>1, <1>2 DEF Widen, AlertInv
  <1>5. QED
    BY <1>1, <1>3, <1>4, NearStored

\* A detection: its alert is new, or widens to the present instant.
LEMMA NearDetection ==
  ASSUME IncidentsAssumption, NearInv, NEW p \in Payloads, IngestDetection(p)
  PROVE  NearInv'
  <1>1. PICK m \in Match(p) :
          LET id == AlertId(m.trace, p.surface, incidentClock)
              new == Candidate(p.surface, m.confidence, incidentClock)
              row == IF id \in DOMAIN alertRows THEN CombineAlerts(alertRows[id], new) ELSE new
          IN /\ alertRows' = [i \in DOMAIN alertRows \cup {id} |-> IF i = id THEN row ELSE alertRows[i]]
             /\ reconstructions' = reconstructions \cup {JobFor(id, row)}
    BY DEF IngestDetection
  <1> DEFINE id == AlertId(m.trace, p.surface, incidentClock)
             new == Candidate(p.surface, m.confidence, incidentClock)
             row == IF id \in DOMAIN alertRows THEN CombineAlerts(alertRows[id], new) ELSE new
             job == JobFor(id, row)
  <1>2. /\ alertRows' = [i \in DOMAIN alertRows \cup {id} |-> IF i = id THEN row ELSE alertRows[i]]
        /\ reconstructions' = reconstructions \cup {job}
        /\ UNCHANGED <<incidentClock, incidentRows>>
    BY <1>1 DEF IngestDetection
  <1>3. AlertInv /\ CorrelationWindow \in Nat
    BY DEF NearInv, IncidentsAssumption
  <1>4. new.first = incidentClock /\ new.last = incidentClock
    BY DEF Candidate
  <1>5. /\ row.first \in Nat /\ row.last = incidentClock /\ row.first <= incidentClock
        /\ id \in DOMAIN alertRows => row.first = alertRows[id].first
    <2>1. incidentClock \in Nat
      BY <1>3 DEF AlertInv
    <2>2. CASE id \notin DOMAIN alertRows
      BY <2>1, <2>2, <1>4
    <2>3. CASE id \in DOMAIN alertRows
      <3>1. /\ alertRows[id].first \in Nat /\ alertRows[id].last \in Nat
            /\ alertRows[id].first <= alertRows[id].last /\ alertRows[id].last <= incidentClock
        BY <1>3, <2>3 DEF AlertInv
      <3>2. row = CombineAlerts(alertRows[id], new)
        BY <2>3
      <3> HIDE DEF id, new, row
      <3>3. row.first = Min({alertRows[id].first, incidentClock}) /\ row.last = Max({alertRows[id].last, incidentClock})
        BY <3>2, <1>4 DEF CombineAlerts
      <3>4. Min({alertRows[id].first, incidentClock}) = alertRows[id].first
        BY <2>1, <3>1 DEF Min
      <3>5. Max({alertRows[id].last, incidentClock}) = incidentClock
        BY <2>1, <3>1 DEF Max
      <3>6. QED
        BY <2>1, <2>3, <3>1, <3>3, <3>4, <3>5
    <2>4. QED
      BY <2>2, <2>3
  <1>6. /\ job.trace = id.trace /\ job.start = row.first - CorrelationWindow
        /\ job.end = row.last + CorrelationWindow
    BY DEF JobFor
  <1> HIDE DEF id, new, row, job
  <1>7. /\ DOMAIN alertRows' = DOMAIN alertRows \cup {id} /\ alertRows'[id] = row
        /\ \A i \in DOMAIN alertRows : i # id => alertRows'[i] = alertRows[i]
    BY <1>2
  <1>8. /\ incidentClock \in Nat /\ IsFiniteSet(DOMAIN alertRows)
        /\ \A i \in DOMAIN alertRows :
             /\ alertRows[i].first \in Nat /\ alertRows[i].last \in Nat
             /\ alertRows[i].first <= alertRows[i].last /\ alertRows[i].last <= incidentClock
    BY <1>3 DEF AlertInv
  <1>9. AlertInv'
    <2>1. IsFiniteSet(DOMAIN alertRows')
      BY <1>7, <1>8, FS_AddElement
    <2>2. \A i \in DOMAIN alertRows' :
             /\ alertRows'[i].first \in Nat /\ alertRows'[i].last \in Nat
             /\ alertRows'[i].first <= alertRows'[i].last /\ alertRows'[i].last <= incidentClock
      BY <1>5, <1>7, <1>8
    <2>3. QED
      BY <1>2, <1>8, <2>1, <2>2 DEF AlertInv
  <1>10. Widen
    BY <1>5, <1>7, <1>8 DEF Widen
  <1>11. PICK made, a : made = job /\ a = id
    OBVIOUS
  <1>12. IsFor(made, a)'
    BY <1>3, <1>5, <1>6, <1>7, <1>8, <1>11 DEF IsFor
  <1>13. /\ \A i \in reconstructions' : i \in reconstructions \/ i = made
         /\ \A i \in DOMAIN alertRows' : i \in DOMAIN alertRows \/ i = a
         /\ made \in reconstructions' /\ a \in DOMAIN alertRows' /\ reconstructions \subseteq reconstructions'
    BY <1>2, <1>7, <1>11
  <1>14. QED
    BY <1>2, <1>9, <1>10, <1>12, <1>13, NearStored

\* A job: what it writes has a first alert, which stands for those of the job, and for those
\* that the overwritten content stood for.
LEMMA NearProcessed ==
  ASSUME IncidentsAssumption, NearInv, NEW j \in reconstructions, ProcessReconstruction(j)
  PROVE  NearInv'
  <1>1. /\ AlertInv /\ JobInv /\ \A a \in DOMAIN alertRows : Due(a) \/ StoodFor(a)
        /\ alertRows' = alertRows /\ incidentClock' = incidentClock /\ reconstructions' = reconstructions \ {j}
    BY DEF NearInv, ProcessReconstruction
  <1>2. PICK z \in DOMAIN alertRows : IsFor(j, z)
    BY <1>1 DEF JobInv
  <1> DEFINE R == RelatedAlerts(j)
  <1>3. PICK n :
        /\ n.traces = {z.trace} /\ Opening(n) \in Int
        /\ Opening(n) <= FirstSeen(R) /\ FirstSeen(R) < Opening(n) + CorrelationWindow
        /\ DOMAIN incidentRows' = DOMAIN incidentRows \cup {n}
        /\ incidentRows'[n].alerts = R
        /\ \A m \in DOMAIN incidentRows : m # n => incidentRows'[m] = incidentRows[m]
    BY <1>1, <1>2, WhatIsBuilt
  <1>4. z \in R /\ R \subseteq DOMAIN alertRows
    BY <1>1, <1>2, OneGroup DEF RelatedAlerts
  <1>5. \A i \in DOMAIN alertRows :
          i \in R <=> i.trace = j.trace /\ alertRows[i].last >= j.start /\ alertRows[i].first <= j.end
    BY DEF RelatedAlerts
  <1>6. PICK y \in R : alertRows[y].first = FirstSeen(R) /\ \A k \in R : FirstSeen(R) <= alertRows[k].first
    BY <1>1, <1>4, SeenFacts
  <1> HIDE DEF R
  <1>7. /\ CorrelationWindow \in Nat /\ j.trace = z.trace /\ j.end \in Int
        /\ j.start = alertRows[z].first - CorrelationWindow /\ alertRows[z].first + CorrelationWindow <= j.end
        /\ \A i \in DOMAIN alertRows : alertRows[i].first \in Nat /\ alertRows[i].last \in Nat
        /\ \A i \in DOMAIN alertRows : alertRows[i].first <= alertRows[i].last
    BY <1>1, <1>2 DEF IsFor, AlertInv, IncidentsAssumption
  <1>8. y \in DOMAIN alertRows /\ y.trace = z.trace /\ alertRows[y].last >= j.start
        /\ alertRows[y].first < Opening(n) + CorrelationWindow
    BY <1>3, <1>4, <1>5, <1>6, <1>7
  <1>9. ASSUME NEW a \in DOMAIN alertRows, a.trace = z.trace, Opening(n) <= alertRows[a].first,
               alertRows[y].last >= alertRows[a].first - CorrelationWindow
        PROVE  StoodFor(a)'
    <2>1. Reaches(n, y, a)
      BY <1>8, <1>9 DEF Reaches
    <2>2. Stands(n, a)'
      BY <1>1, <1>3, <1>6, <1>9, <2>1 DEF Stands, Reaches, Opening
    <2>3. QED
      BY <1>3, <2>2 DEF StoodFor
  <1>10. ASSUME NEW a \in DOMAIN alertRows, IsFor(j, a) PROVE StoodFor(a)'
    <2>1. a.trace = z.trace /\ j.start = alertRows[a].first - CorrelationWindow
          /\ alertRows[a].first + CorrelationWindow <= j.end
      BY <1>7, <1>10 DEF IsFor
    <2>2. a \in R
      BY <1>5, <1>7, <2>1
    <2>3. Opening(n) <= alertRows[a].first
      <3>1. FirstSeen(R) <= alertRows[a].first /\ FirstSeen(R) \in Nat
        BY <1>4, <1>6, <1>7, <2>2
      <3>2. QED
        BY <1>3, <1>7, <3>1
    <2>4. QED
      BY <1>8, <1>9, <2>1, <2>3
  <1>11. ASSUME NEW a \in DOMAIN alertRows, NEW m \in DOMAIN incidentRows, Stands(m, a) PROVE StoodFor(a)'
    <2>1. PICK x \in incidentRows[m].alerts : Reaches(m, x, a)
      BY <1>11 DEF Stands
    <2>2. CASE m # n \/ x \in R
      <3>1. x \in incidentRows'[m].alerts /\ m \in DOMAIN incidentRows'
        BY <1>3, <2>1, <2>2
      <3>2. Stands(m, a)'
        BY <1>1, <1>11, <2>1, <3>1 DEF Stands, Reaches, Opening
      <3>3. QED
        BY <3>1, <3>2 DEF StoodFor
    <2>3. CASE m = n /\ x \notin R
      <3>1. a.trace = z.trace /\ x.trace = j.trace /\ Opening(n) <= alertRows[a].first
        BY <1>3, <1>7, <1>11, <2>1, <2>3 DEF Stands, Reaches
      <3>2. /\ x \in DOMAIN alertRows /\ alertRows[x].first < Opening(n) + CorrelationWindow
            /\ alertRows[x].last >= alertRows[a].first - CorrelationWindow
        BY <2>1, <2>3 DEF Reaches
      <3>3. alertRows[x].first <= j.end
        <4>1. Opening(n) <= alertRows[z].first
          <5>1. FirstSeen(R) <= alertRows[z].first /\ FirstSeen(R) \in Nat
            BY <1>4, <1>6, <1>7
          <5>2. QED
            BY <1>3, <1>7, <5>1
        <4>2. QED
          BY <1>3, <1>7, <3>2, <4>1
      <3>4. ~(alertRows[x].last >= j.start)
        BY <1>5, <2>3, <3>1, <3>2, <3>3
      <3>5. alertRows[y].last >= alertRows[a].first - CorrelationWindow
        BY <1>7, <1>8, <3>2, <3>4
      <3>6. QED
        BY <1>9, <3>1, <3>5
    <2>4. QED
      BY <2>2, <2>3
  <1>12. \A i, a : IsFor(i, a)' <=> IsFor(i, a)
    BY <1>1 DEF IsFor
  <1>13. ASSUME NEW a \in DOMAIN alertRows' PROVE Due(a)' \/ StoodFor(a)'
    <2>1. CASE StoodFor(a)
      BY <1>1, <1>11, <2>1 DEF StoodFor
    <2>2. CASE Due(a)
      <3>1. PICK i \in reconstructions : IsFor(i, a)
        BY <2>2 DEF Due
      <3>2. CASE i = j
        BY <1>1, <1>10, <3>1, <3>2
      <3>3. CASE i # j
        BY <1>1, <1>12, <3>1, <3>3 DEF Due
      <3>4. QED
        BY <3>2, <3>3
    <2>3. QED
      BY <1>1, <2>1, <2>2
  <1>14. JobInv'
    BY <1>1, <1>12 DEF JobInv
  <1>15. AlertInv'
    BY <1>1 DEF AlertInv
  <1>16. QED
    BY <1>13, <1>14, <1>15 DEF NearInv

\* Every step keeps it.
LEMMA NearStep == ASSUME IncidentsAssumption, NearInv, [IncidentNext]_incidentVars PROVE NearInv'
  <1>1. CASE TimePasses
    BY <1>1, NearTime
  <1>2. ASSUME NEW p \in Payloads, IngestDetection(p) PROVE NearInv'
    BY <1>2, NearDetection
  <1>3. CASE UNCHANGED <<incidentClock, alertRows, reconstructions, incidentRows>>
    <2>1. AlertInv' /\ Widen /\ AlertInv
      BY <1>3 DEF NearInv, AlertInv, Widen
    <2>2. QED
      BY <1>3, <2>1, NearStored
  <1>4. ASSUME NEW p \in Payloads, IngestNothing(p) PROVE NearInv'
    BY <1>3, <1>4 DEF IngestNothing
  <1>5. ASSUME NEW j \in reconstructions, ProcessReconstruction(j) PROVE NearInv'
    BY <1>5, NearProcessed
  <1>6. QED
    BY <1>1, <1>2, <1>3, <1>4, <1>5 DEF IncidentNext, incidentVars

\* It says what is promised.
LEMMA NearSound == ASSUME IncidentsAssumption, NearInv PROVE TouchIsNear
  <1> SUFFICES ASSUME Settled, NEW a \in DOMAIN alertRows PROVE \E b \in Listed : Near(a, b)
    BY DEF TouchIsNear
  <1>1. StoodFor(a)
    BY DEF NearInv, Due, Settled
  <1>2. PICK n \in DOMAIN incidentRows : Stands(n, a)
    BY <1>1 DEF StoodFor
  <1>3. PICK y \in incidentRows[n].alerts : Reaches(n, y, a)
    BY <1>2 DEF Stands
  <1>4. y \in Listed
    <2>1. incidentRows[n] \in Range(incidentRows)
      BY <1>2 DEF Range
    <2>2. QED
      BY <1>3, <2>1 DEF Listed
  <1>5. Near(a, y)
    <2>1. /\ y \in DOMAIN alertRows /\ a.trace = y.trace
          /\ alertRows[y].first < Opening(n) + CorrelationWindow
          /\ alertRows[y].last >= alertRows[a].first - CorrelationWindow
      BY <1>3 DEF Reaches
    <2>2. Opening(n) \in Int /\ Opening(n) <= alertRows[a].first
      BY <1>2 DEF Stands
    <2>3. /\ CorrelationWindow \in Nat /\ alertRows[a].first \in Nat /\ alertRows[a].last \in Nat
          /\ alertRows[a].first <= alertRows[a].last
          /\ alertRows[y].first \in Nat /\ alertRows[y].last \in Nat
      BY <2>1 DEF NearInv, AlertInv, IncidentsAssumption
    <2>4. alertRows[a].first - alertRows[y].last <= CorrelationWindow
      BY <2>1, <2>3
    <2>5. alertRows[y].first - alertRows[a].last <= CorrelationWindow
      BY <2>1, <2>2, <2>3
    <2>6. QED
      BY <2>1, <2>4, <2>5 DEF Near
  <1>6. QED
    BY <1>4, <1>5

\* No detection goes unseen: once all jobs have been processed, in whatever order, every alert
\* is listed in an incident, or another of its trace at most a window away is.
THEOREM TouchesAreNear == IncidentSpec => []TouchIsNear
  <1>1. IncidentInit => NearInv
    BY NearInit
  <1>2. NearInv /\ [IncidentNext]_incidentVars => NearInv'
    BY NearStep, IncidentsAssumption
  <1>3. NearInv => TouchIsNear
    BY NearSound, IncidentsAssumption
  <1>4. QED
    BY <1>1, <1>2, <1>3, PTL DEF IncidentSpec
=============================================================================
