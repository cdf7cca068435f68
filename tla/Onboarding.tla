----------------------------- MODULE Onboarding -----------------------------
(***************************************************************************)
(* The activation workspace of an organization (services/onboarding.py,    *)
(* api/onboarding.py) and the end of ingestion that completes a controlled *)
(* detection test (api/pipeline.py).                                       *)
(*                                                                         *)
(* The workspace reflects other records: a reconciliation counts them, one *)
(* query after the other while they change, and writes the steps and the   *)
(* workspace at its end.                                                   *)
(***************************************************************************)
EXTENDS Integers, FiniteSets, Sequences

CONSTANTS
  Deployments,     \* deployments of the organization; each has its own trace
  OnboardingCalls, \* API keys; each has at most one request under way
  TestIds,         \* rows of detection_test_runs
  Touches,         \* signed monitoring events
  OnbNone,
  MaxRecordChanges,\* bound: changes of the records that the workspace reflects
  MaxVisits        \* bound: requests to the workspace

ASSUME OnboardingAssumption == MaxRecordChanges \in Nat /\ MaxVisits \in Nat

\* _STEPS, and the records each of them counts.  The identity step looks up a setting that does
\* not exist, so that its default applies and it never completes.
Steps == <<"identity", "repository_inventory", "repository_scan", "verified_deployment",
           "detection_test", "coverage", "integration">>
Records == {"repositories", "coverage", "integration"}

VARIABLES
  records,      \* the records there are of repositories, coverage and active integrations
  recordChanges, \* how often they changed
  visits,       \* requests to the workspace so far
  deployed,     \* per deployment: status and monitoring_activated_at, as one of four stages
  workspace,    \* onboarding_workspaces
  steps,        \* onboarding_steps: per step its status, or OnbNone before there are rows
  advice,       \* the safe_first_decoy recommendation: its status
  tests,        \* detection_test_runs
  touched,      \* the signed events that were stored: event and deployment
  onboarding    \* per API key: the request under way

onbVars == <<records, recordChanges, visits, deployed, workspace, steps, advice, tests, touched, onboarding>>

\* An organization that has not started, or has, at any stage of its deployments.  Its
\* workspace may have been paused before it was started, and a start and a resume that
\* overlapped may have left one that was started with the status of one that was not.
OnbInit ==
  /\ records = {} /\ recordChanges = 0 /\ visits = 0
  /\ deployed \in [Deployments -> {"none", "deployed", "monitored"}]
  /\ \/ workspace = OnbNone /\ steps = OnbNone
     \/ /\ workspace \in {[status |-> "in_progress", started |-> TRUE], [status |-> "paused", started |-> FALSE],
                         [status |-> "not_started", started |-> TRUE]}
        /\ steps = [i \in DOMAIN Steps |-> IF Steps[i] = "verified_deployment" /\ \E d \in Deployments : deployed[d] = "monitored"
                                            THEN "completed" ELSE "blocked"]
  /\ advice = OnbNone /\ tests = [t \in TestIds |-> OnbNone] /\ touched = {}
  /\ onboarding = [c \in OnboardingCalls |-> OnbNone]

\* Other parts of the system add and remove records, and deploy, monitor and retire.
RecordsChange(name) ==
  /\ recordChanges < MaxRecordChanges /\ recordChanges' = recordChanges + 1
  /\ records' = IF name \in records THEN records \ {name} ELSE records \cup {name}
  /\ UNCHANGED <<visits, deployed, workspace, steps, advice, tests, touched, onboarding>>
DeploymentMoves(d) ==
  /\ deployed[d] # "retired"
  /\ recordChanges < MaxRecordChanges /\ recordChanges' = recordChanges + 1
  /\ deployed' = [deployed EXCEPT ![d] =
       CASE @ = "none" -> "deployed" [] @ = "deployed" -> "monitored" [] OTHER -> "retired"]
  /\ UNCHANGED <<records, visits, workspace, steps, advice, tests, touched, onboarding>>

-----------------------------------------------------------------------------
Idle(c) == onboarding[c] = OnbNone
Done(c) == onboarding' = [onboarding EXCEPT ![c] = OnbNone]

\* _workspace: the row, or a new one.
Loaded == IF workspace = OnbNone THEN [status |-> "not_started", started |-> FALSE] ELSE workspace

\* What start, pause and resume make of the row; view and recalculate leave it.
Changed(action, row) ==
  CASE action = "start" /\ row.status \in {"not_started", "paused"} -> [status |-> "in_progress", started |-> TRUE]
    [] action = "pause" /\ row.status # "activated" -> [row EXCEPT !.status = "paused"]
    [] action = "resume" /\ row.status = "paused" -> [row EXCEPT !.status = "in_progress"]
    [] OTHER -> row

\* A request loads the workspace; a paused one is not reconciled.
Open(c, action) ==
  LET row == Changed(action, Loaded) IN
  /\ Idle(c) /\ visits < MaxVisits /\ visits' = visits + 1
  /\ onboarding' = [onboarding EXCEPT ![c] =
       [action |-> action, stage |-> IF row.status = "paused" THEN "written" ELSE "reading",
        again |-> action \in {"start", "resume", "recalculate"},
        loaded |-> workspace, row |-> row, seen |-> OnbNone, rows |-> OnbNone, facts |-> <<>>]]
  /\ UNCHANGED <<records, recordChanges, deployed, workspace, steps, advice, tests, touched>>

\* The count behind a step; _identity_ready never is.
Fact(step) ==
  \/ step \in {"repository_inventory", "repository_scan"} /\ "repositories" \in records
  \/ step = "verified_deployment" /\ \E d \in Deployments : deployed[d] = "monitored"
  \/ step = "detection_test" /\ \E t \in TestIds : tests[t] # OnbNone /\ tests[t].status = "detected"
  \/ step \in {"coverage", "integration"} \cap records

\* reconcile reads the facts, one query each.
ReadFact(c) ==
  LET x == onboarding[c] IN
  /\ ~Idle(c) /\ x.stage = "reading" /\ Len(x.facts) < Len(Steps)
  /\ onboarding' = [onboarding EXCEPT ![c].facts = Append(@, Fact(Steps[Len(@) + 1]))]
  /\ UNCHANGED <<records, recordChanges, visits, deployed, workspace, steps, advice, tests, touched>>

\* A step that was complete asks for attention, until it is reconciled again.
StepStatus(fact, previous) ==
  IF fact THEN "completed" ELSE IF previous = "completed" THEN "requires_attention" ELSE "blocked"

\* The status of a workspace that is not paused and whose steps are not complete.
Derived(started) == IF started THEN "in_progress" ELSE "not_started"

\* ... loads the steps, and derives them and the status.  The handlers of start, resume and
\* recalculate reconcile, and reconcile again for the view they return.
Reconcile(c) ==
  LET x == onboarding[c]
      seen == IF x.rows = OnbNone THEN steps ELSE x.seen
      previous(i) == IF x.rows # OnbNone THEN x.rows[i] ELSE IF steps # OnbNone THEN steps[i] ELSE "not_started"
      all == \A i \in DOMAIN x.facts : x.facts[i] IN
  /\ ~Idle(c) /\ x.stage = "reading" /\ Len(x.facts) = Len(Steps)
  /\ onboarding' = [onboarding EXCEPT ![c] =
       [x EXCEPT !.stage = IF x.again THEN "reading" ELSE "written", !.again = FALSE,
                 !.facts = <<>>, !.seen = seen,
                 !.rows = [i \in DOMAIN Steps |-> StepStatus(x.facts[i], previous(i))],
                 !.row.status = IF all THEN "activated" ELSE Derived(x.row.started)]]
  /\ UNCHANGED <<records, recordChanges, visits, deployed, workspace, steps, advice, tests, touched>>

\* Mutant: the commit writes every column.
MergeMutant(loaded, mine, now) == mine

\* The commit writes what differs from what was loaded, over what others wrote since; an insert
\* that comes second fails.
Merge(loaded, mine, now) ==
  IF loaded = OnbNone THEN mine
  ELSE [column \in DOMAIN mine |-> IF mine[column] # loaded[column] THEN mine[column] ELSE now[column]]
CloseCall(c) ==
  LET x == onboarding[c] IN
  /\ ~Idle(c) /\ x.stage = "written"
  /\ x.loaded = OnbNone => workspace = OnbNone
  /\ x.rows # OnbNone /\ x.seen = OnbNone => steps = OnbNone
  /\ workspace' = Merge(x.loaded, x.row, workspace)
  /\ steps' = IF x.rows = OnbNone THEN steps ELSE Merge(x.seen, x.rows, steps)
  /\ Done(c) /\ UNCHANGED <<records, recordChanges, visits, deployed, advice, tests, touched>>
CallFails(c) ==
  /\ ~Idle(c) /\ Done(c)
  /\ UNCHANGED <<records, recordChanges, visits, deployed, workspace, steps, advice, tests, touched>>

\* recommendations and decide_recommendation
Recommend ==
  /\ advice # "active" /\ "repositories" \in records /\ \A d \in Deployments : deployed[d] = "none"
  /\ advice' = "active"
  /\ UNCHANGED <<records, recordChanges, visits, deployed, workspace, steps, tests, touched, onboarding>>
DecideAdvice(decision) ==
  /\ advice = "active" /\ advice' = decision
  /\ UNCHANGED <<records, recordChanges, visits, deployed, workspace, steps, tests, touched, onboarding>>

-----------------------------------------------------------------------------
\* create_detection_test reads the deployment and its tripwire; the test is committed later.
AskForTest(c, t, d) ==
  /\ Idle(c) /\ tests[t] = OnbNone
  /\ \A b \in OnboardingCalls : ~Idle(b) /\ onboarding[b].stage = "testing" => onboarding[b].test # t
  /\ deployed[d] = "monitored"
  /\ onboarding' = [onboarding EXCEPT ![c] = [stage |-> "testing", test |-> t, trace |-> d]]
  /\ UNCHANGED <<records, recordChanges, visits, deployed, workspace, steps, advice, tests, touched>>
CreateTest(c) ==
  LET x == onboarding[c] IN
  /\ ~Idle(c) /\ x.stage = "testing"
  /\ tests' = [tests EXCEPT ![x.test] =
       [status |-> "running", trace |-> x.trace, event |-> OnbNone,
        order |-> Cardinality({u \in TestIds : tests[u] # OnbNone})]]
  /\ Done(c) /\ UNCHANGED <<records, recordChanges, visits, deployed, workspace, steps, advice, touched>>

\* The newest running test of a trace.
Running(d) ==
  LET running == {t \in TestIds : tests[t] # OnbNone /\ tests[t].status = "running" /\ tests[t].trace = d} IN
  IF running = {} THEN OnbNone ELSE CHOOSE t \in running : \A u \in running : tests[u].order <= tests[t].order

\* Ingestion has added its event, and record_detection looks for a test that waits for it ...
RecordDetection(c, e, d) ==
  /\ Idle(c) /\ deployed[d] # "none" /\ \A x \in touched : x.event # e
  /\ onboarding' = [onboarding EXCEPT ![c] =
       [stage |-> "ingesting", event |-> e, trace |-> d, test |-> Running(d)]]
  /\ UNCHANGED <<records, recordChanges, visits, deployed, workspace, steps, advice, tests, touched>>

\* ... and completes it with the commit of the event.
CommitEvent(c) ==
  LET x == onboarding[c] IN
  /\ ~Idle(c) /\ x.stage = "ingesting" /\ \A y \in touched : y.event # x.event
  /\ touched' = touched \cup {[event |-> x.event, trace |-> x.trace]}
  /\ tests' = IF x.test = OnbNone THEN tests
              ELSE [tests EXCEPT ![x.test].status = "detected", ![x.test].event = x.event]
  /\ Done(c) /\ UNCHANGED <<records, recordChanges, visits, deployed, workspace, steps, advice>>

WorkspaceStep ==
  \/ \E name \in Records : RecordsChange(name)
  \/ \E d \in Deployments : DeploymentMoves(d)
  \/ \E c \in OnboardingCalls :
       \/ \E action \in {"view", "start", "pause", "resume", "recalculate"} : Open(c, action)
       \/ ReadFact(c) \/ Reconcile(c) \/ CloseCall(c) \/ CallFails(c)
TestStep ==
  \/ \E name \in Records : RecordsChange(name)
  \/ \E d \in Deployments : DeploymentMoves(d)
  \/ Recommend \/ \E decision \in {"accepted", "dismissed"} : DecideAdvice(decision)
  \/ \E c \in OnboardingCalls :
       \/ \E d \in Deployments, t \in TestIds : AskForTest(c, t, d)
       \/ \E d \in Deployments, e \in Touches : RecordDetection(c, e, d)
       \/ CreateTest(c) \/ CommitEvent(c) \/ CallFails(c)

OnbNext == WorkspaceStep \/ TestStep
OnbSpec == OnbInit /\ [][OnbNext]_onbVars

-----------------------------------------------------------------------------
OnbTypeOK == workspace # OnbNone => workspace.status \in {"not_started", "in_progress", "paused", "activated"}

\* A row whose status is not the one that a reconciliation derives.
Torn(row) == row.status \notin {"paused", Derived(row.started)}

\* A paused workspace stays paused until somebody starts or resumes it, although requests that
\* loaded it before the pause reconcile and commit after it.  Only one that had loaded a torn
\* row, which takes a start and a resume that overlap, corrects the row and undoes the pause.
PauseHolds ==
  [][workspace # OnbNone /\ workspace.status = "paused" /\ workspace'.status # "paused" =>
       \E c \in OnboardingCalls :
         /\ ~Idle(c) /\ onboarding[c].stage = "written"
         /\ onboarding[c].action \in {"start", "resume"} \/ Torn(onboarding[c].loaded)]_onbVars
=============================================================================
