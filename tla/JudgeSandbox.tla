---------------------------- MODULE JudgeSandbox ----------------------------
(***************************************************************************)
(* The judge workspace: sandboxes with a deadline and a budget             *)
(* (services/judge_sandbox.py, services/judge_quota.py), the requests of a *)
(* judge (api/judge.py) and the controlled interaction                     *)
(* (services/judge_interaction.py).                                        *)
(*                                                                         *)
(* A sandbox has one API key.  Authentication writes the row of that key,  *)
(* so a request that has been authenticated excludes the others of the     *)
(* sandbox until it commits; the counters of the sandbox have no other     *)
(* protection.                                                             *)
(***************************************************************************)
EXTENDS Integers, FiniteSets

CONSTANTS
  Sandboxes,      \* organizations that may be provisioned
  JudgeRequests,  \* requests under way at a time
  JudgeLimit,     \* function from "analyze", "interact" and "export" to the budget
  JudgeNone,
  MaxResets       \* bound: resets of a sandbox

JudgeActions == {"analyze", "interact", "export", "reset"}

VARIABLES
  sandboxes,   \* judge_sandboxes with, per sandbox, the tables that have rows of it
  keyHolder,   \* per sandbox: the request that has written the row of its API key
  judging,     \* per request: what it does and what it has loaded
  served       \* per sandbox and action: how many were carried out

judgeVars == <<sandboxes, keyHolder, judging, served>>

\* seed, through the pipeline: scan, plan, generate and evaluate.
SeededTables ==
  {"repositories", "context_profiles", "placement_plans", "decoy_plans", "validation_reports"}

\* interact: the event, the alert and the job of the pipeline, and the incident that the
\* inline worker reconstructs.
TouchedTables == {"detection_events", "alerts", "reconstruction_jobs", "incidents"}

NoUse == [a \in JudgeActions |-> 0]

\* The rows of judge_sandboxes, and what a request has loaded.
SandboxRows ==
  [status : {"active", "expired"}, due : BOOLEAN, used : [JudgeActions -> Nat], cooling : BOOLEAN,
   tables : SUBSET (SeededTables \cup TouchedTables)]
JudgeRequestRows ==
  [sandbox : Sandboxes, action : JudgeActions, stage : {"read", "authenticated", "loaded"},
   used : [JudgeActions -> Nat]]

ASSUME JudgeAssumption ==
  /\ JudgeLimit \in [{"analyze", "interact", "export"} -> Nat] /\ MaxResets \in Nat
  /\ JudgeNone \notin JudgeRequests /\ JudgeNone \notin SandboxRows

JudgeInit ==
  /\ sandboxes = [s \in Sandboxes |-> JudgeNone] /\ keyHolder = [s \in Sandboxes |-> JudgeNone]
  /\ judging = [r \in JudgeRequests |-> JudgeNone]
  /\ served = [s \in Sandboxes |-> NoUse]

\* provision: the organization, its key, the row and the seeded data, in one transaction.
Provision(s) ==
  /\ sandboxes[s] = JudgeNone
  /\ sandboxes' = [sandboxes EXCEPT ![s] =
       [status |-> "active", due |-> FALSE, used |-> NoUse, cooling |-> FALSE, tables |-> SeededTables]]
  /\ UNCHANGED <<keyHolder, judging, served>>

\* The key and the sandbox expire together.
DeadlinePasses(s) ==
  /\ sandboxes[s] # JudgeNone /\ ~sandboxes[s].due
  /\ sandboxes' = [sandboxes EXCEPT ![s].due = TRUE] /\ UNCHANGED <<keyHolder, judging, served>>

\* expire_due
ExpireDue ==
  LET due == {s \in Sandboxes : sandboxes[s] # JudgeNone /\ sandboxes[s].status = "active" /\ sandboxes[s].due} IN
  /\ due # {}
  /\ sandboxes' = [s \in Sandboxes |-> IF s \in due THEN [sandboxes[s] EXCEPT !.status = "expired"]
                                       ELSE sandboxes[s]]
  /\ UNCHANGED <<keyHolder, judging, served>>

CooldownEnds(s) ==
  /\ sandboxes[s] # JudgeNone /\ sandboxes[s].cooling
  /\ sandboxes' = [sandboxes EXCEPT ![s].cooling = FALSE] /\ UNCHANGED <<keyHolder, judging, served>>

\* authenticate reads the key ...
JudgeCalls(r, s, action) ==
  /\ judging[r] = JudgeNone /\ sandboxes[s] # JudgeNone /\ ~sandboxes[s].due
  /\ judging' = [judging EXCEPT ![r] = [sandbox |-> s, action |-> action, stage |-> "read", used |-> NoUse]]
  /\ UNCHANGED <<sandboxes, keyHolder, served>>

\* Mutant: authentication does not write the key.
WriteKeyMutant(r) ==
  /\ judging[r] # JudgeNone /\ judging[r].stage = "read"
  /\ judging' = [judging EXCEPT ![r].stage = "authenticated"]
  /\ UNCHANGED <<sandboxes, keyHolder, served>>

\* ... and writes it, once no other request holds the row.
WriteKey(r) ==
  /\ judging[r] # JudgeNone /\ judging[r].stage = "read" /\ keyHolder[judging[r].sandbox] = JudgeNone
  /\ judging' = [judging EXCEPT ![r].stage = "authenticated"]
  /\ keyHolder' = [keyHolder EXCEPT ![judging[r].sandbox] = r]
  /\ UNCHANGED <<sandboxes, served>>

\* resolve
Resolved(s) == sandboxes[s].status = "active" /\ ~sandboxes[s].due

\* check: within the budget, or past the cooldown of a reset.
WithinBudget(s, action) ==
  IF action = "reset" THEN ~sandboxes[s].cooling
  ELSE sandboxes[s].used[action] < JudgeLimit[action]

\* The end of the transaction of a request.
Leave(r) ==
  /\ judging' = [judging EXCEPT ![r] = JudgeNone]
  /\ keyHolder' = [s \in Sandboxes |-> IF keyHolder[s] = r THEN JudgeNone ELSE keyHolder[s]]

\* The handler loads the sandbox and decides.
LoadSandbox(r) ==
  LET x == judging[r] IN
  /\ x # JudgeNone /\ x.stage = "authenticated"
  /\ Resolved(x.sandbox) /\ WithinBudget(x.sandbox, x.action)
  /\ judging' = [judging EXCEPT ![r].stage = "loaded", ![r].used = sandboxes[x.sandbox].used]
  /\ UNCHANGED <<sandboxes, keyHolder, served>>

\* 410, 429, or 422 for signals with too many paths; and a request that fails.
JudgeRefused(r) ==
  /\ judging[r] # JudgeNone /\ Leave(r) /\ UNCHANGED <<sandboxes, served>>

\* What the handler does to the rows of the sandbox; interact needs an accepted decoy.
TablesAfter(action, tables) ==
  CASE action = "interact" -> tables \cup TouchedTables
    [] action = "reset" -> SeededTables
    [] OTHER -> tables

\* The action, consume and the commit.  consume adds one to the counter that was loaded.
Consume(r) ==
  LET x == judging[r] box == sandboxes[x.sandbox] IN
  /\ x # JudgeNone /\ x.stage = "loaded"
  /\ x.action = "interact" => {"repositories", "decoy_plans", "validation_reports"} \subseteq box.tables
  /\ x.action = "reset" => x.used["reset"] < MaxResets
  /\ sandboxes' = [sandboxes EXCEPT ![x.sandbox] =
       [box EXCEPT !.used[x.action] = x.used[x.action] + 1,
                   !.cooling = IF x.action = "reset" THEN TRUE ELSE @,
                   !.tables = TablesAfter(x.action, @)]]
  /\ served' = [served EXCEPT ![x.sandbox][x.action] = @ + 1]
  /\ Leave(r)

JudgeNext ==
  \/ \E s \in Sandboxes : Provision(s) \/ DeadlinePasses(s) \/ CooldownEnds(s)
  \/ ExpireDue
  \/ \E r \in JudgeRequests :
       \/ \E s \in Sandboxes, a \in JudgeActions : JudgeCalls(r, s, a)
       \/ WriteKey(r) \/ LoadSandbox(r) \/ Consume(r) \/ JudgeRefused(r)

JudgeSpec == JudgeInit /\ [][JudgeNext]_judgeVars

-----------------------------------------------------------------------------
JudgeTypeOK ==
  /\ sandboxes \in [Sandboxes -> SandboxRows \cup {JudgeNone}]
  /\ keyHolder \in [Sandboxes -> JudgeRequests \cup {JudgeNone}]
  /\ judging \in [JudgeRequests -> JudgeRequestRows \cup {JudgeNone}]
  /\ served \in [Sandboxes -> [JudgeActions -> Nat]]

\* No use of a sandbox is lost, so no budget is exceeded and no reset refills one: however the
\* requests of a judge overlap, the counters of the row are what was carried out, within the
\* limits, and a reset leaves the sandbox seeded.
BudgetIsKept ==
  \A s \in Sandboxes : sandboxes[s] # JudgeNone =>
    /\ sandboxes[s].used = served[s]
    /\ \A a \in DOMAIN JudgeLimit : served[s][a] <= JudgeLimit[a]
    /\ SeededTables \subseteq sandboxes[s].tables
=============================================================================
