-------------------------- MODULE MCControlPlane ----------------------------
(***************************************************************************)
(* Instances of the parts of the control plane that share no state: each   *)
(* behaviour is one of a single part, chosen at its start.                 *)
(***************************************************************************)
EXTENDS Coverage, JudgeSandbox, ApiKeys, Reliability, Limits, Onboarding,
  Learning, BrowserSensor, ReplayGuard, Incidents, DecoyPipeline, TLC

CONSTANTS k1, k2, job1, job2, d1, d2

VARIABLE part

\* Coverage: estates with a surface of every kind, and decoys that are live, expired and failed.
Repo == [type |-> "repository", words |-> 3]
Index == [type |-> "rag", words |-> 1]
Agent == [type |-> "ai_agent", words |-> 0]
Web == [type |-> "browser_ai", words |-> 0, approved |-> FALSE]
Tool == [type |-> "browser_ai", words |-> 0, approved |-> TRUE]
Table == [type |-> "database", words |-> 2]
Dep(st, exp, mon) ==
  {[id |-> 1, status |-> st, expiry |-> exp, deployed |-> "recent", monitored |-> mon, proven |-> TRUE]}
Ag(p) == [active |-> TRUE, policy |-> p]
AllCaps == {"signed", "alerts", "incidents"}
MCSurfaces == {Repo, Index, Agent, Web, Tool, Table}
MCEstatesNow == {
  [on |-> (Repo :> {}) @@ (Agent :> Ag(FALSE)) @@ (Web :> TRUE), caps |-> AllCaps],
  [on |-> (Repo :> Dep("active", "future", "recent")) @@ (Agent :> Ag(FALSE)) @@ (Web :> TRUE), caps |-> AllCaps]}
MCEstates == MCEstatesNow \cup {
  [on |-> (Repo :> Dep("active", "none", "none")) @@ (Table :> Dep("failed", "none", "none")), caps |-> {}],
  [on |-> (Repo :> Dep("deployed", "past", "old")) @@ (Agent :> Ag(TRUE)), caps |-> {"alerts"}],
  [on |-> (Index :> Dep("active", "none", "recent")) @@ (Tool :> FALSE), caps |-> AllCaps]}

MCLimit == [analyze |-> 1, interact |-> 2, export |-> 1]

\* Quota: one request a second and two a minute, or the other way round.
MCDefault == [burst |-> 1, perMinute |-> 2]
MCPolicies == {[burst |-> 2, perMinute |-> 1]}

\* Failover: nothing happened yet, or the secondary is being promoted or active.
Row(to, requested, approved) == [to |-> to, requested |-> requested, approved |-> approved]
Promoting == <<Row("failover_requested", k1, RelNone), Row("primary_fenced", k1, k2),
               Row("standby_promoting", RelNone, RelNone)>>
MCHistories == {<<>>, Promoting, Promoting \o <<Row("secondary_active", RelNone, RelNone)>>}

\* Learning: the decisions of two people in one zone, and a decoy of another that nobody touched.
Obs(rec, zone, type, actor, hours) ==
  [rec |-> rec, zone |-> zone, type |-> type, actor |-> actor, hours |-> hours, health |-> 95]
MCObs == {Obs("r1", "z1", "accepted", "p1", 0), Obs("r2", "z1", "rejected", "p2", 0),
          Obs("r3", "z2", "not_triggered", LearnNone, 24)}

\* Browser: what a user pastes where, the policies an administrator writes, and which of these
\* happen together.
Field(tag, type, editable, autocomplete) ==
  [tag |-> tag, type |-> type, editable |-> editable, hidden |-> FALSE, autocomplete |-> autocomplete]
TextArea == Field("textarea", "", FALSE, "")

MCDetectionOf ==
  [d1 |-> [trace |-> "t1", host |-> <<"www", "chat", "ai">>, minute |-> 0, target |-> Field("div", "", TRUE, "")],
   d2 |-> [trace |-> "t1", host |-> <<"team", "chat", "ai">>, minute |-> 0, target |-> TextArea],
   d3 |-> [trace |-> "t2", host |-> <<"chat", "ai">>, minute |-> 0, target |-> TextArea],
   d4 |-> [trace |-> "t2", host |-> <<"chat", "ai">>, minute |-> 0,
           target |-> Field("input", "text", FALSE, "off")],
   d5 |-> [trace |-> "t2", host |-> <<"chat", "ai">>, minute |-> 1,
           target |-> Field("input", "password", FALSE, "current-password")]]

Rule(domain, class) == [domain |-> domain, class |-> class]

MCBodyOf ==
  [u1 |-> [enabled |-> TRUE, reporting |-> TRUE, rules |-> <<Rule(<<"ai">>, "shadow"), Rule(<<"www", "chat", "ai">>, "approved")>>],
   u2 |-> [enabled |-> TRUE, reporting |-> FALSE, rules |-> <<Rule(<<"chat", "ai">>, "conditional")>>],
   u3 |-> [enabled |-> TRUE, reporting |-> TRUE, rules |-> <<Rule(<<"chat", "ai">>, "ignored")>>]]

MCAdminOp == [a1 |-> "revoke", a2 |-> "rotate", a3 |-> "revoke"]

MCScenes ==
  {{"e1", "u1", "s1", "d1", "d2", "a1", "a2"},
   {"e1", "u1", "s1", "d2", "a1", "a3"},
   {"e1", "u1", "s1", "d1", "d3", "d4", "f1", "f2"},
   {"e1", "u1", "s1", "d1", "d2", "d3", "f1"},
   {"e1", "e2", "u1", "u2", "s1", "s2", "p1", "d1"},
   {"e1", "u1", "u3", "s1", "s2", "d2", "d5"}}

MCTripwires ==
  <<[surface |-> "ai", status |-> "retired", trace |-> "t0"],
    [surface |-> "ai", status |-> "deployed", trace |-> "t1"],
    [surface |-> "repository", status |-> "active", trace |-> "t1"],
    [surface |-> "repository", status |-> "active", trace |-> "t2"]>>

\* Incidents: payloads that carry a trace, or nearly; trace 9 is that of a rejected decoy.
Sent(surface, exact, near) == [surface |-> surface, exact |-> exact, near |-> near]
MCPayloads ==
  {Sent("repository", {1, 9}, {1, 9}), Sent("file", {}, {1}), Sent("database", {9}, {9})}

\* Decoys: a repository with everything, one with live configuration only, names that
\* collide, and almost, a vocabulary with a marker, and nothing at all.
Bare ==
  [secrets |-> {}, docs |-> {}, databases |-> {}, cicd |-> {}, infrastructure |-> {}, mcp |-> {},
   folders |-> {}, services |-> {}, conventions |-> {}, word |-> "platform", samples |-> {}, names |-> {},
   closest |-> 0, marker |-> FALSE, findings |-> 0, truncated |-> FALSE]
Env(path, example) == [path |-> path, example |-> example]
Doc(path, design) == [path |-> path, design |-> design]
Rich ==
  [Bare EXCEPT !.secrets = {Env("env.example", TRUE), Env("env", FALSE)}, !.word = "billing",
     !.docs = {Doc("readme", FALSE), Doc("design", TRUE)}, !.mcp = {"mcp.json"}, !.cicd = {"ci.yml"},
     !.infrastructure = {"Dockerfile"}, !.databases = {"postgres"}, !.services = {"api"},
     !.folders = {"scripts", "exports"}, !.conventions = {"upper_snake"}, !.findings = 8]
MCProfiles ==
  {Bare, Rich, [Rich EXCEPT !.truncated = TRUE, !.findings = 7],
   [Rich EXCEPT !.names = {[kind |-> "secret", word |-> "billing"]}],
   [Rich EXCEPT !.samples = {[kind |-> "secret", word |-> "billing"]}],
   [Rich EXCEPT !.closest = 850], [Rich EXCEPT !.marker = TRUE],
   [Bare EXCEPT !.conventions = {"upper_snake", "lower_snake", "kebab"}, !.findings = 10]}

ControlInit ==
  /\ part \in {"coverage", "judge", "keys", "failover", "drills", "rate", "policy", "quota",
               "workspace", "tests", "feedback", "calibration", "browser", "replay",
               "incidents", "decoys"}
  /\ CovInit /\ JudgeInit /\ KeyInit /\ RelInit /\ LimitInit /\ OnbInit
  /\ LearnInit /\ BrowserInit /\ Init /\ IncidentInit /\ DecoyInit
  \* The states a part may start in do not multiply those of the others.
  /\ estate \in MCEstatesNow
  /\ part # "coverage" => estate = CHOOSE e \in MCEstatesNow : TRUE
  /\ part # "failover" => failoverLog = {}
  /\ part \notin {"policy", "quota"} => tenantLimits = LimitNone
  /\ part \notin {"workspace", "tests"} => workspace = OnbNone /\ deployed[d1] = "none"
  /\ part # "tests" => deployed[d2] = "none"
  /\ part = "workspace" => deployed[d1] # "none"
  /\ part # "browser" => scene = CHOOSE s \in Scenes : TRUE

CoverageMoves ==
  /\ part = "coverage" /\ CovNext
  /\ UNCHANGED <<part, judgeVars, keyVars, relVars, limitVars, onbVars, learnVars, browserVars, vars, incidentVars, decoyVars>>
JudgeMoves ==
  /\ part = "judge" /\ JudgeNext
  /\ UNCHANGED <<part, covVars, keyVars, relVars, limitVars, onbVars, learnVars, browserVars, vars, incidentVars, decoyVars>>
KeysMove ==
  /\ part = "keys" /\ KeyNext
  /\ UNCHANGED <<part, covVars, judgeVars, relVars, limitVars, onbVars, learnVars, browserVars, vars, incidentVars, decoyVars>>
ReliabilityMoves ==
  /\ \/ part = "failover" /\ FailoverStep
     \/ part = "drills" /\ DrillStep
  /\ UNCHANGED <<part, covVars, judgeVars, keyVars, limitVars, onbVars, learnVars, browserVars, vars, incidentVars, decoyVars>>
\* Requests are interchangeable: they come in the order of their numbers.
LimitsMove ==
  /\ \/ part = "rate" /\ RateStep
     \/ part = "policy" /\ PolicyStep
     \/ part = "quota" /\ QuotaStep
  /\ \A r, s \in LimitRequests :
       r < s /\ requests'[s].stage # "new" => requests'[r].stage # "new"
  /\ UNCHANGED <<part, covVars, judgeVars, keyVars, relVars, onbVars, learnVars, browserVars, vars, incidentVars, decoyVars>>
OnboardingMoves ==
  /\ \/ part = "workspace" /\ WorkspaceStep
     \/ part = "tests" /\ TestStep
  /\ UNCHANGED <<part, covVars, judgeVars, keyVars, relVars, limitVars, learnVars, browserVars, vars, incidentVars, decoyVars>>

LearningMoves ==
  /\ \/ part = "feedback" /\ FeedbackStep
     \/ part = "calibration" /\ CalibrationStep
  /\ UNCHANGED <<part, covVars, judgeVars, keyVars, relVars, limitVars, onbVars, browserVars, vars, incidentVars, decoyVars>>
BrowserMoves ==
  /\ part = "browser" /\ BrowserNext
  /\ UNCHANGED <<part, covVars, judgeVars, keyVars, relVars, limitVars, onbVars, learnVars, vars, incidentVars, decoyVars>>
ReplayMoves ==
  /\ part = "replay" /\ Next
  /\ UNCHANGED <<part, covVars, judgeVars, keyVars, relVars, limitVars, onbVars, learnVars, browserVars, incidentVars, decoyVars>>
IncidentsMove ==
  /\ part = "incidents" /\ IncidentNext
  /\ UNCHANGED <<part, covVars, judgeVars, keyVars, relVars, limitVars, onbVars, learnVars, browserVars, vars, decoyVars>>
DecoysMove ==
  /\ part = "decoys" /\ DecoyNext
  /\ UNCHANGED <<part, covVars, judgeVars, keyVars, relVars, limitVars, onbVars, learnVars, browserVars, vars, incidentVars>>

ControlNext ==
  \/ CoverageMoves \/ JudgeMoves \/ KeysMove
  \/ ReliabilityMoves \/ LimitsMove \/ OnboardingMoves
  \/ LearningMoves \/ BrowserMoves \/ ReplayMoves
  \/ IncidentsMove \/ DecoysMove

controlVars == <<part, covVars, judgeVars, keyVars, relVars, limitVars, onbVars, learnVars, browserVars, vars, incidentVars, decoyVars>>
ControlSpec == ControlInit /\ [][ControlNext]_controlVars
=============================================================================
