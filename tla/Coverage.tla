------------------------------ MODULE Coverage ------------------------------
(***************************************************************************)
(* The coverage engine: the inventory of the surfaces and of the controls  *)
(* on them (services/coverage_engine/inventory.py), the score of a surface *)
(* (scoring.py, formula.py), its blind spots (blindspots.py), the ranked   *)
(* recommendations (recommend.py) and the snapshots that requests and the  *)
(* job store (engine.py, repositories/coverage.py, api/coverage.py,        *)
(* jobs/coverage.py).                                                      *)
(*                                                                         *)
(* Effectiveness is in thousandths, dimension weights in percent, so       *)
(* scores are in hundred-thousandths; criticality is in ten-thousandths.   *)
(***************************************************************************)
EXTENDS Integers, FiniteSets, FiniteSetsExt

CONSTANTS
  Surfaces,           \* what the organization may protect: records, see below
  Estates,            \* what may be on the surfaces: records, see below
  CovCallers,         \* API keys that recalculate, and runs of the job
  CovKeys,            \* the API keys among them
  Tolerances,         \* recommendation_risk_tolerance, in percent
  MaxRecommendations,
  CovNone,
  MaxSnapshots,       \* bound: rows of coverage_snapshots
  MaxStamp,           \* bound: values of calculated_at
  MaxEstates,         \* bound: changes of the estate
  MaxPolicies         \* bound: updates of the policy

\* A surface has a type and the number of sensitive words in its name.  An estate maps the
\* surfaces that exist to what is on them, and has the capabilities of the organization (a
\* browser domain is also marked when its tool is approved or conditional):
\* on a repository, a database, a RAG index or an MCP server a set of deployments, on a
\* browser domain whether the policy is enabled, on an agent whether it is active and
\* whether the organization has a scope policy.
ASSUME CoverageAssumption ==
  /\ CovKeys \subseteq CovCallers /\ MaxRecommendations \in Nat /\ Tolerances \subseteq 0 .. 100
  /\ MaxStamp \in Nat
  /\ \A e \in Estates : DOMAIN e.on \subseteq Surfaces

-----------------------------------------------------------------------------
(* The inventory. *)

\* criticality, and risk_weight, which equals it at the requirement of 1.
Criticality(s) ==
  LET sensitivity == IF s.type = "browser_ai" THEN (IF s.approved THEN 40 ELSE 70)
                     ELSE IF s.type = "ai_agent" THEN 70
                     ELSE Min({40 + 15 * s.words, 100})
      business == IF s.type = "database" THEN 80 ELSE IF s.type = "browser_ai" THEN 60 ELSE 70
      exposure == [repository |-> 60, database |-> 50, rag |-> 70, mcp |-> 70,
                   browser_ai |-> 80, ai_agent |-> 70][s.type]
  IN 35 * sensitivity + 30 * business + 20 * exposure + 15 * 60

DecoyStatus(d) ==
  CASE d.status \in {"failed", "verification_failed", "failed_activation", "drift_detected"} -> "failed"
    [] d.status \in {"retired", "rolled_back", "cancelled", "rejected"} -> "inactive"
    [] d.status = "expired" \/ d.expiry = "past" -> "expired"
    [] d.status \in {"deployed", "active"} -> "active"
    [] OTHER -> "inactive"

\* control_effectiveness: the verification counts in full while it is recent.
ControlEffectiveness(status, believability, verified) ==
  IF status # "active" THEN 0
  ELSE 500 + 3 * believability + [none |-> 0, recent |-> 200, old |-> 80][verified]

CovControl(type, ref, status, dimension, effectiveness) ==
  [type |-> type, ref |-> ref, status |-> status, dimension |-> dimension,
   effectiveness |-> IF status = "active" THEN effectiveness ELSE 0]

\* _repository_surfaces, _database_surfaces, _rag_mcp_surfaces: one deployment.
DeploymentControls(type, d) ==
  LET status == DecoyStatus(d)
      verified == IF type \in {"rag", "mcp"} THEN d.monitored ELSE d.deployed
      believability == IF type = "database" THEN 75 ELSE 70
      when(cond, controls) == IF cond /\ status = "active" THEN controls ELSE {}
  IN {CovControl("decoy", <<"decoy", d.id>>, status, "placement",
                 ControlEffectiveness(status, believability, verified))}
     \cup when(d.monitored # "none",
               {CovControl("sensor", <<"sensor", d.id>>, "active", "sensor", 850),
                CovControl("monitoring", <<"health", d.id>>, "active", "health", 850)})
     \cup when(type = "repository" /\ d.expiry # "none",
               {CovControl("decoy", <<"lifecycle", d.id>>, "active", "lifecycle", 800)})
     \cup when(type \in {"rag", "mcp"} /\ d.proven,
               {CovControl("decoy", <<"verify", d.id>>, "active", "verification", 850)})

\* _browser_surfaces: an enabled policy counts as a decoy and as a sensor.
BrowserControls(enabled) ==
  IF ~enabled THEN {}
  ELSE {CovControl("sensor", <<"browser">>, "active", "sensor", 800),
        CovControl("decoy", <<"policy">>, "active", "placement", 750),
        CovControl("monitoring", <<"health">>, "active", "health", 800)}

\* _agent_surfaces
AgentControls(agent) ==
  IF ~agent.active THEN {}
  ELSE {CovControl("sensor", <<"agent">>, "active", "sensor", 800),
        CovControl("monitoring", <<"health">>, "active", "health", 800)}
       \cup IF ~agent.policy THEN {}
            ELSE {CovControl("decoy", <<"scope">>, "active", "placement", 750),
                  CovControl("monitoring", <<"identity">>, "active", "identity", 800)}

\* add_capability_controls
CapabilityControls(caps) ==
  {c \in {CovControl("monitoring", <<"signed">>, "active", "identity", 900),
          CovControl("alerting", <<"alerts">>, "active", "alerting", 850),
          CovControl("incident_response", <<"incidents">>, "active", "incident", 800)} :
     c.ref[1] \in caps}

\* build_inventory: the controls on a surface; the capabilities apply where something on
\* the surface is active.
BuildInventory(estate, s) ==
  LET on == estate.on[s]
      own == CASE s.type = "browser_ai" -> BrowserControls(on)
               [] s.type = "ai_agent" -> AgentControls(on)
               [] OTHER -> UNION {DeploymentControls(s.type, d) : d \in on}
  IN own \cup IF \E c \in own : c.status = "active" THEN CapabilityControls(estate.caps) ELSE {}

-----------------------------------------------------------------------------
(* The formula. *)

DimensionWeights ==
  [placement |-> 22, sensor |-> 20, health |-> 16, alerting |-> 10, incident |-> 8,
   lifecycle |-> 8, identity |-> 6, verification |-> 6]

\* _dimension_score
DimensionScore(controls, dimension) ==
  Max({0} \cup {c.effectiveness : c \in {x \in controls : x.dimension = dimension /\ x.status = "active"}})

\* The weighted sum over all dimensions.
WeightedScore(controls) ==
  LET credit(d) == DimensionScore(controls, d) * DimensionWeights[d] IN
  credit("placement") + credit("sensor") + credit("health") + credit("alerting")
    + credit("incident") + credit("lifecycle") + credit("identity") + credit("verification")

ActivePlacement(controls) ==
  \E c \in controls : c.type = "decoy" /\ c.dimension = "placement" /\ c.status = "active"
Diversity(controls) == Cardinality({c.type : c \in {x \in controls : x.status = "active"}})

\* diversity_bonus
DiversityBonus(diversity) == Min({10000, Max({0, diversity - 1}) * 5000})

\* Mutant: the bonus does not ask for placement.
SurfaceScoreMutant(controls, crossSurface) ==
  Min({100000, WeightedScore(controls) + (IF crossSurface THEN 4000 ELSE 0) + DiversityBonus(Diversity(controls))})

\* compute_surface_coverage
SurfaceScore(controls, crossSurface) ==
  LET bonus == IF DimensionScore(controls, "placement") > 0
               THEN DiversityBonus(Diversity(controls)) ELSE 0
  IN Min({100000, WeightedScore(controls) + (IF crossSurface THEN 4000 ELSE 0) + bonus})

\* detect_gaps: the gaps of a surface with the share, in percent, of its risk weight that
\* closing them gains.
DetectGaps(s, controls, crossSurface) ==
  LET decoy == ActivePlacement(controls)
      some(type) == \E c \in controls : c.type = type /\ c.status = "active"
      in(status) == \E c \in controls : c.status = status
      gap(cond, type, share) == IF cond THEN {[type |-> type, share |-> share]} ELSE {}
  IN gap(~decoy /\ in("expired"), "expired_not_replaced", 100)
     \cup gap(~decoy /\ ~in("expired"), "no_decoy", 100)
     \cup gap(decoy /\ ~some("sensor"), "decoy_no_sensor", 70)
     \cup gap(in("failed"), "monitoring_activation_failed", 60)
     \cup gap(decoy /\ Diversity(controls) <= 1 /\ Criticality(s) >= 6000, "fragile_single_control", 30)
     \cup gap(decoy /\ ~crossSurface /\ Criticality(s) >= 7000, "no_cross_surface", 20)

Action(type, gap) ==
  CASE gap = "no_decoy" /\ type = "browser_ai" -> "add_browser_policy"
    [] gap = "no_decoy" /\ type = "ai_agent" -> "add_agent_scope_policy"
    [] gap = "no_decoy" -> "add_decoy"
    [] gap = "expired_not_replaced" -> "replace_expired"
    [] gap = "decoy_no_sensor" -> "add_sensor"
    [] gap = "monitoring_activation_failed" -> "repair_sensor"
    [] OTHER -> "diversify_controls"

\* _recommendation: what a gap recommends, with the priority up to a constant factor (each
\* of the divisions is exact).
Recommendation(s, gap) ==
  LET action == Action(s.type, gap.type)
      gain == Criticality(s) * gap.share
      risk == [repository |-> 30, database |-> 50, rag |-> 35, mcp |-> 35,
               browser_ai |-> 20, ai_agent |-> 20][s.type]
      effort == IF action \in {"add_decoy", "replace_expired"} THEN 40 ELSE 30
      benefit == IF action = "add_sensor" THEN 92 ELSE 100
  IN [surface |-> s, action |-> action, gain |-> gain, risk |-> risk,
      priority |-> (Criticality(s) \div 25) * (gain \div 250) * (benefit \div 4)
                    * ((1000 - 4 * risk - 2 * effort) \div 20)]

\* build_recommendations: without what is too risky for its gain, once per surface and
\* action (the first has the largest gain), and the best of them.
BuildRecommendations(gaps, tolerance) ==
  LET all == UNION {{Recommendation(s, g) : g \in gaps[s]} : s \in DOMAIN gaps}
      safe == {r \in all : ~(r.risk > tolerance /\ r.gain < 300000)}
      once == {r \in safe : \A q \in safe :
                 q.surface = r.surface /\ q.action = r.action => q.gain <= r.gain}
  IN {best \in SUBSET once :
        /\ Cardinality(best) = Min({MaxRecommendations, Cardinality(once)})
        /\ \A r \in best, q \in once \ best : r.priority >= q.priority}

\* _source_state_hash: what a calculation saw.
SourceState(estate) ==
  [s \in DOMAIN estate.on |-> {<<c.type, c.ref, c.status>> : c \in BuildInventory(estate, s)}]

\* calculate; recommended is one of the sets of build_recommendations.
CrossSurface(estate) ==
  Cardinality({s.type : s \in {x \in DOMAIN estate.on : ActivePlacement(BuildInventory(estate, x))}}) >= 2

CoverageResult(estate, recommended) ==
  LET controls(s) == BuildInventory(estate, s)
      cross == CrossSurface(estate)
  IN [state |-> SourceState(estate),
      score |-> [s \in DOMAIN estate.on |-> SurfaceScore(controls(s), cross)],
      gaps |-> [s \in DOMAIN estate.on |-> {g.type : g \in DetectGaps(s, controls(s), cross)}],
      recommended |-> recommended]

Recommended(estate, tolerance) ==
  BuildRecommendations([s \in DOMAIN estate.on |->
    DetectGaps(s, BuildInventory(estate, s), CrossSurface(estate))], tolerance)

-----------------------------------------------------------------------------
(* Snapshots. *)

VARIABLES
  estate,        \* what is on the surfaces now
  snapshots,     \* coverage_snapshots
  knownSurfaces, \* coverage_surfaces
  decisions,     \* per snapshot and recommendation that was decided: accepted or dismissed
  covPolicy,     \* coverage_policies: version and tolerance; version 0 while there is no row
  calculation,   \* per caller: its recalculation
  covUpdate,     \* per key: the policy version it has read
  estateChanges, policyChanges

covVars == <<estate, snapshots, knownSurfaces, decisions, covPolicy, calculation, covUpdate,
             estateChanges, policyChanges>>

CovInit ==
  /\ estate \in Estates /\ snapshots = {} /\ knownSurfaces = {} /\ decisions = {}
  /\ covPolicy = [version |-> 0, tolerance |-> 60]
  /\ calculation = [c \in CovCallers |-> CovNone] /\ covUpdate = [k \in CovKeys |-> CovNone]
  /\ estateChanges = 0 /\ policyChanges = 0

\* The other components deploy, verify, expire and retire; an agent or a policy changes.
EstateChanges(e) ==
  /\ estateChanges < MaxEstates /\ e # estate
  /\ estate' = e /\ estateChanges' = estateChanges + 1
  /\ UNCHANGED <<snapshots, knownSurfaces, decisions, covPolicy, calculation, covUpdate, policyChanges>>

\* A run of the job that holds its advisory lock; the lock is given back before the commit of
\* job_session.
HoldsJobLock(c) == c \notin CovKeys /\ calculation[c] # CovNone /\ ~calculation[c].looked

\* engine.calculate, in a request or in a run of the job; the requests of a key exclude each
\* other, a run of the job those that still hold the lock.
Calculate(c) ==
  /\ calculation[c] = CovNone
  /\ IF c \in CovKeys THEN covUpdate[c] = CovNone ELSE \A d \in CovCallers : ~HoldsJobLock(d)
  /\ Cardinality(snapshots) < MaxSnapshots
  /\ \E recommended \in Recommended(estate, covPolicy.tolerance) :
       calculation' = [calculation EXCEPT ![c] =
         [result |-> CoverageResult(estate, recommended), at |-> 0, looked |-> FALSE,
          known |-> {}, new |-> {}]]
  /\ UNCHANGED <<estate, snapshots, knownSurfaces, decisions, covPolicy, covUpdate, estateChanges, policyChanges>>

LatestSnapshot == CHOOSE s \in snapshots : \A t \in snapshots : t.at <= s.at

\* Mutant: the latest snapshot is not looked at.
UnchangedMutant(result) == FALSE

\* persist_snapshot: the latest snapshot has the same source state.
Unchanged(result) == snapshots # {} /\ LatestSnapshot.state = result.state

\* persist_snapshot: calculated_at, after every other one so far ...
NextStamp ==
  1 + Max({0} \cup {s.at : s \in snapshots}
              \cup {calculation[c].at : c \in {d \in CovCallers : calculation[d] # CovNone}})

StampSnapshot(c) ==
  /\ calculation[c] # CovNone /\ calculation[c].at = 0 /\ NextStamp <= MaxStamp
  /\ calculation' = [calculation EXCEPT ![c].at = NextStamp]
  /\ UNCHANGED <<estate, snapshots, knownSurfaces, decisions, covPolicy, covUpdate, estateChanges, policyChanges>>

\* ... and then the latest snapshot, up to the commit; the surfaces without a row will be
\* inserted.  known (a history variable) is what was stored when it looked.
PersistSnapshot(c) ==
  LET x == calculation[c] IN
  /\ x # CovNone /\ x.at > 0 /\ ~x.looked
  /\ calculation' = [calculation EXCEPT ![c] =
       IF Unchanged(x.result) THEN CovNone
       ELSE [result |-> x.result, at |-> x.at, looked |-> TRUE, known |-> {s.at : s \in snapshots},
             new |-> DOMAIN x.result.score \ knownSurfaces]]
  /\ UNCHANGED <<estate, snapshots, knownSurfaces, decisions, covPolicy, covUpdate, estateChanges, policyChanges>>

\* The commit of get_db or job_session: uq_coverage_surface refuses a surface that another
\* recalculation has inserted meanwhile, and with it the snapshot.
CommitSnapshot(c) ==
  LET x == calculation[c] IN
  /\ x # CovNone /\ x.looked /\ Cardinality(snapshots) < MaxSnapshots
  /\ IF x.new \cap knownSurfaces # {} THEN UNCHANGED <<snapshots, knownSurfaces>>
     ELSE /\ snapshots' = snapshots \cup
               {[at |-> x.at, by |-> c, known |-> x.known, state |-> x.result.state,
                 score |-> x.result.score, gaps |-> x.result.gaps, recommended |-> x.result.recommended]}
          /\ knownSurfaces' = knownSurfaces \cup x.new
  /\ calculation' = [calculation EXCEPT ![c] = CovNone]
  /\ UNCHANGED <<estate, decisions, covPolicy, covUpdate, estateChanges, policyChanges>>

\* The process or the connection ends first.
CalculationFails(c) ==
  /\ calculation[c] # CovNone /\ calculation' = [calculation EXCEPT ![c] = CovNone]
  /\ UNCHANGED <<estate, snapshots, knownSurfaces, decisions, covPolicy, covUpdate, estateChanges, policyChanges>>

\* accept_recommendation, dismiss_recommendation: whatever the recommendation is.
Decide(snapshot, r, decision) ==
  /\ decisions' = {d \in decisions : d.at # snapshot.at \/ d.rec # r}
                  \cup {[at |-> snapshot.at, rec |-> r, status |-> decision]}
  /\ UNCHANGED <<estate, snapshots, knownSurfaces, covPolicy, calculation, covUpdate, estateChanges, policyChanges>>

\* update_policy: upsert_policy reads the row ...
ReadCoveragePolicy(k) ==
  /\ covUpdate[k] = CovNone /\ calculation[k] = CovNone /\ policyChanges < MaxPolicies
  /\ covUpdate' = [covUpdate EXCEPT ![k] = [version |-> covPolicy.version]]
  /\ policyChanges' = policyChanges + 1
  /\ UNCHANGED <<estate, snapshots, knownSurfaces, decisions, covPolicy, calculation, estateChanges>>

\* ... and writes it; of two first rows uq_coverage_policy_org refuses the second.
WriteCoveragePolicy(k, tolerance) ==
  LET read == covUpdate[k] IN
  /\ read # CovNone /\ covUpdate' = [covUpdate EXCEPT ![k] = CovNone]
  /\ covPolicy' = IF read.version = 0 /\ covPolicy.version > 0 THEN covPolicy
                  ELSE [version |-> read.version + 1, tolerance |-> tolerance]
  /\ UNCHANGED <<estate, snapshots, knownSurfaces, decisions, calculation, estateChanges, policyChanges>>

CovNext ==
  \/ \E e \in Estates : EstateChanges(e)
  \/ \E c \in CovCallers : Calculate(c) \/ StampSnapshot(c) \/ PersistSnapshot(c)
                         \/ CommitSnapshot(c) \/ CalculationFails(c)
  \/ \E s \in snapshots : \E r \in s.recommended : Decide(s, r, "accepted") \/ Decide(s, r, "dismissed")
  \/ \E k \in CovKeys : ReadCoveragePolicy(k) \/ \E t \in Tolerances : WriteCoveragePolicy(k, t)

CovSpec == CovInit /\ [][CovNext]_covVars

-----------------------------------------------------------------------------
CovTypeOK ==
  /\ \A s \in snapshots : s.at \in Nat \ {0} /\ s.by \in CovCallers
  /\ \A d \in decisions : \E s \in snapshots : s.at = d.at /\ d.rec \in s.recommended

\* A surface without an active decoy is not covered: whatever sensors, monitors and
\* capabilities there are, its score in a snapshot stays below the default
\* minimum_acceptable_score of 0.6, and the snapshot has a gap for it.
UncoveredIsReported ==
  \A s \in snapshots : \A x \in DOMAIN s.score :
    ~(\E c \in s.state[x] : c[1] = "decoy" /\ c[3] = "active") =>
      s.score[x] < 60000 /\ s.gaps[x] \cap {"no_decoy", "expired_not_replaced"} # {}

\* persist_snapshot repeats nothing that is stored: of two successive snapshots of one source
\* state the second was under way before the first was committed, or had found a still later
\* snapshot.  Neither the advisory lock of the job nor anything else excludes those cases.
RepeatsAreConcurrent ==
  \A s, t \in snapshots :
    s.at < t.at /\ s.state = t.state /\ ~(\E u \in snapshots : s.at < u.at /\ u.at < t.at) =>
      s.at \notin t.known \/ \E u \in snapshots : t.at < u.at /\ u.at \in t.known
=============================================================================
