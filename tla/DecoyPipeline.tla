---------------------------- MODULE DecoyPipeline ----------------------------
(***************************************************************************)
(* From a scanned repository to accepted decoys: context, placement,       *)
(* generation and evaluation (services/pipeline.py and the engines it      *)
(* calls), each a request of its own over the artifacts of the earlier     *)
(* ones.                                                                   *)
(*                                                                         *)
(* A profile is what the scanner found: paths, counts, names.  Scores are  *)
(* integers, in thousandths where the code rounds to three places and in   *)
(* tenths of a point where it rounds to one.  A request whose prerequisite *)
(* is missing (PipelineError) changes nothing.  A generated name is        *)
(* [kind, word]: the words of a repository's vocabulary are compared, not  *)
(* spelled.                                                                *)
(***************************************************************************)
EXTENDS Integers, FiniteSets, FiniteSetsExt, Sequences, Functions

CONSTANTS
  Repositories,    \* ids of scans
  DecoyPlans,      \* ids of generated plans
  Profiles,        \* what a scan may find
  DecoyNone,
  MaxPlans         \* bound: rows of placement_plans

\* Whether a file with secrets is an example is in its path.
ASSUME ProfileAssumption ==
  \A p \in Profiles :
    /\ p.findings \in Nat /\ IsFiniteSet(p.conventions)
    /\ \A s, t \in p.secrets : s.path = t.path => s.example = t.example

VARIABLES
  profiles,        \* repository -> its profile, or DecoyNone
  contexts,        \* rows of context_profiles, oldest first: [repository, data]
  placements,      \* rows of placement_plans, oldest first: [repository, data]
  decoyPlans,      \* plan -> [repository, assets], or DecoyNone
  reports          \* rows of validation_reports: [plan, decoy, decision]

decoyVars == <<profiles, contexts, placements, decoyPlans, reports>>

-----------------------------------------------------------------------------
(* Context: services/context_engine. *)

\* ContextFeatures.evidence_count and ContextScores, in thousandths.
ContextConfidence(p) == Min({1000, p.findings * (IF p.truncated THEN 75 ELSE 100)})

AiExposureRisk(p) ==
  LET weight(S, w) == IF S # {} THEN w ELSE 0
  IN weight(p.mcp, 250) + weight(p.docs, 200) + weight(p.services, 200) + weight(p.secrets, 150)

\* ContextEngine.build: what the later engines read of it.
BuildContext(p) ==
  [conventions |-> p.conventions, word |-> p.word, samples |-> p.samples,
   aiRisk |-> AiExposureRisk(p), confidence |-> ContextConfidence(p)]

-----------------------------------------------------------------------------
(* Placement: services/placement_reasoning. *)

\* _signals, in hundredths: visibility, agent access, insider access, exportability,
\* accidental exposure, plausibility, safety, context alignment, false-positive risk.
Signals ==
  [example_environment_file |-> <<85, 80, 55, 75, 70, 90, 90, 90, 10>>,
   environment_file |-> <<90, 75, 65, 80, 80, 85, 20, 90, 70>>,
   documentation_file |-> <<80, 80, 65, 80, 75, 90, 90, 85, 15>>,
   architecture_document |-> <<85, 85, 65, 80, 70, 85, 85, 90, 15>>,
   rag_document |-> <<85, 95, 60, 85, 75, 80, 80, 90, 20>>,
   ci_cd_file |-> <<80, 75, 60, 70, 65, 85, 70, 85, 30>>,
   mcp_config |-> <<85, 95, 60, 70, 65, 90, 70, 95, 30>>,
   agent_accessible_folder |-> <<80, 90, 60, 75, 70, 80, 85, 85, 20>>,
   legacy_script |-> <<70, 65, 65, 65, 60, 80, 75, 70, 25>>,
   spreadsheet_row |-> <<70, 65, 70, 90, 80, 75, 65, 75, 35>>,
   exportable_report |-> <<80, 75, 70, 95, 85, 80, 80, 80, 20>>,
   database_row |-> <<85, 65, 75, 90, 80, 85, 50, 90, 50>>,
   config_file |-> <<75, 65, 60, 65, 60, 80, 75, 80, 25>>,
   internal_wiki_page |-> <<75, 80, 70, 80, 75, 75, 85, 70, 20>>,
   browser_ai_workflow |-> <<70, 90, 50, 70, 70, 60, 70, 70, 40>>]

Place(type, location, kind, evidence) ==
  [type |-> type, location |-> location, kind |-> kind, evidence |-> Cardinality(evidence)]

\* CandidateDiscovery.discover.
Discover(p, c) ==
  LET secretType(s) == IF s.example THEN "example_environment_file" ELSE "environment_file"
      docType(d) == IF d.design THEN "architecture_document" ELSE "documentation_file"
      some(cond, S) == IF cond THEN S ELSE {}
  IN UNION {
       {Place(secretType(s), s.path, "secret", {s.path} \cup c.conventions) : s \in p.secrets},
       some(p.secrets = {} /\ c.conventions # {},
            {Place("example_environment_file", ".env.example", "secret", c.conventions)}),
       {Place(docType(d), d.path, "document", {d.path}) : d \in p.docs},
       some(c.aiRisk >= 500,
            {Place("rag_document", d.path, "embedding", {d.path}) : d \in p.docs} \cup
            {Place("internal_wiki_page", <<"wiki", d.path>>, "document", {d.path}) : d \in p.docs}),
       some(p.docs # {} /\ c.aiRisk >= 700,
            {Place("browser_ai_workflow", "browser-ai", "agent_asset", {"documentation", "ai"})}),
       some(p.databases # {}, {Place("database_row", "synthetic-row", "database_record", {"database"})}),
       {Place("ci_cd_file", f, "secret", {f}) : f \in p.cicd},
       {Place("config_file", f, "secret", {f}) : f \in p.infrastructure},
       {Place("mcp_config", f, "mcp_config", {f}) : f \in p.mcp},
       some(p.mcp # {} /\ p.docs # {},
            {Place("agent_accessible_folder", "documentation", "agent_asset", {"mcp", "documentation"})}),
       {Place("legacy_script", f, "secret", {f}) : f \in p.folders \cap {"scripts", "legacy", "migrations"}},
       UNION {{Place("spreadsheet_row", f, "spreadsheet_row", {f}), Place("exportable_report", f, "document", {f})} :
                f \in p.folders \cap {"data", "exports", "reports"}}}

\* PlacementScorer.score: priority and confidence, in thousandths.
Priority(type) ==
  LET s == Signals[type]
      quality == 30 * s[1] + 20 * s[2] + 15 * s[3] + 15 * s[4] + 10 * s[5] + 10 * s[6]
  IN (40 * quality + 100 * (25 * Max({s[1], s[2]}) + 20 * s[8] + 15 * s[7]) + 500) \div 1000

Confidence(place, c) ==
  LET s == Signals[place.type]
  IN ((10 * s[7] + 10 * s[8] + c.confidence) * Min({6, 3 + place.evidence}) + 9) \div 18

\* PlacementSafetyFilter.rejection_reasons: a database row always requires a scope that
\* nothing grants.
PlacementAllowed(place) ==
  /\ place.type \notin {"environment_file", "database_row"}
  /\ Signals[place.type][7] >= 65 /\ Signals[place.type][9] <= 45

\* PlacementReasoningEngine.plan: the accepted candidates, with their confidence.
PlanRecommendations(p, c) ==
  {[type |-> x.type, location |-> x.location, kind |-> x.kind, confidence |-> Confidence(x, c)] :
     x \in {y \in Discover(p, c) : PlacementAllowed(y)}}

-----------------------------------------------------------------------------
(* Generation: services/decoy_generation. *)

\* DecoyTemplateRegistry: the kinds with a template, and where each may go.
Templates ==
  [secret |-> {"example_environment_file", "ci_cd_file", "config_file", "legacy_script"},
   document |-> {"architecture_document", "documentation_file", "exportable_report", "internal_wiki_page"},
   database_record |-> {"database_row"}]

HasTemplate(kind, type) == kind \in DOMAIN Templates /\ type \in Templates[kind]

\* PayloadGenerators.generate: the name depends on the kind and the vocabulary alone.
NameOf(kind, c) == [kind |-> kind, word |-> c.word]

\* DecoyGenerationPlanner.generate with DecoyValidationPipeline.validate: what is
\* admitted, has a template and a name that was not observed.
GenerateAssets(plan, c) ==
  {[id |-> <<r.location, r.kind>>, kind |-> r.kind, location |-> r.location,
    name |-> NameOf(r.kind, c), match |-> r.confidence] :
     r \in {x \in plan : /\ x.confidence >= 650 /\ Signals[x.type][9] <= 45
                         /\ HasTemplate(x.kind, x.type)
                         /\ NameOf(x.kind, c) \notin c.samples}}

-----------------------------------------------------------------------------
(* Evaluation: services/believability. *)

\* CollisionChecker.risk in tenths: p.closest is the similarity, in thousandths, of the
\* most similar observed name that is not the candidate itself.
CollisionRisk(asset, c, p) ==
  IF asset.name \in c.samples \cup p.names THEN 1000
  ELSE IF p.closest >= 800 THEN (p.closest * 8 + 5) \div 10 ELSE 0

\* SafetyValidator.evaluate on generated payloads, which are inert: the risk of accidental
\* use, and of a visible marker in the vocabulary (p.marker).
AccidentalUse(kind) == IF kind = "secret" THEN 150 ELSE IF kind = "database_record" THEN 100 ELSE 0
TrapRisk(p) == IF p.marker THEN 1000 ELSE 0

\* DimensionScorer.scores and weighted_average over the believability dimensions, in tenths.
Believability(asset, c, placement) ==
  LET template == HasTemplate(asset.kind, placement.type)
      naming == IF asset.kind = "secret" /\ c.conventions # {} THEN 1000 ELSE 900
      fit(b) == IF b THEN 1000 ELSE 0
      entropy == IF asset.kind = "secret" THEN 900 ELSE 700
  IN (15 * naming + 15 * asset.match + 25 * fit(template)
        + 10 * entropy + 10 * 800 + 10 * 1000 + 42) \div 85

Safety(asset, c, p) ==
  (50 * 1000 + 25 * (1000 - CollisionRisk(asset, c, p))
     + 15 * (1000 - AccidentalUse(asset.kind)) + 10 * (1000 - TrapRisk(p)) + 50) \div 100

\* BelievabilitySafetyEngine.evaluate.
Decision(asset, c, p, placement) ==
  LET collision == CollisionRisk(asset, c, p)
  IN IF TrapRisk(p) > 0 \/ collision >= 800 \/ Safety(asset, c, p) < 700 THEN "reject"
     ELSE IF /\ Believability(asset, c, placement) >= 800 /\ Safety(asset, c, p) >= 850
             /\ collision <= 200
          THEN "accept" ELSE "warn"

\* _recommendation_by_location: of several at one location the last, that is the one with
\* the lowest priority.
RecommendationAt(plan, location) ==
  LET here == {r \in plan : r.location = location}
  IN {r \in here : \A s \in here : Priority(r.type) <= Priority(s.type)}

-----------------------------------------------------------------------------
(* The requests: PipelineService. *)

DecoyInit ==
  /\ profiles = [r \in Repositories |-> DecoyNone]
  /\ contexts = << >> /\ placements = << >>
  /\ decoyPlans = [d \in DecoyPlans |-> DecoyNone]
  /\ reports = {}

\* The newest row of any repository.
LatestMutant(rows, r) ==
  IF rows = << >> THEN DecoyNone ELSE rows[Len(rows)].data

\* ArtifactRepository._latest: the newest row of the repository.
Latest(rows, r) ==
  LET mine == {i \in DOMAIN rows : rows[i].repository = r}
  IN IF mine = {} THEN DecoyNone ELSE rows[Max(mine)].data

ScanRepository(r, p) ==
  /\ profiles[r] = DecoyNone
  /\ profiles' = [profiles EXCEPT ![r] = p]
  /\ UNCHANGED <<contexts, placements, decoyPlans, reports>>

\* plan: a context and a placement plan are added, also when there are some already.
PlanPlacements(r) ==
  LET c == BuildContext(profiles[r])
      row(data) == [repository |-> r, data |-> data]
  IN /\ profiles[r] # DecoyNone
     /\ Len(placements) < MaxPlans
     /\ contexts' = Append(contexts, row(c))
     /\ placements' = Append(placements, row(PlanRecommendations(profiles[r], c)))
     /\ UNCHANGED <<profiles, decoyPlans, reports>>

GenerateDecoys(r, d) ==
  /\ decoyPlans[d] = DecoyNone /\ profiles[r] # DecoyNone
  /\ Latest(contexts, r) # DecoyNone /\ Latest(placements, r) # DecoyNone
  /\ decoyPlans' = [decoyPlans EXCEPT ![d] =
       [repository |-> r, assets |-> GenerateAssets(Latest(placements, r), Latest(contexts, r))]]
  /\ UNCHANGED <<profiles, contexts, placements, reports>>

\* evaluate: against the newest context and placement plan, which need not be those the
\* decoys were generated from; an asset without a recommendation gets no report.
EvaluateDecoys(d) ==
  /\ decoyPlans[d] # DecoyNone
  /\ LET r == decoyPlans[d].repository
         c == Latest(contexts, r)
         plan == Latest(placements, r)
     IN /\ c # DecoyNone /\ plan # DecoyNone
        /\ reports' = reports \cup
             {[plan |-> d, decoy |-> a.id,
               decision |-> Decision(a, c, profiles[r], CHOOSE x \in RecommendationAt(plan, a.location) : TRUE)] :
                a \in {b \in decoyPlans[d].assets : RecommendationAt(plan, b.location) # {}}}
  /\ UNCHANGED <<profiles, contexts, placements, decoyPlans>>

DecoyNext ==
  \/ \E r \in Repositories :
       \/ \E p \in Profiles : ScanRepository(r, p)
       \/ PlanPlacements(r)
       \/ \E d \in DecoyPlans : GenerateDecoys(r, d)
  \/ \E d \in DecoyPlans : EvaluateDecoys(d)

DecoySpec == DecoyInit /\ [][DecoyNext]_decoyVars

-----------------------------------------------------------------------------
(* Properties. *)

DecoyTypeOK ==
  /\ \A d \in DecoyPlans : decoyPlans[d] # DecoyNone => decoyPlans[d].repository \in Repositories
  /\ \A x \in reports : x.decision \in {"accept", "warn", "reject"}

Evaluated(d) == {a \in decoyPlans[d].assets : \E x \in reports : x.plan = d /\ x.decoy = a.id}

\* What the monitors register is safe to have: MonitoringInstrumentationEngine.register keeps
\* one report of a decoy, and not a definite one, so a decoy that a report accepts is accepted
\* by all; its name is none that its repository uses, and it is in an example file, never in
\* one that a program reads.
AcceptedIsSafe ==
  \A x \in reports : x.decision = "accept" =>
    /\ \A y \in reports : y.plan = x.plan /\ y.decoy = x.decoy => y.decision = "accept"
    /\ \A a \in Evaluated(x.plan) : a.id = x.decoy =>
         LET p == profiles[decoyPlans[x.plan].repository]
         IN /\ a.name \notin p.samples \cup p.names
            /\ \A s \in p.secrets : s.path = a.location => s.example
=============================================================================
