------------------------------ MODULE Learning ------------------------------
(***************************************************************************)
(* Controlled learning: the outcomes of placement recommendations and the  *)
(* feedback of analysts (repositories/learning.py), the calibration that   *)
(* turns outcomes into candidate weights (services/learning/calibration.py,*)
(* jobs/learning_calibration.py) and the review of a candidate until it is *)
(* the active version (api/learning.py, services/learning/versions.py).    *)
(*                                                                         *)
(* A request decides on the version it loaded and writes it later.  Two    *)
(* requests with the same API key exclude each other, because both write   *)
(* the row of the key; requests with different keys interleave.            *)
(***************************************************************************)
EXTENDS Integers, FiniteSets

CONSTANTS
  LearnKeys,        \* API keys of the organization
  Versions,         \* identifiers of rows of learning_model_versions
  Observations,     \* outcomes that can be recorded: records, see below
  FeedbackTypes, FeedbackTargets,
  MinSamples, MinActors,
  MaxContribution,  \* the share, in percent, of the actors' outcomes one actor may have
  MinHours, MinHealth,
  LearnNone,
  MaxRevisions      \* bound: revisions of one analyst's feedback on one target

\* An observation has the recommendation, whose zone is its cohort, the type, the actor or
\* LearnNone, and whether its window was long enough and its monitoring healthy.
ASSUME LearnBounds ==
  /\ MinSamples \in Nat \ {0} /\ MinActors \in Nat /\ MaxContribution \in 0 .. 100
  /\ LearnNone \notin LearnKeys /\ LearnNone \notin Versions /\ "unread" \notin Versions
  /\ IsFiniteSet(Observations)

-----------------------------------------------------------------------------
(* Calibration. *)

\* OPERATIONAL_OUTCOMES and attribute
Attributable(o) ==
  /\ o.type \notin {"deployment_failed", "rolled_back"}
  /\ o.type = "not_triggered" => o.hours >= MinHours /\ o.health >= MinHealth

\* smoothed_rate, in ten-thousandths.
SmoothedRate(successes, total) == ((successes + 1) * 10000 + (total + 2) \div 2) \div (total + 2)

Cohort(rows, zone) == {o \in rows : o.zone = zone}
ActorsOf(rows) == {o.actor : o \in rows} \ {LearnNone}

\* Mutant: it is enough that the whole batch has the samples.
SufficientMutant(rows) ==
  LET byActors == {o \in rows : o.actor # LearnNone} IN
  \A a \in ActorsOf(rows) : Cardinality({o \in byActors : o.actor = a}) * 100
                               <= MaxContribution * Cardinality(byActors)

\* _cohort_metrics: enough samples, of enough actors when people contributed at all, and
\* no actor who dominates.
Sufficient(rows) ==
  LET byActors == {o \in rows : o.actor # LearnNone}
      dominated == \E a \in ActorsOf(rows) :
        Cardinality({o \in byActors : o.actor = a}) * 100 > MaxContribution * Cardinality(byActors)
  IN /\ Cardinality(rows) >= MinSamples /\ ~dominated
     /\ Cardinality(ActorsOf(rows)) >= MinActors \/ byActors = {}

\* build_candidate: the priors of a candidate that starts from base, or LearnNone when the
\* evidence is too thin for one.
BuildCandidate(observed, base) ==
  LET usable == {o \in observed : Attributable(o)}
      moved == {z \in {o.zone : o \in usable} : Sufficient(Cohort(usable, z))}
      accepted(z) == {o \in Cohort(usable, z) : o.type \in {"accepted", "deployed"}}
  IN IF Cardinality(usable) < MinSamples THEN LearnNone
     ELSE [z \in DOMAIN base \cup moved |->
             IF z \in moved
             THEN SmoothedRate(Cardinality(accepted(z)), Cardinality(Cohort(usable, z)))
             ELSE base[z]]

NoPriors == [z \in {} |-> 0]

-----------------------------------------------------------------------------
(* Versions. *)

\* ALLOWED_TRANSITIONS
AllowedTransitions ==
  [candidate |-> {"under_review", "rejected"}, under_review |-> {"approved", "rejected"},
   approved |-> {"active", "rejected"}, active |-> {"rolled_back", "archived"},
   rejected |-> {"archived"}, rolled_back |-> {"archived", "active"}, archived |-> {}]

\* The targets of the endpoints.
Targets == {"under_review", "approved", "rejected", "active", "rolled_back"}

\* The rows of learning_model_versions, and the requests that review them.
Zones == {o.zone : o \in Observations}
VersionRows(zones) ==
  [status : DOMAIN AllowedTransitions, requester : LearnKeys \cup {LearnNone},
   approver : LearnKeys \cup {LearnNone}, priors : [zones -> Nat]]
ReviewRows == [version : Versions, target : Targets, previous : Versions \cup {"unread", LearnNone}]

ASSUME LearnRows == \A zones \in SUBSET Zones : LearnNone \notin VersionRows(zones)

VARIABLES
  outcomes,     \* placement_outcomes
  versions,     \* learning_model_versions, LearnNone for a row that does not exist
  review,       \* per key, its request under way: the version, the target and the one to archive
  feedback,     \* analyst_feedback: per key and target, the types of its revisions
  recalibrated  \* a run of the job has loaded its baseline: the weights

learnVars == <<outcomes, versions, review, feedback, recalibrated>>

Existing == {v \in Versions : versions[v] # LearnNone}
Active == {v \in Existing : versions[v].status = "active"}

LearnInit ==
  /\ outcomes = {} /\ versions = [v \in Versions |-> LearnNone]
  /\ review = [key \in LearnKeys |-> LearnNone]
  /\ feedback = [x \in LearnKeys \X FeedbackTargets |-> {}]
  /\ recalibrated = LearnNone

\* record_outcome: once per recommendation and type.
RecordOutcome(o) ==
  /\ ~\E p \in outcomes : p.rec = o.rec /\ p.type = o.type
  /\ outcomes' = outcomes \cup {o}
  /\ UNCHANGED <<versions, review, feedback, recalibrated>>

\* record_feedback: the type of the last revision again changes nothing, another one
\* appends a revision.
RecordFeedback(key, target, type) ==
  LET rows == feedback[<<key, target>>]
      last == Cardinality(rows)
  IN
  /\ review[key] = LearnNone /\ last < MaxRevisions /\ <<last, type>> \notin rows
  /\ feedback' = [feedback EXCEPT ![<<key, target>>] = @ \cup {<<last + 1, type>>}]
  /\ UNCHANGED <<outcomes, versions, review, recalibrated>>

\* create_candidate
CreateCandidate(priors, requester) ==
  LET v == CHOOSE x \in Versions : x \notin Existing IN
  /\ Existing # Versions
  /\ versions' = [versions EXCEPT ![v] = [status |-> "candidate", requester |-> requester,
                                          approver |-> LearnNone, priors |-> priors]]

\* run_calibration starts from the defaults, whatever is active.
RunCalibration(key) ==
  LET priors == BuildCandidate(outcomes, NoPriors) IN
  /\ review[key] = LearnNone /\ priors # LearnNone /\ CreateCandidate(priors, key)
  /\ UNCHANGED <<outcomes, review, feedback, recalibrated>>

\* The job starts from an active version ...  One run at a time holds the advisory lock.  A run
\* that begins between the release of the lock and the commit depends on nothing that the
\* commit adds, so the commit is taken to come first.
LoadBaseline ==
  /\ recalibrated = LearnNone
  /\ IF Active = {} THEN recalibrated' = [base |-> NoPriors]
     ELSE \E v \in Active : recalibrated' = [base |-> versions[v].priors]
  /\ UNCHANGED <<outcomes, versions, review, feedback>>

\* ... and adds a candidate that nobody has requested, each time it runs.
JobCalibrates ==
  LET priors == BuildCandidate(outcomes, recalibrated.base) IN
  /\ recalibrated # LearnNone /\ recalibrated' = LearnNone
  /\ IF priors = LearnNone THEN UNCHANGED versions
     ELSE CreateCandidate(priors, LearnNone)
  /\ UNCHANGED <<outcomes, review, feedback>>

\* Mutant: the key that requested a candidate may approve it.
PermittedMutant(v, target, key) == target \in AllowedTransitions[versions[v].status]

\* ensure_transition, ensure_approver_distinct and activate.  The candidates of build_candidate
\* have the current schema and keep the safety constraints.
Permitted(v, target, key) ==
  /\ target \in AllowedTransitions[versions[v].status]
  /\ target = "approved" => versions[v].requester # key

\* _transition loads the version and decides; with the key's row written, no other request
\* of the key is under way.
LoadVersion(key, v, target) ==
  /\ review[key] = LearnNone /\ v \in Existing /\ Permitted(v, target, key)
  /\ review' = [review EXCEPT ![key] = [version |-> v, target |-> target,
                                        previous |-> IF target = "active" THEN "unread" ELSE LearnNone]]
  /\ UNCHANGED <<outcomes, versions, feedback, recalibrated>>

\* set_status of an activation looks for the version to archive.
LoadActive(key) ==
  /\ review[key] # LearnNone /\ review[key].previous = "unread"
  /\ LET others == Active \ {review[key].version} IN
     IF others = {} THEN review' = [review EXCEPT ![key].previous = LearnNone]
     ELSE \E v \in others : review' = [review EXCEPT ![key].previous = v]
  /\ UNCHANGED <<outcomes, versions, feedback, recalibrated>>

\* set_status writes, whatever the rows have become.
SetStatus(key) ==
  LET x == review[key] IN
  /\ x # LearnNone /\ x.previous # "unread"
  /\ versions' =
       [v \in Versions |->
          IF v = x.version
          THEN [versions[v] EXCEPT !.status = x.target,
                                   !.approver = IF x.target = "approved" THEN key ELSE @]
          ELSE IF v = x.previous THEN [versions[v] EXCEPT !.status = "archived"] ELSE versions[v]]
  /\ review' = [review EXCEPT ![key] = LearnNone]
  /\ UNCHANGED <<outcomes, feedback, recalibrated>>

FeedbackStep ==
  \E key \in LearnKeys, t \in FeedbackTargets, type \in FeedbackTypes : RecordFeedback(key, t, type)

CalibrationStep ==
  \/ \E o \in Observations : RecordOutcome(o)
  \/ \E key \in LearnKeys :
       \/ RunCalibration(key)
       \/ \E v \in Versions, target \in Targets : LoadVersion(key, v, target)
       \/ LoadActive(key) \/ SetStatus(key)
  \/ LoadBaseline \/ JobCalibrates

LearnNext == FeedbackStep \/ CalibrationStep

LearnSpec == LearnInit /\ [][LearnNext]_learnVars

-----------------------------------------------------------------------------
LearnTypeOK ==
  /\ outcomes \subseteq Observations
  /\ DOMAIN versions = Versions
  /\ \A v \in Existing : \E zones \in SUBSET Zones : versions[v] \in VersionRows(zones)
  /\ review \in [LearnKeys -> ReviewRows \cup {LearnNone}]
  /\ recalibrated # LearnNone => \E zones \in SUBSET Zones : recalibrated.base \in [zones -> Nat]

\* A version that is or was active was approved, and by another key than the one that
\* requested it, although approvals, rejections and activations that overlap overwrite each
\* other's status.
ActiveIsReviewed ==
  \A v \in Existing :
    versions[v].status \in {"approved", "active", "rolled_back"} =>
      /\ versions[v].approver # LearnNone
      /\ versions[v].requester # versions[v].approver

\* A prior in any version, also one taken over from an earlier active version, has behind it
\* at least MinSamples attributable outcomes of its own zone, and not those of one person.
PriorsAreEarned ==
  \A v \in Existing : \A z \in DOMAIN versions[v].priors :
    LET rows == {o \in Cohort(outcomes, z) : Attributable(o)} IN
    /\ Cardinality(rows) >= MinSamples
    /\ LearnNone \in {o.actor : o \in rows} \/ Cardinality(ActorsOf(rows)) >= MinActors
=============================================================================
