---------------------------- MODULE Reliability -----------------------------
(***************************************************************************)
(* The failover control plane and the restore drills                       *)
(* (api/reliability.py, services/reliability/, repositories/reliability.py)*)
(*                                                                         *)
(* The state of a failover is the newest row of failover_events: a request *)
(* reads it, decides, inserts a row stamped with the time of the flush and *)
(* commits later.  Requests of one key exclude each other, requests of     *)
(* different keys do not.  A drill verifies the database of the session it *)
(* is given and stores its report.                                         *)
(***************************************************************************)
EXTENDS Integers, Sequences, FiniteSets

CONSTANTS
  Operators,         \* API keys with the role operator
  RequiresApproval,  \* regional_failover_requires_approval
  RelNone,
  Histories,         \* what failover_events may hold at first: sequences of rows without stamps
  MaxTransitions,    \* bound: rows added to them
  MaxDrills          \* bound: restore drills and changes of the database

ASSUME ReliabilityAssumption ==
  RequiresApproval \in BOOLEAN /\ MaxTransitions \in Nat /\ MaxDrills \in Nat

FailoverStates ==
  {"normal", "degraded", "failover_requested", "primary_fenced", "standby_promoting",
   "secondary_active", "recovery_validation", "failback_pending", "normal_restored"}

\* _TRANSITIONS
Transitions ==
  [normal |-> {"degraded", "failover_requested"}, degraded |-> {"normal", "failover_requested"},
   failover_requested |-> {"primary_fenced", "normal"}, primary_fenced |-> {"standby_promoting"},
   standby_promoting |-> {"secondary_active"}, secondary_active |-> {"recovery_validation"},
   recovery_validation |-> {"failback_pending", "secondary_active"},
   failback_pending |-> {"normal_restored"}, normal_restored |-> {"normal"}]

\* Mutant: only the known targets are checked, not the state they are reached from.
CanTransitionMutant(current, target) == target \in FailoverStates \ {current}

\* can_transition
CanTransition(current, target) == target \in Transitions[current]

\* The rows of a log that say a state was reached before an instant, and what they say of the
\* primary's fence and the secondary's promotion.
Before(log, state, at) == {e \in log : e.to = state /\ e.at < at}
FencedBefore(log, at) ==
  \E f \in Before(log, "primary_fenced", at) : Before(log, "failover_requested", f.at) # {}
PromotedBefore(log, at) == \E p \in Before(log, "standby_promoting", at) : FencedBefore(log, p.at)
ValidatedBefore(log, at) ==
  \E v \in Before(log, "recovery_validation", at) : Before(log, "secondary_active", v.at) # {}

\* A row at an instant is backed when the log has, in this order, all that leads to its state.
Backed(log, state, at) ==
  /\ state = "primary_fenced" => Before(log, "failover_requested", at) # {}
  /\ state = "standby_promoting" => FencedBefore(log, at)
  /\ state \in {"secondary_active", "recovery_validation", "failback_pending"} => PromotedBefore(log, at)
  /\ state = "recovery_validation" => Before(log, "secondary_active", at) # {}
  /\ state = "failback_pending" => ValidatedBefore(log, at)

\* The log that a history is: its last row has the stamp 0.
HistoryLog(h) ==
  {[at |-> i - Len(h), to |-> h[i].to, requested |-> h[i].requested, approved |-> h[i].approved] :
     i \in DOMAIN h}

\* A history is one that requests before have left.
ASSUME HistoriesAssumption ==
  \A h \in Histories :
    /\ h \in Seq([to : FailoverStates, requested : Operators \cup {RelNone}, approved : Operators \cup {RelNone}])
    /\ \A e \in HistoryLog(h) : Backed(HistoryLog(h), e.to, e.at)

VARIABLES
  failoverLog,    \* failover_events
  failoverCalls,  \* per operator: the request under way
  failoverClock,  \* stamps given out since
  restored,       \* the database a drill looks at: what is wrong with it
  drills          \* restore_drills

failVars == <<failoverLog, failoverCalls, failoverClock>>
drillVars == <<restored, drills>>
relVars == <<failVars, drillVars>>

\* The six checks of verify; that row counts are not negative cannot fail.
Checks ==
  {"tables_exist", "migration_revision", "organization_scope", "encryption_readable",
   "stale_leases_reclaimable", "row_counts_plausible"}

RelInit ==
  /\ \E h \in Histories : failoverLog = HistoryLog(h)
  /\ failoverClock = 0 /\ failoverCalls = [o \in Operators |-> RelNone]
  /\ restored = {} /\ drills = <<>>

\* The newest of a set of rows.
Newest(rows) == CHOOSE e \in rows : \A f \in rows : f.at <= e.at

\* current_state, latest_request
CurrentState == IF failoverLog = {} THEN "normal" ELSE Newest(failoverLog).to
LatestRequest ==
  LET asked == {e \in failoverLog : e.to = "failover_requested"} IN
  IF asked = {} THEN RelNone ELSE Newest(asked)

\* The first read of approve_failover: the request that is pending, and who made it.
ReadRequest(o) ==
  /\ failoverCalls[o] = RelNone /\ LatestRequest # RelNone /\ CurrentState = "failover_requested"
  /\ RequiresApproval => o # LatestRequest.requested
  /\ failoverCalls' = [failoverCalls EXCEPT ![o] =
       [stage |-> "approving", target |-> "primary_fenced",
        requested |-> LatestRequest.requested, approved |-> o, at |-> 0]]
  /\ UNCHANGED <<failoverLog, failoverClock, drillVars>>

\* request_failover, advance and, after its own checks, approve_failover: _transition reads the
\* state and checks that the target can be reached from it.
ReadState(o, target, requested, approved) ==
  /\ CanTransition(CurrentState, target)
  /\ failoverCalls' = [failoverCalls EXCEPT ![o] =
       [stage |-> "read", target |-> target, requested |-> requested,
        approved |-> approved, at |-> 0]]
  /\ UNCHANGED <<failoverLog, failoverClock, drillVars>>

RequestFailover(o) == failoverCalls[o] = RelNone /\ ReadState(o, "failover_requested", o, RelNone)
ApproveFailover(o) ==
  /\ failoverCalls[o] # RelNone /\ failoverCalls[o].stage = "approving"
  /\ ReadState(o, "primary_fenced", failoverCalls[o].requested, o)
Advance(o, target) == failoverCalls[o] = RelNone /\ ReadState(o, target, RelNone, o)

\* record_transition: the row gets its stamp.
RecordTransition(o) ==
  /\ failoverCalls[o] # RelNone /\ failoverCalls[o].stage = "read" /\ failoverClock < MaxTransitions
  /\ failoverClock' = failoverClock + 1
  /\ failoverCalls' = [failoverCalls EXCEPT ![o].stage = "written", ![o].at = failoverClock + 1]
  /\ UNCHANGED <<failoverLog, drillVars>>

\* The audit and the commit.  Who acted is kept for the rows about which it is asked later.
CommitTransition(o) ==
  LET x == failoverCalls[o] IN
  /\ x # RelNone /\ x.stage = "written"
  /\ failoverLog' = failoverLog \cup
       {[at |-> x.at, to |-> x.target, requested |-> x.requested,
         approved |-> IF x.target = "primary_fenced" THEN x.approved ELSE RelNone]}
  /\ failoverCalls' = [failoverCalls EXCEPT ![o] = RelNone]
  /\ UNCHANGED <<failoverClock, drillVars>>

\* A 409 in _transition after the checks of approve_failover, and a request that fails.
FailoverCallEnds(o) ==
  /\ failoverCalls[o] # RelNone
  /\ failoverCalls' = [failoverCalls EXCEPT ![o] = RelNone]
  /\ UNCHANGED <<failoverLog, failoverClock, drillVars>>

FailoverStep ==
  \E o \in Operators :
    \/ ReadRequest(o) \/ RequestFailover(o) \/ ApproveFailover(o)
    \/ \E target \in FailoverStates : Advance(o, target)
    \/ RecordTransition(o) \/ CommitTransition(o) \/ FailoverCallEnds(o)

-----------------------------------------------------------------------------
\* A table, the revision, a column or the key is lost.  Without its tables the database has no
\* column that is missing, so those two checks cannot fail with it.
DatabaseDamaged(check) ==
  /\ Cardinality(restored) < MaxDrills /\ check \notin restored
  /\ restored' = restored \cup {check} /\ UNCHANGED <<failVars, drills>>

\* verify and build_report: a drill passes when every check does.
Verify == Checks \ restored
RunDrill ==
  /\ Len(drills) < MaxDrills
  /\ drills' = Append(drills, [passed |-> Verify = Checks, checks |-> Verify])
  /\ UNCHANGED <<failVars, restored>>

DrillStep ==
  \/ \E check \in Checks \ {"row_counts_plausible"} : DatabaseDamaged(check)
  \/ RunDrill

RelNext == FailoverStep \/ DrillStep

RelSpec == RelInit /\ [][RelNext]_relVars

-----------------------------------------------------------------------------
RelTypeOK == CurrentState \in FailoverStates /\ failoverClock \in 0..MaxTransitions

\* "A secondary is never promoted while the primary may still write", and failback never begins
\* before the recovery was validated: whatever requests overlap, a region becomes active only
\* after a request, a fence and a promotion that were committed before it, in this order, and a
\* failback only after all of these and a validation.
PromotionFollowsFence ==
  \A e \in failoverLog :
    /\ e.to \in {"secondary_active", "failback_pending"} => PromotedBefore(failoverLog, e.at)
    /\ e.to = "failback_pending" => ValidatedBefore(failoverLog, e.at)
=============================================================================
