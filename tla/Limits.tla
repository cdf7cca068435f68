------------------------------- MODULE Limits -------------------------------
(***************************************************************************)
(* The limits that requests meet: the sliding window of RedisRateLimiter   *)
(* (services/rate_limit.py), the fixed windows of MonitoringQuotaGate and  *)
(* the limits of a tenant (services/capacity.py, api/capacity.py).         *)
(*                                                                         *)
(* A request takes the time in its own process and uses it later, in       *)
(* Redis, where other requests come first and keys expire meanwhile.  One  *)
(* unit of time is a second; a minute has Minute of them.  The sliding     *)
(* window is that of one limiter key; requests with the bootstrap key      *)
(* share one without excluding each other.                                 *)
(***************************************************************************)
EXTENDS Integers, FiniteSets

CONSTANTS
  LimitRequests,   \* requests
  LimitWriters,    \* API keys that may change the limits of the tenant
  Rate,            \* limit_per_minute of the sliding window
  PolicyChoices,   \* limits of a tenant that are asked for: [burst, perMinute]
  DefaultPolicy,   \* defaults
  Minute,          \* seconds in a minute
  MaxDelay,        \* bound: seconds between taking the time and using it in Redis
  MaxSeconds,         \* bound: the clock
  LimitNone

\* The limits that may be in force, and the rows they make: updates that overlap mix columns.
Policies == {DefaultPolicy} \cup PolicyChoices
PolicyRows == [burst : {p.burst : p \in Policies}, perMinute : {p.perMinute : p \in Policies}]

ASSUME LimitsAssumption ==
  /\ Rate \in Nat /\ Minute \in Nat \ {0} /\ MaxDelay \in Nat /\ MaxSeconds \in Nat
  /\ IsFiniteSet(LimitRequests)
  /\ Policies \subseteq [burst : Nat, perMinute : Nat]
  /\ LimitNone \notin Nat /\ LimitNone \notin PolicyRows

VARIABLES
  seconds,      \* the clock
  window,       \* the sorted set: the members that are in it, with their scores
  counters,     \* the counters of the quota: value and expiry
  tenantLimits, \* tenant_limits: the row of the organization
  writers,      \* per writer: the call of set_limits under way
  requests      \* per request: where it is, the time it took, the limits it loaded

limitVars == <<seconds, window, counters, tenantLimits, writers, requests>>

\* The keys of a second and of a minute.
BurstKey(t) == <<"s", t>>
SustainedKey(t) == <<"m", t \div Minute>>

\* The expiry that admit gives a counter: one second more than it counts.
CounterTtl(key) == IF key[1] = "s" THEN 2 ELSE Minute + 1

LimitInit ==
  /\ seconds = 0 /\ window = {} /\ counters = {} /\ tenantLimits \in {LimitNone} \cup PolicyChoices
  /\ writers = [w \in LimitWriters |-> LimitNone]
  /\ requests = [r \in LimitRequests |-> [stage |-> "new", at |-> 0]]

Stage(r, stage) == requests' = [requests EXCEPT ![r].stage = stage]

\* Time passes, and Redis drops the counters that expire.  No request waits longer than MaxDelay.
Second ==
  /\ seconds < MaxSeconds
  /\ \A r \in LimitRequests :
       requests[r].stage \in {"timed", "gated", "burst", "untimed_burst", "sustained", "untimed"} =>
         seconds + 1 - requests[r].at <= MaxDelay
  /\ seconds' = seconds + 1
  /\ counters' = {c \in counters : c.expiry = LimitNone \/ c.expiry > seconds + 1}
  /\ UNCHANGED <<window, tenantLimits, writers, requests>>

-----------------------------------------------------------------------------
\* RedisRateLimiter.allow: the time is taken ...
TakeTime(r) ==
  /\ requests[r].stage = "new"
  /\ requests' = [requests EXCEPT ![r] = [stage |-> "timed", at |-> seconds]]
  /\ UNCHANGED <<seconds, window, counters, tenantLimits, writers>>

\* Mutant: the count is read before the request is added.
SlideMutant(r) ==
  LET taken == requests[r].at  kept == {m \in window : m.score > taken - Minute} IN
  /\ requests[r].stage = "timed"
  /\ window' = kept \cup {[member |-> r, score |-> taken]}
  /\ Stage(r, IF Cardinality(kept) > Rate THEN "over" ELSE "allowed")
  /\ UNCHANGED <<seconds, counters, tenantLimits, writers>>

\* ... and one transaction prunes the window, adds the request and counts it.
Slide(r) ==
  LET taken == requests[r].at
      kept == {m \in window : m.score > taken - Minute} \cup {[member |-> r, score |-> taken]} IN
  /\ requests[r].stage = "timed"
  /\ window' = kept
  /\ Stage(r, IF Cardinality(kept) > Rate THEN "over" ELSE "allowed")
  /\ UNCHANGED <<seconds, counters, tenantLimits, writers>>

\* A request over the limit takes itself out again, unless that fails.
TakeOut(r) ==
  /\ requests[r].stage = "over"
  /\ \/ window' = {m \in window : m.member # r} \/ window' = window
  /\ Stage(r, "denied") /\ UNCHANGED <<seconds, counters, tenantLimits, writers>>

\* Redis fails before the transaction: the answer is redis_fail_mode, closed.
RateStoreFails(r) ==
  /\ requests[r].stage = "timed" /\ Stage(r, "denied")
  /\ UNCHANGED <<seconds, window, counters, tenantLimits, writers>>

RateStep ==
  \/ Second
  \/ \E r \in LimitRequests : TakeTime(r) \/ Slide(r) \/ TakeOut(r) \/ RateStoreFails(r)

-----------------------------------------------------------------------------
\* limits: the row of the organization, or the defaults.
TenantPolicy == IF tenantLimits = LimitNone THEN DefaultPolicy ELSE tenantLimits

\* _validate: positive, and the burst of a second not below its share.
Valid(p) == p.burst > 0 /\ p.perMinute > 0 /\ p.burst * Minute >= p.perMinute

\* set_limits validates what is asked for and loads the row ...
LoadRow(w, p) ==
  /\ writers[w] = LimitNone /\ Valid(p)
  /\ writers' = [writers EXCEPT ![w] = [loaded |-> tenantLimits, asked |-> p]]
  /\ UNCHANGED <<seconds, window, counters, tenantLimits, requests>>

\* ... and inserts it, or updates the columns that differ from what was loaded.  The second of
\* two inserts fails.  A writer calls once.
SetLimits(w) ==
  LET x == writers[w] IN
  /\ x # LimitNone /\ x.asked # LimitNone
  /\ writers' = [writers EXCEPT ![w].asked = LimitNone]
  /\ tenantLimits' =
       IF x.loaded = LimitNone THEN IF tenantLimits = LimitNone THEN x.asked ELSE tenantLimits
       ELSE [column \in DOMAIN tenantLimits |->
               IF x.asked[column] # x.loaded[column] THEN x.asked[column] ELSE tenantLimits[column]]
  /\ UNCHANGED <<seconds, window, counters, requests>>

\* The handler loads the limits and admit takes the time.
LoadLimits(r) ==
  /\ requests[r].stage = "new"
  /\ requests' = [requests EXCEPT ![r] =
       [stage |-> "gated", at |-> seconds, policy |-> TenantPolicy, burst |-> 0, sustained |-> 0]]
  /\ UNCHANGED <<seconds, window, counters, tenantLimits, writers>>

\* incr: the value it returns, and the counters after it.  A new counter has no expiry yet.
Value(key) == IF \E c \in counters : c.key = key THEN (CHOOSE c \in counters : c.key = key).value + 1 ELSE 1
Incremented(key) ==
  {c \in counters : c.key # key} \cup
    {[key |-> key, value |-> Value(key),
      expiry |-> IF Value(key) = 1 THEN LimitNone ELSE (CHOOSE c \in counters : c.key = key).expiry]}

\* _increment: incr, and for the first request of a counter a second command, expire.
IncrementBurst(r) ==
  LET key == BurstKey(requests[r].at) IN
  /\ requests[r].stage = "gated" /\ counters' = Incremented(key)
  /\ requests' = [requests EXCEPT ![r].burst = Value(key),
                                  ![r].stage = IF Value(key) = 1 THEN "untimed_burst" ELSE "burst"]
  /\ UNCHANGED <<seconds, window, tenantLimits, writers>>
IncrementSustained(r) ==
  LET key == SustainedKey(requests[r].at) IN
  /\ requests[r].stage = "burst" /\ counters' = Incremented(key)
  /\ requests' = [requests EXCEPT ![r].sustained = Value(key),
                                  ![r].stage = IF Value(key) = 1 THEN "untimed" ELSE "sustained"]
  /\ UNCHANGED <<seconds, window, tenantLimits, writers>>

Expire(r, stage, key, next) ==
  /\ requests[r].stage = stage
  /\ counters' = {IF c.key = key THEN [c EXCEPT !.expiry = seconds + CounterTtl(key)] ELSE c : c \in counters}
  /\ Stage(r, next) /\ UNCHANGED <<seconds, window, tenantLimits, writers>>
ExpireBurst(r) == Expire(r, "untimed_burst", BurstKey(requests[r].at), "burst")
ExpireSustained(r) == Expire(r, "untimed", SustainedKey(requests[r].at), "sustained")

\* Mutant: a request is admitted when its counters cannot be reached.
QuotaStoreFailsMutant(r) ==
  /\ requests[r].stage \in {"gated", "burst", "untimed_burst", "untimed"} /\ Stage(r, "admitted")
  /\ UNCHANGED <<seconds, window, counters, tenantLimits, writers>>

\* quota_store_unavailable, and a process that dies: what was counted stays, and a counter that
\* had no expiry yet never gets one.
QuotaStoreFails(r) ==
  /\ requests[r].stage \in {"gated", "burst", "untimed_burst", "untimed"} /\ Stage(r, "denied")
  /\ UNCHANGED <<seconds, window, counters, tenantLimits, writers>>

\* The decision of admit.
DecideQuota(r) ==
  LET x == requests[r] IN
  /\ x.stage = "sustained"
  /\ Stage(r, IF x.burst > x.policy.burst \/ x.sustained > x.policy.perMinute THEN "denied" ELSE "admitted")
  /\ UNCHANGED <<seconds, window, counters, tenantLimits, writers>>

PolicyStep == \E w \in LimitWriters : SetLimits(w) \/ \E p \in PolicyChoices : LoadRow(w, p)

QuotaStep ==
  \/ Second
  \/ \E r \in LimitRequests :
       \/ LoadLimits(r) \/ IncrementBurst(r) \/ ExpireBurst(r) \/ IncrementSustained(r)
       \/ ExpireSustained(r) \/ DecideQuota(r) \/ QuotaStoreFails(r)

LimitNext == RateStep \/ QuotaStep \/ PolicyStep

LimitSpec == LimitInit /\ [][LimitNext]_limitVars

-----------------------------------------------------------------------------
RateRows == [stage : {"new", "timed", "allowed", "over", "denied"}, at : Nat]
QuotaRows ==
  [stage : {"gated", "untimed_burst", "burst", "untimed", "sustained", "denied", "admitted"},
   at : Nat, policy : PolicyRows, burst : Nat, sustained : Nat]
CounterRows == [key : {"s", "m"} \X Nat, value : Nat, expiry : Nat \cup {LimitNone}]
WriterRows == [loaded : PolicyRows \cup {LimitNone}, asked : PolicyRows \cup {LimitNone}]

LimitTypeOK ==
  /\ seconds \in 0..MaxSeconds
  /\ requests \in [LimitRequests -> RateRows \cup QuotaRows]
  /\ tenantLimits \in PolicyRows \cup {LimitNone}
  /\ writers \in [LimitWriters -> WriterRows \cup {LimitNone}]
  /\ counters \subseteq CounterRows /\ \A c, d \in counters : c.key = d.key => c = d

\* Although requests are counted later than the time they carry, no more than Rate of them are
\* allowed in any interval that is shorter than a minute by the delay.
Allowed(from, to) == {r \in LimitRequests : requests[r].stage = "allowed" /\ requests[r].at \in from..to}
SlidingWindowHolds ==
  \A t \in 0..seconds : Cardinality(Allowed(t, t + Minute - 1 - MaxDelay)) <= Rate

\* A request that is late finds the counter of its second, or of its minute, expired and begins
\* it anew, at most once in the life of a counter.  So the requests of a second that are
\* admitted, or of a minute, are no more than that many times a limit that one of them loaded,
\* also when counters lose their expiry because a process dies between the two commands that
\* set them up.
Admitted(key) ==
  {r \in LimitRequests : /\ requests[r].stage = "admitted"
                         /\ key \in {BurstKey(requests[r].at), SustainedKey(requests[r].at)}}
Begun(key, span) == 1 + (span - 1 + MaxDelay) \div CounterTtl(key)
FixedWindowsHold ==
  \A t \in 0..seconds :
    LET s == Admitted(BurstKey(t))  m == Admitted(SustainedKey(t)) IN
    /\ s = {} \/ \E r \in s : Cardinality(s) <= Begun(BurstKey(t), 1) * requests[r].policy.burst
    /\ m = {} \/ \E r \in m :
         Cardinality(m) <= Begun(SustainedKey(t), Minute) * requests[r].policy.perMinute
=============================================================================
