------------------------- MODULE ControlPlaneProofs -------------------------
(***************************************************************************)
(* What the small parts of the control plane guarantee for every number of *)
(* requests, keys and rows: the replay guard, the budgets of a judge, the  *)
(* revocation of API keys, the review of learned weights, the order of a   *)
(* failover, the pause of the onboarding, the rate and quota limits, the   *)
(* revocation of a browser sensor and its queue, the snapshots of the      *)
(* coverage, and the acceptance of generated decoys.                       *)
(***************************************************************************)
EXTENDS ReplayGuard, JudgeSandbox, ApiKeys, Learning, Reliability, Onboarding, Limits, BrowserSensor,
  Coverage, DecoyPipeline, FiniteSetTheorems, FunctionTheorems, WellFoundedInduction, TLAPS

-----------------------------------------------------------------------------
(* The replay guard: a request that was not stamped ahead of the server     *)
(* passes at most once.  The invariant says where the two defences meet:    *)
(* the reservation of a passed request expires only after the request       *)
(* itself has become too old.                                               *)

\* What holds of a request that has passed on time: it passed once, at a time
\* not before its stamp, and its reservation runs for the whole Ttl.
Reserved(r) ==
  passes[r] > 0 /\ OnTime(r) =>
    /\ passes[r] = 1
    /\ passedAt[r] <= now
    /\ seen[ScopeKey(r)] = passedAt[r] + Ttl

\* Only what was sent can have passed.
PassedWasSent == \A r \in Requests : passes[r] > 0 => r \in sent

\* The inductive invariant behind PassesAtMostOnce.
GuardInv ==
  /\ TypeOK
  /\ PassedWasSent
  /\ ~FailOpen => \A r \in Requests : Reserved(r)

\* The initial state has the types of TypeOK.
LEMMA InitType == Init => TypeOK
  BY DEF Init, TypeOK, Requests, Keys, Replies

\* The answer of ReplayGuard.check is one of the known answers.
LEMMA CheckType == \A r : Check(r) \in Replies
  BY DEF Check, Replies

\* Every step of the guard keeps the types.
LEMMA StepType == TypeOK /\ [Next]_vars => TypeOK'
  <1> SUFFICES ASSUME TypeOK, [Next]_vars PROVE TypeOK'
    OBVIOUS
  <1> USE WindowAssumption, BoundsAssumption DEF TypeOK
  <1>1. ASSUME NEW r \in Requests, Send(r) PROVE TypeOK'
    BY <1>1 DEF Send
  <1>2. ASSUME NEW r \in Requests, Deliver(r) PROVE TypeOK'
    <2>1. reply' \in [Requests -> Replies]
      BY <1>2, CheckType DEF Deliver
    <2>2. passes' \in [Requests -> Nat] /\ passedAt' \in [Requests -> Nat]
      BY <1>2 DEF Deliver
    <2>3. seen' \in [Keys -> Nat]
      BY <1>2 DEF Deliver, Ttl
    <2>4. QED
      BY <1>2, <2>1, <2>2, <2>3 DEF Deliver
  <1>3. CASE Tick
    BY <1>3 DEF Tick
  <1>4. CASE RedisOutage
    BY <1>4 DEF RedisOutage
  <1>5. CASE UNCHANGED vars
    BY <1>5 DEF vars
  <1>6. QED
    BY <1>1, <1>2, <1>3, <1>4, <1>5 DEF Next

\* Type correctness of the replay guard.
THEOREM TypeCorrect == Spec => []TypeOK
  BY InitType, StepType, PTL DEF Spec

\* A request that passed on time cannot pass again: while its reservation is
\* held it is refused as replayed, and afterwards as too old.
LEMMA NoSecondPass ==
  ASSUME TypeOK, ~FailOpen, NEW r \in Requests,
         Reserved(r), passes[r] > 0, OnTime(r)
  PROVE  Check(r) # "accepted"
  <1>1. seen[ScopeKey(r)] = passedAt[r] + Window + 1
    BY WindowAssumption DEF Reserved, Ttl, TypeOK
  <1>2. now \in Nat /\ stamp[r] \in Int /\ passedAt[r] \in Nat /\ Window \in Nat
    BY WindowAssumption DEF TypeOK
  <1>3. CASE Held(ScopeKey(r))
    BY <1>3 DEF Check, Reserve
  <1>4. CASE ~Held(ScopeKey(r))
    <2>1. now >= passedAt[r] + Window + 1
      BY <1>1, <1>2, <1>4 DEF Held
    <2>2. Skewed(r)
      BY <2>1, <1>2 DEF Skewed, OnTime
    <2>3. QED
      BY <2>2 DEF Check
  <1>5. QED
    BY <1>3, <1>4

\* Distinct requests reserve distinct keys: the scope keeps organizations apart.
LEMMA KeysDistinct ==
  \A r, s \in Requests : ScopeKey(r) \in Keys /\ (ScopeKey(r) = ScopeKey(s) => r = s)
  BY DEF ScopeKey, Requests, Keys

\* Every step keeps the invariant.
LEMMA StepGuard == GuardInv /\ [Next]_vars => GuardInv'
  <1> SUFFICES ASSUME GuardInv, [Next]_vars PROVE GuardInv'
    OBVIOUS
  <1>0. TypeOK /\ TypeOK'
    BY StepType DEF GuardInv
  <1>1. ASSUME NEW r \in Requests, Send(r) PROVE GuardInv'
    <2>1. PassedWasSent'
      BY <1>1 DEF Send, GuardInv, PassedWasSent
    <2>2. ASSUME NEW s \in Requests, ~FailOpen PROVE Reserved(s)'
      <3>1. CASE s = r
        BY <1>0, <1>1, <3>1 DEF Send, GuardInv, PassedWasSent, Reserved, TypeOK
      <3>2. CASE s # r
        BY <1>0, <1>1, <2>2, <3>2
        DEF Send, GuardInv, Reserved, OnTime, ScopeKey, TypeOK
      <3>3. QED
        BY <3>1, <3>2
    <2>3. QED
      BY <1>0, <2>1, <2>2 DEF GuardInv
  <1>2. ASSUME NEW r \in Requests, Deliver(r) PROVE GuardInv'
    <2>1. PassedWasSent'
      BY <1>0, <1>2 DEF Deliver, GuardInv, PassedWasSent, TypeOK
    <2>2. ASSUME NEW s \in Requests, ~FailOpen PROVE Reserved(s)'
      <3>1. CASE s = r /\ Check(r) = "accepted"
        <4>1. ~(passes[r] > 0 /\ OnTime(r))
          BY <1>0, <2>2, <3>1, NoSecondPass DEF GuardInv
        <4>2. Reserve(ScopeKey(r)) = "reserved"
          BY <2>2, <3>1, FailOpenAssumption DEF Check, Reserve
        <4>3. CASE passes[r] = 0
          <5>1. passes'[r] = 1 /\ passedAt'[r] = now /\ now' = now
            BY <1>0, <1>2, <3>1, <4>3 DEF Deliver, TypeOK
          <5>2. seen'[ScopeKey(r)] = now + Ttl
            BY <1>0, <1>2, <3>1, <4>2, KeysDistinct DEF Deliver, TypeOK
          <5>3. ScopeKey(r)' = ScopeKey(r) /\ Ttl' = Ttl
            BY DEF ScopeKey, Ttl
          <5>4. QED
            BY <1>0, <3>1, <5>1, <5>2, <5>3 DEF Reserved, TypeOK
        <4>4. CASE passes[r] > 0
          <5>1. passedAt' = passedAt /\ stamp' = stamp
            BY <1>0, <1>2, <3>1, <4>4 DEF Deliver, TypeOK
          <5>2. ~OnTime(r)'
            BY <4>1, <4>4, <5>1 DEF OnTime
          <5>3. QED
            BY <3>1, <5>2 DEF Reserved
        <4>5. QED
          BY <1>0, <4>3, <4>4 DEF TypeOK
      <3>2. CASE s # r \/ Check(r) # "accepted"
        <4>1. passes'[s] = passes[s] /\ passedAt'[s] = passedAt[s]
          BY <1>0, <1>2, <3>2 DEF Deliver, TypeOK
        <4>2. seen'[ScopeKey(s)] = seen[ScopeKey(s)]
          BY <1>0, <1>2, <3>2, KeysDistinct DEF Deliver, TypeOK
        <4>3. now' = now /\ stamp' = stamp
          BY <1>2 DEF Deliver
        <4>4. Reserved(s)
          BY <2>2 DEF GuardInv
        <4>5. QED
          BY <4>1, <4>2, <4>3, <4>4 DEF Reserved, OnTime, ScopeKey, Ttl
      <3>3. QED
        BY <3>1, <3>2
    <2>3. QED
      BY <1>0, <2>1, <2>2 DEF GuardInv
  <1>3. CASE Tick
    BY <1>0, <1>3
    DEF Tick, GuardInv, PassedWasSent, Reserved, OnTime, ScopeKey, Ttl, TypeOK
  <1>4. CASE RedisOutage
    BY <1>0, <1>4
    DEF RedisOutage, GuardInv, PassedWasSent, Reserved, OnTime, ScopeKey, Ttl
  <1>5. CASE UNCHANGED vars
    BY <1>0, <1>5
    DEF vars, GuardInv, PassedWasSent, Reserved, OnTime, ScopeKey, Ttl
  <1>6. QED
    BY <1>1, <1>2, <1>3, <1>4, <1>5 DEF Next

\* For every window and every monitor clock, with fail-closed workers, an
\* on-time request passes the replay guard at most once.
THEOREM ReplayedNonceRefused == Spec => []PassesAtMostOnce
  <1>1. Init => GuardInv
    BY InitType DEF Init, GuardInv, PassedWasSent, Reserved
  <1>2. GuardInv => PassesAtMostOnce
    BY DEF GuardInv, PassesAtMostOnce, Reserved
  <1>3. QED
    BY <1>1, <1>2, StepGuard, PTL DEF Spec

-----------------------------------------------------------------------------
(* The judge sandbox. *)

\* A request past authentication holds the row of the key of its sandbox.
AuthenticatedHolds ==
  \A r \in JudgeRequests : judging[r] # JudgeNone =>
    /\ sandboxes[judging[r].sandbox] # JudgeNone
    /\ judging[r].stage # "read" => keyHolder[judging[r].sandbox] = r

\* What a request has loaded is still what the row holds, and within the limits.
LoadedIsCurrent ==
  \A r \in JudgeRequests : judging[r] # JudgeNone /\ judging[r].stage = "loaded" =>
    /\ judging[r].used = sandboxes[judging[r].sandbox].used
    /\ judging[r].action # "reset" => judging[r].used[judging[r].action] < JudgeLimit[judging[r].action]

\* Nothing was served for a sandbox that does not exist.
ServedExists == \A s \in Sandboxes : sandboxes[s] = JudgeNone => served[s] = NoUse

\* The inductive invariant behind BudgetIsKept: the row of the API key is the lock that keeps a
\* loaded counter current until it is written.
JudgeInv == JudgeTypeOK /\ AuthenticatedHolds /\ LoadedIsCurrent /\ ServedExists /\ BudgetIsKept

\* The invariant holds before anything is provisioned.
LEMMA JudgeInitInv == JudgeInit => JudgeInv
  <1> SUFFICES ASSUME JudgeInit PROVE JudgeInv
    OBVIOUS
  <1> USE JudgeAssumption
  <1>1. NoUse \in [JudgeActions -> Nat]
    BY DEF NoUse
  <1>2. JudgeTypeOK
    BY <1>1 DEF JudgeInit, JudgeTypeOK
  <1>3. AuthenticatedHolds /\ LoadedIsCurrent
    BY DEF JudgeInit, AuthenticatedHolds, LoadedIsCurrent
  <1>4. ServedExists /\ BudgetIsKept
    BY DEF JudgeInit, ServedExists, BudgetIsKept
  <1>5. QED
    BY <1>2, <1>3, <1>4 DEF JudgeInv

\* What AuthenticatedHolds, LoadedIsCurrent, ServedExists and BudgetIsKept read of the rows: a
\* step that changes no sandbox's existence, counters or tables keeps them.
LEMMA JudgeRowsKept ==
  ASSUME JudgeInv, UNCHANGED <<keyHolder, judging, served>>, JudgeTypeOK',
         \A s \in Sandboxes :
           /\ sandboxes[s] = JudgeNone => sandboxes'[s] = JudgeNone
           /\ sandboxes[s] # JudgeNone =>
                /\ sandboxes'[s] # JudgeNone /\ sandboxes'[s].used = sandboxes[s].used
                /\ sandboxes'[s].tables = sandboxes[s].tables
  PROVE  JudgeInv'
  <1>1. AuthenticatedHolds' /\ LoadedIsCurrent'
    BY DEF JudgeInv, JudgeTypeOK, AuthenticatedHolds, LoadedIsCurrent, JudgeRequestRows
  <1>2. ServedExists' /\ BudgetIsKept'
    BY DEF JudgeInv, ServedExists, BudgetIsKept
  <1>3. QED
    BY <1>1, <1>2 DEF JudgeInv

\* A request that ends gives up at most the row it holds.
LEMMA JudgeLeaves ==
  ASSUME JudgeInv, NEW r \in JudgeRequests, Leave(r), JudgeTypeOK',
         \A s \in Sandboxes : sandboxes[s] # JudgeNone => sandboxes'[s] # JudgeNone,
         \A s \in Sandboxes : keyHolder[s] # r => sandboxes'[s] = sandboxes[s]
  PROVE  AuthenticatedHolds' /\ LoadedIsCurrent'
  <1> USE DEF JudgeInv, JudgeTypeOK
  <1>1. SUFFICES ASSUME NEW q \in JudgeRequests, judging'[q] # JudgeNone
        PROVE /\ q # r /\ judging'[q] = judging[q] /\ judging[q] \in JudgeRequestRows
              /\ sandboxes'[judging[q].sandbox] # JudgeNone
              /\ judging[q].stage # "read" =>
                   /\ keyHolder'[judging[q].sandbox] = q
                   /\ sandboxes'[judging[q].sandbox] = sandboxes[judging[q].sandbox]
    BY DEF AuthenticatedHolds, LoadedIsCurrent
  <1>2. q # r /\ judging'[q] = judging[q] /\ judging[q] \in JudgeRequestRows
    BY <1>1 DEF Leave
  <1>3. judging[q].sandbox \in Sandboxes
    BY <1>2 DEF JudgeRequestRows
  <1>4. sandboxes[judging[q].sandbox] # JudgeNone
    BY <1>1, <1>2 DEF AuthenticatedHolds
  <1>5. judging[q].stage # "read" => keyHolder[judging[q].sandbox] = q
    BY <1>1, <1>2 DEF AuthenticatedHolds
  <1>6. QED
    BY <1>2, <1>3, <1>4, <1>5 DEF Leave

\* Every step of a judge, a deadline or a clean-up keeps the invariant.
LEMMA JudgeStepInv == JudgeInv /\ [JudgeNext]_judgeVars => JudgeInv'
  <1> SUFFICES ASSUME JudgeInv, [JudgeNext]_judgeVars PROVE JudgeInv'
    OBVIOUS
  <1> USE JudgeAssumption
  <1>0. JudgeTypeOK /\ NoUse \in [JudgeActions -> Nat]
    BY DEF JudgeInv, NoUse
  <1>1. ASSUME NEW s \in Sandboxes, Provision(s) PROVE JudgeInv'
    <2> DEFINE row == [status |-> "active", due |-> FALSE, used |-> NoUse, cooling |-> FALSE,
                       tables |-> SeededTables]
    <2>1. row \in SandboxRows /\ row.used = NoUse /\ row.tables = SeededTables
      BY <1>0 DEF SandboxRows
    <2>2. sandboxes' = [sandboxes EXCEPT ![s] = row] /\ sandboxes[s] = JudgeNone
      BY <1>1 DEF Provision
    <2> HIDE DEF row
    <2>3. JudgeTypeOK'
      BY <1>0, <1>1, <2>1, <2>2 DEF JudgeTypeOK, Provision
    <2>4. AuthenticatedHolds' /\ LoadedIsCurrent'
      BY <1>0, <1>1, <2>1, <2>2 DEF JudgeInv, AuthenticatedHolds, LoadedIsCurrent, JudgeTypeOK,
         JudgeRequestRows, Provision
    <2>5. ServedExists' /\ BudgetIsKept'
      BY <1>0, <1>1, <2>1, <2>2 DEF JudgeInv, ServedExists, BudgetIsKept, JudgeTypeOK, Provision,
         NoUse, JudgeActions
    <2>6. QED
      BY <2>3, <2>4, <2>5 DEF JudgeInv
  <1>2. ASSUME NEW s \in Sandboxes, DeadlinePasses(s) PROVE JudgeInv'
    <2>1. sandboxes[s] \in SandboxRows /\ sandboxes' = [sandboxes EXCEPT ![s] = [@ EXCEPT !.due = TRUE]]
      BY <1>0, <1>2 DEF JudgeTypeOK, DeadlinePasses
    <2>2. /\ [sandboxes[s] EXCEPT !.due = TRUE] \in SandboxRows
          /\ [sandboxes[s] EXCEPT !.due = TRUE].used = sandboxes[s].used
          /\ [sandboxes[s] EXCEPT !.due = TRUE].tables = sandboxes[s].tables
      BY <2>1 DEF SandboxRows
    <2>3. JudgeTypeOK'
      BY <1>0, <1>2, <2>1, <2>2 DEF JudgeTypeOK, DeadlinePasses
    <2>4. QED
      BY <1>0, <1>2, <2>1, <2>2, <2>3, JudgeRowsKept DEF JudgeTypeOK, DeadlinePasses
  <1>3. ASSUME NEW s \in Sandboxes, CooldownEnds(s) PROVE JudgeInv'
    <2>1. sandboxes[s] \in SandboxRows /\ sandboxes' = [sandboxes EXCEPT ![s] = [@ EXCEPT !.cooling = FALSE]]
      BY <1>0, <1>3 DEF JudgeTypeOK, CooldownEnds
    <2>2. /\ [sandboxes[s] EXCEPT !.cooling = FALSE] \in SandboxRows
          /\ [sandboxes[s] EXCEPT !.cooling = FALSE].used = sandboxes[s].used
          /\ [sandboxes[s] EXCEPT !.cooling = FALSE].tables = sandboxes[s].tables
      BY <2>1 DEF SandboxRows
    <2>3. JudgeTypeOK'
      BY <1>0, <1>3, <2>1, <2>2 DEF JudgeTypeOK, CooldownEnds
    <2>4. QED
      BY <1>0, <1>3, <2>1, <2>2, <2>3, JudgeRowsKept DEF JudgeTypeOK, CooldownEnds
  <1>4. CASE ExpireDue
    <2>1. \A s \in Sandboxes :
            \/ sandboxes'[s] = sandboxes[s]
            \/ sandboxes[s] # JudgeNone /\ sandboxes'[s] = [sandboxes[s] EXCEPT !.status = "expired"]
      BY <1>4 DEF ExpireDue
    <2>2. \A x \in SandboxRows :
            /\ [x EXCEPT !.status = "expired"] \in SandboxRows
            /\ [x EXCEPT !.status = "expired"].used = x.used
            /\ [x EXCEPT !.status = "expired"].tables = x.tables
      BY DEF SandboxRows
    <2>3. JudgeTypeOK'
      BY <1>0, <1>4, <2>1, <2>2 DEF JudgeTypeOK, ExpireDue
    <2>4. QED
      BY <1>0, <1>4, <2>1, <2>2, <2>3, JudgeRowsKept DEF JudgeTypeOK, ExpireDue
  <1>5. ASSUME NEW r \in JudgeRequests, NEW s \in Sandboxes, NEW a \in JudgeActions, JudgeCalls(r, s, a)
        PROVE JudgeInv'
    <2>1. [sandbox |-> s, action |-> a, stage |-> "read", used |-> NoUse] \in JudgeRequestRows
      BY <1>0 DEF JudgeRequestRows
    <2>2. JudgeTypeOK'
      BY <1>0, <1>5, <2>1 DEF JudgeTypeOK, JudgeCalls
    <2>3. AuthenticatedHolds' /\ LoadedIsCurrent'
      BY <1>0, <1>5 DEF JudgeInv, AuthenticatedHolds, LoadedIsCurrent, JudgeTypeOK, JudgeCalls
    <2>4. QED
      BY <1>5, <2>2, <2>3 DEF JudgeInv, ServedExists, BudgetIsKept, JudgeCalls
  <1>6. ASSUME NEW r \in JudgeRequests, WriteKey(r) PROVE JudgeInv'
    <2> DEFINE after == [judging[r] EXCEPT !.stage = "authenticated"]
    <2>1. judging[r] \in JudgeRequestRows /\ judging' = [judging EXCEPT ![r] = after]
      BY <1>0, <1>6 DEF JudgeTypeOK, WriteKey
    <2>2. after \in JudgeRequestRows /\ after.stage = "authenticated" /\ after.sandbox = judging[r].sandbox
      BY <2>1 DEF JudgeRequestRows
    <2> HIDE DEF after
    <2>3. JudgeTypeOK'
      BY <1>0, <1>6, <2>1, <2>2 DEF JudgeTypeOK, WriteKey
    <2>4. AuthenticatedHolds'
      BY <1>0, <1>6, <2>1, <2>2 DEF JudgeInv, AuthenticatedHolds, JudgeTypeOK, WriteKey, JudgeRequestRows
    <2>5. LoadedIsCurrent'
      BY <1>0, <1>6, <2>1, <2>2 DEF JudgeInv, LoadedIsCurrent, JudgeTypeOK, WriteKey
    <2>6. QED
      BY <1>6, <2>3, <2>4, <2>5 DEF JudgeInv, ServedExists, BudgetIsKept, WriteKey
  <1>7. ASSUME NEW r \in JudgeRequests, LoadSandbox(r) PROVE JudgeInv'
    <2> DEFINE s == judging[r].sandbox
               after == [judging[r] EXCEPT !.stage = "loaded", !.used = sandboxes[s].used]
    <2>1. judging[r] \in JudgeRequestRows /\ judging' = [judging EXCEPT ![r] = after]
      BY <1>0, <1>7 DEF JudgeTypeOK, LoadSandbox
    <2>2. s \in Sandboxes /\ sandboxes[s] # JudgeNone
      BY <1>7, <2>1 DEF JudgeInv, AuthenticatedHolds, JudgeRequestRows, LoadSandbox
    <2>3. sandboxes[s].used \in [JudgeActions -> Nat]
      BY <1>0, <2>2 DEF JudgeTypeOK, SandboxRows
    <2>4. /\ after \in JudgeRequestRows /\ after.stage = "loaded" /\ after.sandbox = s
          /\ after.action = judging[r].action /\ after.used = sandboxes[s].used
      BY <2>1, <2>3 DEF JudgeRequestRows
    <2>5. after.action # "reset" => after.used[after.action] < JudgeLimit[after.action]
      BY <1>7, <2>4 DEF LoadSandbox, WithinBudget
    <2>6. keyHolder[s] = r
      BY <1>7 DEF JudgeInv, AuthenticatedHolds, LoadSandbox
    <2> HIDE DEF after
    <2>7. JudgeTypeOK'
      BY <1>0, <1>7, <2>1, <2>4 DEF JudgeTypeOK, LoadSandbox
    <2>8. AuthenticatedHolds'
      BY <1>0, <1>7, <2>1, <2>2, <2>4, <2>6 DEF JudgeInv, AuthenticatedHolds, JudgeTypeOK, LoadSandbox
    <2>9. LoadedIsCurrent'
      BY <1>0, <1>7, <2>1, <2>4, <2>5 DEF JudgeInv, LoadedIsCurrent, JudgeTypeOK, LoadSandbox
    <2>10. QED
      BY <1>7, <2>7, <2>8, <2>9 DEF JudgeInv, ServedExists, BudgetIsKept, LoadSandbox
  <1>8. ASSUME NEW r \in JudgeRequests, JudgeRefused(r) PROVE JudgeInv'
    <2>1. JudgeTypeOK'
      BY <1>0, <1>8 DEF JudgeTypeOK, JudgeRefused, Leave
    <2>2. AuthenticatedHolds' /\ LoadedIsCurrent'
      BY <1>8, <2>1, JudgeLeaves DEF JudgeRefused
    <2>3. QED
      BY <1>8, <2>1, <2>2 DEF JudgeInv, ServedExists, BudgetIsKept, JudgeRefused
  <1>9. ASSUME NEW r \in JudgeRequests, Consume(r) PROVE JudgeInv'
    <2> DEFINE x == judging[r]  s == x.sandbox  box == sandboxes[s]
               count == [box.used EXCEPT ![x.action] = @ + 1]
    <2>1. x \in JudgeRequestRows /\ x # JudgeNone /\ x.stage = "loaded"
      BY <1>0, <1>9 DEF JudgeTypeOK, Consume
    <2>2. s \in Sandboxes /\ x.action \in JudgeActions /\ box # JudgeNone /\ keyHolder[s] = r
      BY <2>1 DEF JudgeInv, AuthenticatedHolds, JudgeRequestRows
    <2>3. box \in SandboxRows /\ box.used \in [JudgeActions -> Nat] /\ box.used = x.used
      BY <1>0, <2>1, <2>2 DEF JudgeTypeOK, SandboxRows, JudgeInv, LoadedIsCurrent
    <2>4. /\ box.used = served[s] /\ SeededTables \subseteq box.tables
          /\ \A a \in DOMAIN JudgeLimit : served[s][a] <= JudgeLimit[a]
      BY <2>2 DEF JudgeInv, BudgetIsKept
    <2>5. PICK after : /\ sandboxes' = [sandboxes EXCEPT ![s] = after]
                       /\ after = [box EXCEPT !.used[x.action] = x.used[x.action] + 1,
                                     !.cooling = IF x.action = "reset" THEN TRUE ELSE @,
                                     !.tables = TablesAfter(x.action, @)]
      BY <1>9 DEF Consume
    <2>6. /\ TablesAfter(x.action, box.tables) \in SUBSET (SeededTables \cup TouchedTables)
          /\ SeededTables \subseteq TablesAfter(x.action, box.tables)
      BY <2>3, <2>4 DEF TablesAfter, SandboxRows
    <2>7. count \in [JudgeActions -> Nat]
      BY <2>2, <2>3
    <2>8. /\ after \in SandboxRows /\ after.used = count
          /\ after.tables = TablesAfter(x.action, box.tables)
      BY <2>3, <2>5, <2>6, <2>7 DEF SandboxRows
    <2>9. served' = [served EXCEPT ![s] = count]
      BY <1>9, <2>4 DEF Consume
    <2>10. \A a \in DOMAIN JudgeLimit : count[a] <= JudgeLimit[a]
      <3> SUFFICES ASSUME NEW a \in DOMAIN JudgeLimit PROVE count[a] <= JudgeLimit[a]
        OBVIOUS
      <3>1. a \in JudgeActions /\ a # "reset" /\ JudgeLimit[a] \in Nat
        BY DEF JudgeActions
      <3>2. CASE a = x.action
        BY <2>1, <2>2, <2>3, <3>1, <3>2 DEF JudgeInv, LoadedIsCurrent
      <3>3. CASE a # x.action
        BY <2>3, <2>4, <3>1, <3>3
      <3>4. QED
        BY <3>2, <3>3
    <2> HIDE DEF count
    <2>11. JudgeTypeOK'
      BY <1>0, <1>9, <2>2, <2>5, <2>7, <2>8, <2>9 DEF JudgeTypeOK, Consume, Leave
    <2>12. AuthenticatedHolds' /\ LoadedIsCurrent'
      <3>1. \A q \in Sandboxes : sandboxes[q] # JudgeNone => sandboxes'[q] # JudgeNone
        BY <1>0, <2>2, <2>5, <2>8 DEF JudgeTypeOK
      <3>2. \A q \in Sandboxes : keyHolder[q] # r => sandboxes'[q] = sandboxes[q]
        BY <1>0, <2>2, <2>5 DEF JudgeTypeOK
      <3>3. Leave(r)
        BY <1>9 DEF Consume
      <3>4. QED
        BY <2>11, <3>1, <3>2, <3>3, JudgeLeaves
    <2>13. ServedExists'
      BY <1>0, <2>2, <2>5, <2>8, <2>9 DEF JudgeInv, ServedExists, JudgeTypeOK
    <2>14. BudgetIsKept'
      <3>1. ASSUME NEW q \in Sandboxes, q # s
            PROVE sandboxes'[q] = sandboxes[q] /\ served'[q] = served[q]
        BY <1>0, <2>5, <2>9, <3>1 DEF JudgeTypeOK
      <3>2. sandboxes'[s] = after /\ served'[s] = count
        BY <1>0, <2>2, <2>5, <2>9 DEF JudgeTypeOK
      <3>3. QED
        BY <2>6, <2>8, <2>10, <3>1, <3>2 DEF JudgeInv, BudgetIsKept
    <2>15. QED
      BY <2>11, <2>12, <2>13, <2>14 DEF JudgeInv
  <1>10. CASE UNCHANGED judgeVars
    BY <1>10 DEF judgeVars, JudgeInv, JudgeTypeOK, AuthenticatedHolds, LoadedIsCurrent, ServedExists,
       BudgetIsKept
  <1>11. QED
    BY <1>1, <1>2, <1>3, <1>4, <1>5, <1>6, <1>7, <1>8, <1>9, <1>10 DEF JudgeNext

\* No use of a judge's budget is lost and none exceeded, for any number of sandboxes and of
\* requests that overlap: consume (services/judge_quota.py) writes a counter it loaded, and the
\* row of the API key that authentication wrote keeps it current.
THEOREM JudgeBudget == JudgeSpec => []BudgetIsKept
  <1>1. JudgeInit => JudgeInv
    BY JudgeInitInv
  <1>2. JudgeInv /\ [JudgeNext]_judgeVars => JudgeInv'
    BY JudgeStepInv
  <1>3. JudgeInv => BudgetIsKept
    BY DEF JudgeInv
  <1>4. QED
    BY <1>1, <1>2, <1>3, PTL DEF JudgeSpec

-----------------------------------------------------------------------------
(* API keys. *)

\* A call that ends frees its rows and nothing else.
LEMMA KeyFinishType ==
  ASSUME KeyTypeOK, NEW c \in AdminCalls, Finish(c)
  PROVE  /\ rowOf' \in [KeyIds -> AdminCalls \cup {KeyNone}]
         /\ calls' \in [AdminCalls -> KeyCallRows \cup {KeyNone}]
         /\ \A d \in AdminCalls : calls'[d] # KeyNone => calls'[d] = calls[d]
  BY DEF KeyTypeOK, Finish

\* Keys that stay stored keep the calls typed, when no call goes further.
LEMMA KeyCallsKept ==
  ASSUME KeyTypeOK, apiKeys' \in [KeyIds -> KeyRows \cup {KeyNone}],
         rowOf' \in [KeyIds -> AdminCalls \cup {KeyNone}],
         calls' \in [AdminCalls -> KeyCallRows \cup {KeyNone}],
         \A d \in AdminCalls : calls'[d] # KeyNone => calls'[d] = calls[d],
         \A k \in Stored : apiKeys'[k] # KeyNone
  PROVE  KeyTypeOK'
  BY DEF KeyTypeOK, Stored

\* The types hold before there is a key.
LEMMA KeyInitType == KeyInit => KeyTypeOK
  BY DEF KeyInit, KeyTypeOK

\* Every step keeps the types, and a call that revokes has a stored key as its target.
LEMMA KeyStepType == KeyTypeOK /\ [KeyNext]_keyVars => KeyTypeOK'
  <1> SUFFICES ASSUME KeyTypeOK, [KeyNext]_keyVars PROVE KeyTypeOK'
    OBVIOUS
  <1> USE KeyAssumption
  <1>0. /\ \A k \in Stored : k \in KeyIds /\ apiKeys[k] \in KeyRows
        /\ \A c \in AdminCalls : calls[c] # KeyNone => calls[c] \in KeyCallRows
    BY DEF KeyTypeOK, Stored
  <1>1. CASE WindowMoves
    BY <1>1 DEF WindowMoves, KeyTypeOK, Stored
  <1>2. ASSUME NEW k \in KeyIds, KeyExpires(k) PROVE KeyTypeOK'
    <2>1. [apiKeys[k] EXCEPT !.expired = TRUE] \in KeyRows
      BY <1>0, <1>2 DEF KeyExpires, KeyRows
    <2>2. QED
      BY <1>2, <2>1, KeyCallsKept DEF KeyExpires, KeyTypeOK, Stored
  <1>3. ASSUME NEW k \in KeyIds, NEW role \in Roles, k \notin Stored,
               apiKeys' = [apiKeys EXCEPT ![k] = [role |-> role, status |-> "active", expired |-> FALSE]]
        PROVE apiKeys' \in [KeyIds -> KeyRows \cup {KeyNone}] /\ \A j \in Stored : apiKeys'[j] # KeyNone
    <2>1. [role |-> role, status |-> "active", expired |-> FALSE] \in KeyRows
      BY DEF KeyRows
    <2>2. QED
      BY <1>3, <2>1 DEF KeyTypeOK, Stored
  <1>4. ASSUME NEW k \in KeyIds, NEW role \in Roles, ProvisionKey(k, role) PROVE KeyTypeOK'
    BY <1>3, <1>4, KeyCallsKept DEF ProvisionKey, KeyTypeOK
  <1>5. ASSUME NEW c \in AdminCalls, AuthenticateBootstrap(c) PROVE KeyTypeOK'
    <2> DEFINE call == [key |-> KeyNone, stage |-> "authenticated", target |-> KeyNone,
                        row |-> [role |-> "owner", status |-> "active"]]
    <2>1. call \in KeyCallRows /\ call.stage = "authenticated"
      BY DEF KeyCallRows
    <2>2. calls' = [calls EXCEPT ![c] = call]
      BY <1>5 DEF AuthenticateBootstrap
    <2> HIDE DEF call
    <2>3. QED
      BY <1>5, <2>1, <2>2 DEF AuthenticateBootstrap, KeyTypeOK, Stored
  <1>6. ASSUME NEW c \in AdminCalls, NEW k \in KeyIds, ReadKey(c, k) PROVE KeyTypeOK'
    <2> DEFINE call == [key |-> k, stage |-> "read", target |-> KeyNone,
                        row |-> [role |-> apiKeys[k].role, status |-> apiKeys[k].status]]
    <2>1. call \in KeyCallRows /\ call.stage = "read" /\ call.key = k
      BY <1>0, <1>6 DEF ReadKey, KeyCallRows, KeyRows
    <2>2. calls' = [calls EXCEPT ![c] = call]
      BY <1>6 DEF ReadKey
    <2> HIDE DEF call
    <2>3. QED
      BY <1>6, <2>1, <2>2 DEF ReadKey, KeyTypeOK, Stored
  <1>7. ASSUME NEW c \in AdminCalls, TouchKey(c) PROVE KeyTypeOK'
    <2> DEFINE call == [calls[c] EXCEPT !.stage = "authenticated"]
    <2>1. calls' = [calls EXCEPT ![c] = call]
      BY <1>7 DEF TouchKey
    <2>2. call \in KeyCallRows /\ call.stage = "authenticated"
      BY <1>0, <1>7 DEF TouchKey, KeyCallRows
    <2> HIDE DEF call
    <2>3. QED
      BY <1>7, <2>1, <2>2 DEF TouchKey, KeyTypeOK, Stored
  <1>8. ASSUME NEW c \in AdminCalls, KeyCallEnds(c) \/ Deadlocked(c) PROVE KeyTypeOK'
    BY <1>8, KeyFinishType, KeyCallsKept DEF KeyCallEnds, Deadlocked, KeyTypeOK, Stored
  <1>9. ASSUME NEW c \in AdminCalls, NEW k \in KeyIds, NEW role \in Roles, CreateApiKey(c, k, role)
        PROVE KeyTypeOK'
    BY <1>3, <1>9, KeyFinishType, KeyCallsKept DEF CreateApiKey
  <1>10. ASSUME NEW c \in AdminCalls, NEW k \in KeyIds, AskToRevoke(c, k) PROVE KeyTypeOK'
    <2> DEFINE call == [calls[c] EXCEPT !.stage = "revoking", !.target = k]
    <2>1. calls' = [calls EXCEPT ![c] = call]
      BY <1>10 DEF AskToRevoke, KeyTypeOK
    <2>2. call \in KeyCallRows /\ call.stage = "revoking" /\ call.target = k
      BY <1>0, <1>10 DEF AskToRevoke, Ready, KeyCallRows
    <2> HIDE DEF call
    <2>3. QED
      BY <1>10, <2>1, <2>2 DEF AskToRevoke, KeyTypeOK, Stored
  <1>11. ASSUME NEW c \in AdminCalls, RevokeApiKey(c) PROVE KeyTypeOK'
    <2> DEFINE k == calls[c].target  row == [apiKeys[k] EXCEPT !.status = "revoked"]
    <2>1. k \in Stored /\ apiKeys' = [apiKeys EXCEPT ![k] = row]
      BY <1>11 DEF RevokeApiKey, KeyTypeOK
    <2>2. row \in KeyRows
      BY <1>0, <2>1 DEF KeyRows
    <2> HIDE DEF row, k
    <2>3. apiKeys' \in [KeyIds -> KeyRows \cup {KeyNone}] /\ \A j \in Stored : apiKeys'[j] # KeyNone
      BY <1>0, <2>1, <2>2 DEF KeyTypeOK, Stored
    <2>4. QED
      BY <1>11, <2>3, KeyFinishType, KeyCallsKept DEF RevokeApiKey
  <1>12. ASSUME NEW c \in AdminCalls, NEW m \in Monitors, CreateMonitor(c, m) \/ RevokeMonitor(c, m)
         PROVE KeyTypeOK'
    BY <1>12, KeyFinishType, KeyCallsKept DEF CreateMonitor, RevokeMonitor, KeyTypeOK, Stored
  <1>13. CASE UNCHANGED keyVars
    BY <1>13 DEF keyVars, KeyTypeOK, Stored
  <1>14. QED
    BY <1>1, <1>2, <1>4, <1>5, <1>6, <1>7, <1>8, <1>9, <1>10, <1>11, <1>12, <1>13 DEF KeyNext

\* With the types, no step gives a revoked key another status.
LEMMA KeyStepRevoked ==
  ASSUME KeyTypeOK, [KeyNext]_keyVars, NEW k \in KeyIds, k \in Stored, apiKeys[k].status = "revoked"
  PROVE  apiKeys'[k].status = "revoked"
  <1>0. apiKeys[k] \in KeyRows
    BY DEF KeyTypeOK, Stored
  <1>1. ASSUME NEW j \in KeyIds, KeyExpires(j) PROVE apiKeys'[k].status = "revoked"
    <2>1. [apiKeys[k] EXCEPT !.expired = TRUE].status = "revoked"
      BY <1>0 DEF KeyRows
    <2>2. QED
      BY <1>1, <2>1 DEF KeyExpires, KeyTypeOK
  <1>2. ASSUME NEW j \in KeyIds, j \notin Stored, NEW row, apiKeys' = [apiKeys EXCEPT ![j] = row]
        PROVE apiKeys'[k].status = "revoked"
    BY <1>2 DEF KeyTypeOK
  <1>3. ASSUME NEW c \in AdminCalls, RevokeApiKey(c) PROVE apiKeys'[k].status = "revoked"
    <2>1. [apiKeys[k] EXCEPT !.status = "revoked"].status = "revoked"
      BY <1>0 DEF KeyRows
    <2>2. QED
      BY <1>3, <2>1 DEF RevokeApiKey, KeyTypeOK
  <1>4. CASE UNCHANGED apiKeys
    BY <1>4
  <1>5. QED
    BY <1>1, <1>2, <1>3, <1>4 DEF KeyNext, keyVars, WindowMoves, ProvisionKey, AuthenticateBootstrap,
       TouchKey, KeyCallEnds, Deadlocked, ReadKey, AskToRevoke, CreateApiKey, CreateMonitor, RevokeMonitor

\* A revoked key stays revoked for any number of keys and of calls under way: the update of
\* last_used_at by a request that read the key before (services/api_keys.py) does not revive it.
THEOREM RevocationIsFinal == KeySpec => RevokedStaysRevoked
  <1>1. KeyInit => KeyTypeOK
    BY KeyInitType
  <1>2. KeyTypeOK /\ [KeyNext]_keyVars => KeyTypeOK'
    BY KeyStepType
  <1>3. KeyTypeOK /\ [KeyNext]_keyVars =>
          [\A k \in KeyIds : k \in Stored /\ apiKeys[k].status = "revoked" =>
             apiKeys'[k].status = "revoked"]_keyVars
    BY KeyStepRevoked
  <1>4. QED
    BY <1>1, <1>2, <1>3, PTL DEF KeySpec, RevokedStaysRevoked

-----------------------------------------------------------------------------
(* Learning. *)

\* A key has approved the version, and not the one that requested it.
Reviewed(v) == versions[v].approver # LearnNone /\ versions[v].requester # versions[v].approver

\* What a request decided when it loaded the version still holds when it writes: the version
\* exists, an approver is not its requester, and what it activates or rolls back was reviewed.
ReviewIsFounded ==
  \A key \in LearnKeys : review[key] # LearnNone =>
    /\ review[key].version \in Existing
    /\ review[key].previous \in Versions => review[key].previous \in Existing
    /\ review[key].target = "approved" => versions[review[key].version].requester # key
    /\ review[key].target \in {"active", "rolled_back"} => Reviewed(review[key].version)

\* The zone has the samples, and more people than one when people contributed.
Earned(z) ==
  LET rows == {o \in Cohort(outcomes, z) : Attributable(o)} IN
  /\ Cardinality(rows) >= MinSamples
  /\ LearnNone \in {o.actor : o \in rows} \/ Cardinality(ActorsOf(rows)) >= MinActors

\* The weights a run of the job has loaded were earned as well.
BaselineIsEarned == recalibrated # LearnNone => \A z \in DOMAIN recalibrated.base : Earned(z)

\* The inductive invariant behind ActiveIsReviewed and PriorsAreEarned.
LearnInv == LearnTypeOK /\ ReviewIsFounded /\ ActiveIsReviewed /\ PriorsAreEarned /\ BaselineIsEarned

\* The rate is a natural number.
LEMMA SmoothedRateType ==
  ASSUME NEW successes \in Nat, NEW total \in Nat PROVE SmoothedRate(successes, total) \in Nat
  BY DEF SmoothedRate

\* More outcomes take no zone its weight.
LEMMA EarnedGrows ==
  ASSUME outcomes \subseteq Observations, outcomes' \subseteq Observations, outcomes \subseteq outcomes',
         NEW z, Earned(z)
  PROVE  Earned(z)'
  <1> DEFINE rows == {o \in Cohort(outcomes, z) : Attributable(o)}
             more == {o \in Cohort(outcomes', z) : Attributable(o)}
  <1>1. rows \subseteq more /\ more \subseteq Observations
    BY DEF Cohort
  <1>2. IsFiniteSet(more)
    BY <1>1, LearnBounds, FS_Subset
  <1>3. Cardinality(rows) <= Cardinality(more)
    BY <1>1, <1>2, FS_Subset
  <1>4. ActorsOf(rows) \subseteq ActorsOf(more) /\ {o.actor : o \in rows} \subseteq {o.actor : o \in more}
    BY <1>1 DEF ActorsOf
  <1>5. IsFiniteSet(ActorsOf(more))
    <2>1. IsFiniteSet({o.actor : o \in more})
      <3> DEFINE pick == [o \in more |-> o.actor]
      <3>1. pick \in Surjection(more, {o.actor : o \in more})
        BY DEF Surjection
      <3>2. QED
        BY <1>2, <3>1, FS_Surjection
    <2>2. QED
      BY <2>1, FS_Subset DEF ActorsOf
  <1>6. Cardinality(ActorsOf(rows)) <= Cardinality(ActorsOf(more))
    BY <1>4, <1>5, FS_Subset
  <1>7. /\ Cardinality(rows) \in Nat /\ Cardinality(more) \in Nat
        /\ Cardinality(ActorsOf(rows)) \in Nat /\ Cardinality(ActorsOf(more)) \in Nat
    BY <1>1, <1>2, <1>4, <1>5, FS_Subset, FS_CardinalityType
  <1> HIDE DEF rows, more
  <1>8. /\ Cardinality(rows) >= MinSamples
        /\ LearnNone \in {o.actor : o \in rows} \/ Cardinality(ActorsOf(rows)) >= MinActors
    BY DEF Earned, rows
  <1>9. /\ Cardinality(more) >= MinSamples
        /\ LearnNone \in {o.actor : o \in more} \/ Cardinality(ActorsOf(more)) >= MinActors
    BY <1>3, <1>4, <1>6, <1>7, <1>8, LearnBounds
  <1>10. QED
    BY <1>9 DEF Earned, more

\* A candidate has weights for the zones it starts from and for zones that earned them.
LEMMA CandidateIsEarned ==
  ASSUME outcomes \subseteq Observations, NEW base, NEW zones \in SUBSET Zones, base \in [zones -> Nat],
         \A z \in zones : Earned(z), BuildCandidate(outcomes, base) # LearnNone
  PROVE  \E more \in SUBSET Zones : /\ BuildCandidate(outcomes, base) \in [more -> Nat]
                                    /\ \A z \in more : Earned(z)
  <1> DEFINE usable == {o \in outcomes : Attributable(o)}
             moved == {z \in {o.zone : o \in usable} : Sufficient(Cohort(usable, z))}
             accepted(z) == {o \in Cohort(usable, z) : o.type \in {"accepted", "deployed"}}
             rate(z) == SmoothedRate(Cardinality(accepted(z)), Cardinality(Cohort(usable, z)))
  <1>1. BuildCandidate(outcomes, base) =
          [z \in zones \cup moved |-> IF z \in moved THEN rate(z) ELSE base[z]]
    BY DEF BuildCandidate
  <1>2. moved \subseteq Zones
    BY DEF Zones
  <1>3. \A z : rate(z) \in Nat
    <2> TAKE z
    <2>1. IsFiniteSet(accepted(z)) /\ IsFiniteSet(Cohort(usable, z))
      <3>1. accepted(z) \subseteq Observations /\ Cohort(usable, z) \subseteq Observations
        BY DEF Cohort
      <3>2. QED
        BY <3>1, LearnBounds, FS_Subset
    <2>2. Cardinality(accepted(z)) \in Nat /\ Cardinality(Cohort(usable, z)) \in Nat
      BY <2>1, FS_CardinalityType
    <2>3. QED
      BY <2>2, SmoothedRateType
  <1>4. ASSUME NEW z \in moved PROVE Earned(z)
    <2> DEFINE rows == {o \in Cohort(outcomes, z) : Attributable(o)}
    <2>1. rows = Cohort(usable, z)
      BY DEF Cohort
    <2>2. Sufficient(rows)
      BY <1>4, <2>1
    <2>3. rows \subseteq Observations /\ IsFiniteSet(rows)
      <3>1. rows \subseteq Observations
        BY DEF Cohort
      <3>2. QED
        BY <3>1, LearnBounds, FS_Subset
    <2> HIDE DEF rows
    <2>4. Cardinality(rows) >= MinSamples /\ rows # {}
      <3>1. Cardinality(rows) >= MinSamples
        BY <2>2 DEF Sufficient
      <3>2. Cardinality({}) = 0
        BY FS_EmptySet
      <3>3. QED
        BY <3>1, <3>2, LearnBounds
    <2>5. {o \in rows : o.actor # LearnNone} = {} => LearnNone \in {o.actor : o \in rows}
      BY <2>4
    <2>6. LearnNone \in {o.actor : o \in rows} \/ Cardinality(ActorsOf(rows)) >= MinActors
      BY <2>2, <2>5 DEF Sufficient
    <2>7. QED
      BY <2>4, <2>6 DEF Earned, rows
  <1> HIDE DEF moved, rate
  <1>5. BuildCandidate(outcomes, base) \in [zones \cup moved -> Nat]
    BY <1>1, <1>3
  <1>6. QED
    BY <1>2, <1>4, <1>5

\* The invariant holds before there is an outcome or a version.
LEMMA LearnInitInv == LearnInit => LearnInv
  <1> SUFFICES ASSUME LearnInit PROVE LearnInv
    OBVIOUS
  <1>1. Existing = {}
    BY DEF LearnInit, Existing
  <1>2. QED
    BY <1>1 DEF LearnInit, LearnInv, LearnTypeOK, ReviewIsFounded, ActiveIsReviewed, PriorsAreEarned,
       BaselineIsEarned

\* While the versions stay, more outcomes keep what was earned.
LEMMA PriorsKept ==
  ASSUME LearnInv, UNCHANGED versions, outcomes' \subseteq Observations, outcomes \subseteq outcomes'
  PROVE  PriorsAreEarned'
  <1>1. \A v \in Existing : \A z \in DOMAIN versions[v].priors : Earned(z)
    BY DEF LearnInv, PriorsAreEarned, Earned
  <1>2. \A v \in Existing : \A z \in DOMAIN versions[v].priors : Earned(z)'
    BY <1>1, EarnedGrows DEF LearnInv, LearnTypeOK
  <1>3. QED
    BY <1>2 DEF PriorsAreEarned, Earned, Existing

\* A new candidate disturbs no version there is and no request under way.
LEMMA CandidateKeeps ==
  ASSUME LearnInv, NEW priors, NEW requester \in LearnKeys \cup {LearnNone},
         CreateCandidate(priors, requester), UNCHANGED <<outcomes, review>>,
         NEW zones \in SUBSET Zones, priors \in [zones -> Nat], \A z \in zones : Earned(z)
  PROVE  /\ DOMAIN versions' = Versions
         /\ \A v \in Existing' : \E more \in SUBSET Zones : versions'[v] \in VersionRows(more)
         /\ ReviewIsFounded' /\ ActiveIsReviewed' /\ PriorsAreEarned'
  <1> USE DEF LearnInv, LearnTypeOK
  <1> DEFINE new == CHOOSE x \in Versions : x \notin Existing
             row == [status |-> "candidate", requester |-> requester, approver |-> LearnNone, priors |-> priors]
  <1>1. new \in Versions /\ new \notin Existing
    BY DEF CreateCandidate, Existing
  <1>2. versions' = [versions EXCEPT ![new] = row]
    BY DEF CreateCandidate
  <1>3. /\ row \in VersionRows(zones) /\ row.status = "candidate" /\ row.priors = priors
        /\ row # LearnNone
    BY LearnRows DEF VersionRows, AllowedTransitions
  <1> HIDE DEF new, row
  <1>4. Existing' = Existing \cup {new} /\ \A v \in Existing : versions'[v] = versions[v] /\ v # new
    BY <1>1, <1>2, <1>3 DEF Existing
  <1>5. versions'[new] = row /\ DOMAIN versions' = Versions
    BY <1>1, <1>2
  <1>6. \A v \in Existing' : \E more \in SUBSET Zones : versions'[v] \in VersionRows(more)
    BY <1>3, <1>4, <1>5
  <1>7. ReviewIsFounded'
    <2> SUFFICES ASSUME NEW key \in LearnKeys, review[key] # LearnNone
        PROVE /\ review[key].version \in Existing'
              /\ review[key].previous \in Versions => review[key].previous \in Existing'
              /\ review[key].target = "approved" => versions'[review[key].version].requester # key
              /\ review[key].target \in {"active", "rolled_back"} => Reviewed(review[key].version)'
      BY DEF ReviewIsFounded
    <2>1. /\ review[key].version \in Existing
          /\ review[key].previous \in Versions => review[key].previous \in Existing
          /\ review[key].target = "approved" => versions[review[key].version].requester # key
          /\ review[key].target \in {"active", "rolled_back"} => Reviewed(review[key].version)
      BY DEF ReviewIsFounded
    <2>2. QED
      BY <1>4, <2>1 DEF Reviewed
  <1>8. ActiveIsReviewed'
    BY <1>3, <1>4, <1>5 DEF ActiveIsReviewed
  <1>9. PriorsAreEarned'
    <2>1. \A v \in Existing : \A z \in DOMAIN versions[v].priors : Earned(z)
      BY DEF PriorsAreEarned, Earned
    <2>2. \A v \in Existing' : \A z \in DOMAIN versions'[v].priors : Earned(z)
      BY <1>3, <1>4, <1>5, <2>1
    <2>3. QED
      BY <2>2 DEF PriorsAreEarned, Earned
  <1>10. QED
    BY <1>5, <1>6, <1>7, <1>8, <1>9

\* set_status writes over whatever the rows have become, and keeps the invariant.
LEMMA SetStatusKeeps ==
  ASSUME LearnInv, NEW key \in LearnKeys, SetStatus(key) PROVE LearnInv'
  <1> USE LearnBounds, LearnRows DEF LearnInv, LearnTypeOK
  <1> DEFINE x == review[key]
             approver(v) == IF x.target = "approved" THEN key ELSE versions[v].approver
  <1>1. x \in ReviewRows /\ x # LearnNone /\ x.version \in Existing /\ x.target \in Targets
    BY DEF SetStatus, ReviewIsFounded, ReviewRows
  <1>2. x.previous \in Versions => x.previous \in Existing
    BY <1>1 DEF ReviewIsFounded
  <1>3. versions' =
          [v \in Versions |->
             IF v = x.version THEN [versions[v] EXCEPT !.status = x.target, !.approver = approver(v)]
             ELSE IF v = x.previous THEN [versions[v] EXCEPT !.status = "archived"] ELSE versions[v]]
    BY DEF SetStatus
  <1>4. \A v \in Versions : v \notin Existing => versions'[v] = LearnNone
    BY <1>1, <1>2, <1>3 DEF Existing
  <1>5. ASSUME NEW v \in Existing
        PROVE /\ \E zones \in SUBSET Zones : versions'[v] \in VersionRows(zones)
              /\ versions'[v].requester = versions[v].requester /\ versions'[v].priors = versions[v].priors
              /\ versions'[v].approver = IF v = x.version THEN approver(v) ELSE versions[v].approver
              /\ v = x.version => versions'[v].status = x.target
              /\ v # x.version => versions'[v].status \in {versions[v].status, "archived"}
    <2>1. PICK zones \in SUBSET Zones : versions[v] \in VersionRows(zones)
      OBVIOUS
    <2>2. v \in Versions
      BY DEF Existing
    <2>3. CASE v = x.version
      <3>1. approver(v) \in LearnKeys \cup {LearnNone} /\ x.target \in DOMAIN AllowedTransitions
        BY <1>1, <2>1 DEF VersionRows, Targets, AllowedTransitions
      <3> DEFINE row == [versions[v] EXCEPT !.status = x.target, !.approver = approver(v)]
      <3>2. versions'[v] = row
        BY <1>3, <2>2, <2>3
      <3> HIDE DEF approver, x
      <3>3. /\ row \in VersionRows(zones) /\ row.status = x.target /\ row.approver = approver(v)
            /\ row.requester = versions[v].requester /\ row.priors = versions[v].priors
        BY <2>1, <3>1 DEF VersionRows
      <3> HIDE DEF row
      <3>4. QED
        BY <2>1, <2>3, <3>2, <3>3
    <2>4. CASE v # x.version /\ v = x.previous
      <3>1. "archived" \in DOMAIN AllowedTransitions
        BY DEF AllowedTransitions
      <3> DEFINE row == [versions[v] EXCEPT !.status = "archived"]
      <3>2. versions'[v] = row
        BY <1>3, <2>2, <2>4
      <3>3. /\ row \in VersionRows(zones) /\ row.status = "archived" /\ row.approver = versions[v].approver
            /\ row.requester = versions[v].requester /\ row.priors = versions[v].priors
        BY <2>1, <3>1 DEF VersionRows
      <3> HIDE DEF approver, x, row
      <3>4. QED
        BY <2>1, <2>4, <3>2, <3>3
    <2>5. CASE v # x.version /\ v # x.previous
      BY <1>3, <2>1, <2>2, <2>5
    <2>6. QED
      BY <2>3, <2>4, <2>5
  <1>6. Existing' = Existing
    <2>1. \A v \in Existing : versions'[v] # LearnNone
      BY <1>5
    <2>2. QED
      BY <1>4, <2>1 DEF Existing
  <1>7. x.target = "approved" => versions[x.version].requester # key
    BY <1>1 DEF ReviewIsFounded
  <1>8. x.target \in {"active", "rolled_back"} => Reviewed(x.version)
    BY <1>1 DEF ReviewIsFounded
  <1> HIDE DEF x
  <1>9. ASSUME NEW v \in Existing, Reviewed(v) PROVE Reviewed(v)'
    BY <1>5, <1>7, <1>9 DEF Reviewed
  <1>10. review' = [review EXCEPT ![key] = LearnNone]
    BY DEF SetStatus
  <1>11. LearnTypeOK'
    <2>1. DOMAIN versions' = Versions
      BY <1>3
    <2>2. \A v \in Existing' : \E zones \in SUBSET Zones : versions'[v] \in VersionRows(zones)
      BY <1>5, <1>6
    <2>3. QED
      BY <1>10, <2>1, <2>2 DEF SetStatus
  <1>12. ReviewIsFounded'
    <2> SUFFICES ASSUME NEW other \in LearnKeys, review'[other] # LearnNone
        PROVE /\ review'[other].version \in Existing'
              /\ review'[other].previous \in Versions => review'[other].previous \in Existing'
              /\ review'[other].target = "approved" => versions'[review'[other].version].requester # other
              /\ review'[other].target \in {"active", "rolled_back"} => Reviewed(review[other].version)'
      BY DEF ReviewIsFounded
    <2>1. review'[other] = review[other]
      BY <1>10
    <2>2. /\ review[other].version \in Existing
          /\ review[other].previous \in Versions => review[other].previous \in Existing
          /\ review[other].target = "approved" => versions[review[other].version].requester # other
          /\ review[other].target \in {"active", "rolled_back"} => Reviewed(review[other].version)
      BY <2>1 DEF ReviewIsFounded
    <2>3. PICK w \in Existing : w = review[other].version
      BY <2>2
    <2>4. Reviewed(w) => Reviewed(w)'
      BY <1>9
    <2>5. Reviewed(review[other].version)' = Reviewed(w)'
      BY <2>1, <2>3 DEF Reviewed
    <2>6. versions'[w].requester = versions[w].requester
      BY <1>5
    <2>7. QED
      BY <1>6, <2>1, <2>2, <2>3, <2>4, <2>5, <2>6
  <1>13. ActiveIsReviewed'
    <2> SUFFICES ASSUME NEW v \in Existing, versions'[v].status \in {"approved", "active", "rolled_back"}
        PROVE Reviewed(v)'
      BY <1>6 DEF ActiveIsReviewed, Reviewed
    <2>1. CASE v # x.version
      <3>1. Reviewed(v)
        BY <1>5, <2>1 DEF ActiveIsReviewed, Reviewed
      <3>2. QED
        BY <1>9, <3>1
    <2>2. CASE v = x.version
      <3>1. x.target \in {"active", "rolled_back"} => Reviewed(v)'
        BY <1>8, <1>9, <2>2
      <3>2. x.target = "approved" => Reviewed(v)'
        BY <1>5, <1>7, <2>2 DEF Reviewed
      <3>3. QED
        BY <1>5, <2>2, <3>1, <3>2
    <2>3. QED
      BY <2>1, <2>2
  <1>14. PriorsAreEarned'
    BY <1>5, <1>6 DEF PriorsAreEarned, SetStatus
  <1>15. BaselineIsEarned'
    BY DEF BaselineIsEarned, Earned, SetStatus
  <1>16. QED
    BY <1>11, <1>12, <1>13, <1>14, <1>15

\* Every step of calibration and review keeps the invariant.
LEMMA LearnStepInv == LearnInv /\ [LearnNext]_learnVars => LearnInv'
  <1> SUFFICES ASSUME LearnInv, [LearnNext]_learnVars PROVE LearnInv'
    OBVIOUS
  <1> USE LearnBounds DEF LearnInv, LearnTypeOK
  <1>0. NoPriors \in [{} -> Nat] /\ {} \in SUBSET Zones
    BY DEF NoPriors
  <1>1. CASE FeedbackStep
    BY <1>1 DEF FeedbackStep, RecordFeedback, Existing, ReviewIsFounded, Reviewed, ActiveIsReviewed,
       PriorsAreEarned, BaselineIsEarned, Earned
  <1>2. ASSUME NEW o \in Observations, RecordOutcome(o) PROVE LearnInv'
    <2>1. outcomes' \subseteq Observations /\ outcomes \subseteq outcomes'
      BY <1>2 DEF RecordOutcome
    <2>2. PriorsAreEarned'
      BY <1>2, <2>1, PriorsKept DEF RecordOutcome
    <2>3. BaselineIsEarned'
      BY <1>2, <2>1, EarnedGrows DEF RecordOutcome, BaselineIsEarned
    <2>4. QED
      BY <1>2, <2>1, <2>2, <2>3 DEF RecordOutcome, Existing, ReviewIsFounded, Reviewed, ActiveIsReviewed
  <1>3. ASSUME NEW key \in LearnKeys, RunCalibration(key) PROVE LearnInv'
    <2> DEFINE priors == BuildCandidate(outcomes, NoPriors)
    <2>1. priors # LearnNone /\ CreateCandidate(priors, key) /\ UNCHANGED <<outcomes, review, recalibrated>>
      BY <1>3 DEF RunCalibration
    <2>2. PICK zones \in SUBSET Zones : priors \in [zones -> Nat] /\ \A z \in zones : Earned(z)
      BY <1>0, <2>1, CandidateIsEarned
    <2> HIDE DEF priors
    <2>3. /\ DOMAIN versions' = Versions
          /\ \A v \in Existing' : \E more \in SUBSET Zones : versions'[v] \in VersionRows(more)
          /\ ReviewIsFounded' /\ ActiveIsReviewed' /\ PriorsAreEarned'
      BY <2>1, <2>2, CandidateKeeps
    <2>4. QED
      BY <2>1, <2>3 DEF BaselineIsEarned, Earned
  <1>4. CASE LoadBaseline
    <2>1. \E zones \in SUBSET Zones : /\ recalibrated'.base \in [zones -> Nat]
                                     /\ \A z \in zones : Earned(z)
      <3>1. CASE Active = {}
        <4>1. recalibrated' = [base |-> NoPriors]
          BY <1>4, <3>1 DEF LoadBaseline
        <4>2. recalibrated'.base \in [{} -> Nat]
          BY <1>0, <4>1
        <4>3. \A z \in {} : Earned(z)
          OBVIOUS
        <4>4. QED
          BY <1>0, <4>2, <4>3, Zenon
      <3>2. CASE Active # {}
        <4>1. PICK v \in Active : recalibrated' = [base |-> versions[v].priors]
          BY <1>4, <3>2 DEF LoadBaseline
        <4>2. v \in Existing
          BY DEF Active
        <4>3. PICK zones \in SUBSET Zones : versions[v] \in VersionRows(zones)
          BY <4>2
        <4>4. versions[v].priors \in [zones -> Nat]
          BY <4>3 DEF VersionRows
        <4>5. \A z \in zones : Earned(z)
          BY <4>2, <4>4 DEF PriorsAreEarned, Earned
        <4>6. QED
          BY <4>1, <4>4, <4>5
      <3>3. QED
        BY <3>1, <3>2
    <2>2. UNCHANGED <<outcomes, versions, review>>
      BY <1>4 DEF LoadBaseline
    <2>3. BaselineIsEarned'
      BY <2>1, <2>2 DEF BaselineIsEarned, Earned
    <2>4. QED
      BY <2>1, <2>2, <2>3 DEF Existing, ReviewIsFounded, Reviewed, ActiveIsReviewed, PriorsAreEarned
  <1>5. CASE JobCalibrates
    <2> DEFINE priors == BuildCandidate(outcomes, recalibrated.base)
    <2>1. recalibrated # LearnNone /\ recalibrated' = LearnNone /\ UNCHANGED <<outcomes, review>>
      BY <1>5 DEF JobCalibrates
    <2>2. CASE priors = LearnNone
      <3>1. UNCHANGED versions
        BY <1>5, <2>2 DEF JobCalibrates
      <3>2. QED
        BY <2>1, <3>1 DEF Existing, ReviewIsFounded, Reviewed, ActiveIsReviewed, PriorsAreEarned, BaselineIsEarned
    <2>3. CASE priors # LearnNone
      <3>1. CreateCandidate(priors, LearnNone)
        BY <1>5, <2>3 DEF JobCalibrates
      <3>2. PICK base \in SUBSET Zones : recalibrated.base \in [base -> Nat]
        BY <2>1
      <3>3. \A z \in base : Earned(z)
        BY <2>1, <3>2 DEF BaselineIsEarned
      <3>4. PICK zones \in SUBSET Zones : priors \in [zones -> Nat] /\ \A z \in zones : Earned(z)
        BY <2>3, <3>2, <3>3, CandidateIsEarned
      <3> HIDE DEF priors
      <3>5. /\ DOMAIN versions' = Versions
            /\ \A v \in Existing' : \E more \in SUBSET Zones : versions'[v] \in VersionRows(more)
            /\ ReviewIsFounded' /\ ActiveIsReviewed' /\ PriorsAreEarned'
        BY <2>1, <3>1, <3>4, CandidateKeeps
      <3>6. QED
        BY <2>1, <3>5 DEF BaselineIsEarned
    <2>4. QED
      BY <2>2, <2>3
  <1>6. ASSUME NEW key \in LearnKeys, NEW v \in Versions, NEW target \in Targets, LoadVersion(key, v, target)
        PROVE LearnInv'
    <2> DEFINE row == [version |-> v, target |-> target,
                       previous |-> IF target = "active" THEN "unread" ELSE LearnNone]
    <2>1. row \in ReviewRows /\ row.version = v /\ row.target = target /\ row.previous \notin Versions
      BY DEF ReviewRows
    <2>2. review' = [review EXCEPT ![key] = row] /\ UNCHANGED <<outcomes, versions, recalibrated>>
      BY <1>6 DEF LoadVersion
    <2>3. v \in Existing /\ Permitted(v, target, key)
      BY <1>6 DEF LoadVersion
    <2>4. target = "approved" => versions[v].requester # key
      BY <2>3 DEF Permitted
    <2>5. target \in {"active", "rolled_back"} => Reviewed(v)
      <3>1. PICK zones \in SUBSET Zones : versions[v] \in VersionRows(zones)
        BY <2>3
      <3>2. versions[v].status \in DOMAIN AllowedTransitions
        BY <3>1 DEF VersionRows
      <3>3. target \in {"active", "rolled_back"} =>
              versions[v].status \in {"approved", "active", "rolled_back"}
        BY <2>3, <3>2 DEF Permitted, AllowedTransitions
      <3>4. QED
        BY <2>3, <3>3 DEF ActiveIsReviewed, Reviewed
    <2> HIDE DEF row
    <2>6. ReviewIsFounded'
      BY <2>1, <2>2, <2>3, <2>4, <2>5 DEF ReviewIsFounded, Reviewed, Existing
    <2>7. QED
      BY <2>1, <2>2, <2>6 DEF Existing, ActiveIsReviewed, PriorsAreEarned, BaselineIsEarned, Earned
  <1>7. ASSUME NEW key \in LearnKeys, LoadActive(key) PROVE LearnInv'
    <2>1. review[key] \in ReviewRows /\ review[key] # LearnNone
      BY <1>7 DEF LoadActive
    <2>2. PICK p \in Existing \cup {LearnNone} : review' = [review EXCEPT ![key].previous = p]
      BY <1>7 DEF LoadActive, Active
    <2> DEFINE row == [review[key] EXCEPT !.previous = p]
    <2>3. p \in Versions \cup {LearnNone}
      BY DEF Existing
    <2>4. /\ row \in ReviewRows /\ row.version = review[key].version /\ row.target = review[key].target
          /\ row.previous = p
      BY <2>1, <2>3 DEF ReviewRows
    <2>5. review' = [review EXCEPT ![key] = row] /\ UNCHANGED <<outcomes, versions, recalibrated>>
      BY <1>7, <2>2 DEF LoadActive
    <2> HIDE DEF row
    <2>6. ReviewIsFounded'
      BY <2>1, <2>2, <2>4, <2>5 DEF ReviewIsFounded, Reviewed, Existing
    <2>7. QED
      BY <2>4, <2>5, <2>6 DEF Existing, ActiveIsReviewed, PriorsAreEarned, BaselineIsEarned, Earned
  <1>8. ASSUME NEW key \in LearnKeys, SetStatus(key) PROVE LearnInv'
    BY <1>8, SetStatusKeeps
  <1>9. CASE UNCHANGED learnVars
    BY <1>9 DEF learnVars, Existing, ReviewIsFounded, Reviewed, ActiveIsReviewed, PriorsAreEarned,
       BaselineIsEarned, Earned
  <1>10. QED
    BY <1>1, <1>2, <1>3, <1>4, <1>5, <1>6, <1>7, <1>8, <1>9 DEF LearnNext, CalibrationStep

\* What set_status may write over, in any interleaving of any number of reviewers, is never the
\* review itself: a version that is or was active was approved by another key than its
\* requester's (services/learning/versions.py).
THEOREM ReviewPrecedesActivation == LearnSpec => []ActiveIsReviewed
  <1>1. LearnInv => ActiveIsReviewed
    BY DEF LearnInv
  <1>2. QED
    BY <1>1, LearnInitInv, LearnStepInv, PTL DEF LearnSpec

\* Every weight of every version was earned by outcomes of its own zone, for all outcomes that
\* may be recorded and however often the job starts from an earlier version
\* (services/learning/calibration.py).
THEOREM WeightsAreEarned == LearnSpec => []PriorsAreEarned
  <1>1. LearnInv => PriorsAreEarned
    BY DEF LearnInv
  <1>2. QED
    BY <1>1, LearnInitInv, LearnStepInv, PTL DEF LearnSpec

-----------------------------------------------------------------------------
(* Failover. *)

\* The rows have stamps that were given out, each is backed by the rows before it, and one of
\* them is the newest.
LogIsBacked ==
  /\ failoverClock \in Nat
  /\ \A e \in failoverLog :
       /\ e.at \in Int /\ e.at <= failoverClock /\ e.to \in FailoverStates
       /\ Backed(failoverLog, e.to, e.at)
  /\ failoverLog # {} => \E e \in failoverLog : \A f \in failoverLog : f.at <= e.at

\* So is the row that a request has decided to write, at the stamp it has or any it will get.
CallsAreBacked ==
  /\ DOMAIN failoverCalls = Operators
  /\ \A o \in Operators : failoverCalls[o] # RelNone =>
       LET x == failoverCalls[o] IN
       /\ {"stage", "target", "at"} \subseteq DOMAIN x /\ x.target \in FailoverStates /\ x.at \in Nat
       /\ x.stage = "read" => Backed(failoverLog, x.target, failoverClock + 1)
       /\ x.stage = "written" => x.at <= failoverClock /\ Backed(failoverLog, x.target, x.at)

\* The inductive invariant behind PromotionFollowsFence.
RelInv == LogIsBacked /\ CallsAreBacked

\* What backs a row stays when rows are added, and serves a later row as well.
LEMMA BackedStays ==
  ASSUME NEW log, NEW more, log \subseteq more, \A e \in more : e.at \in Int,
         NEW state, NEW at \in Int, NEW later \in Int, at <= later, Backed(log, state, at)
  PROVE  Backed(more, state, later)
  <1>1. \A s : \A t \in Int : Before(log, s, t) \subseteq Before(more, s, t)
    BY DEF Before
  <1>2. \A s : Before(log, s, at) \subseteq Before(more, s, later) /\ Before(log, s, at) \subseteq log
    BY DEF Before
  <1>3. \A f \in log : f.at \in Int
    OBVIOUS
  <1>4. \A t \in Int : FencedBefore(log, t) => FencedBefore(more, t)
    BY <1>1, <1>3 DEF FencedBefore, Before
  <1>5. FencedBefore(log, at) => FencedBefore(more, later)
    BY <1>1, <1>2, <1>3 DEF FencedBefore
  <1>6. PromotedBefore(log, at) => PromotedBefore(more, later)
    BY <1>2, <1>3, <1>4 DEF PromotedBefore
  <1>7. ValidatedBefore(log, at) => ValidatedBefore(more, later)
    BY <1>1, <1>2, <1>3 DEF ValidatedBefore
  <1>8. \A s : Before(log, s, at) # {} => Before(more, s, later) # {}
    BY <1>2
  <1>9. QED
    BY <1>5, <1>6, <1>7, <1>8 DEF Backed

\* A transition that can_transition allows is backed at the next stamp: the row of the current
\* state, and what backs that row, are before it.
LEMMA TransitionIsBacked ==
  ASSUME LogIsBacked, NEW target, CanTransition(CurrentState, target)
  PROVE  target \in FailoverStates /\ Backed(failoverLog, target, failoverClock + 1)
  <1> DEFINE next == failoverClock + 1
  <1>1. CASE failoverLog = {}
    BY <1>1 DEF CurrentState, CanTransition, Transitions, Backed, FailoverStates
  <1>2. CASE failoverLog # {}
    <2>1. PICK e \in failoverLog : CurrentState = e.to
      BY <1>2 DEF LogIsBacked, CurrentState, Newest
    <2>2. /\ e.at \in Int /\ e.at < next /\ next \in Int /\ e.to \in FailoverStates
          /\ Backed(failoverLog, e.to, e.at) /\ \A f \in failoverLog : f.at \in Int
      BY DEF LogIsBacked
    <2>3. Backed(failoverLog, e.to, next)
      BY <2>2, BackedStays
    <2>4. e \in Before(failoverLog, e.to, next)
      BY <2>2 DEF Before
    <2>5. target \in Transitions[e.to]
      BY <2>1 DEF CanTransition
    <2> HIDE DEF next
    <2>6. target \in FailoverStates
      BY <2>2, <2>5 DEF Transitions, FailoverStates
    <2>7. target = "primary_fenced" => e.to = "failover_requested"
      BY <2>2, <2>5 DEF Transitions, FailoverStates
    <2>8. target = "standby_promoting" => e.to = "primary_fenced"
      BY <2>2, <2>5 DEF Transitions, FailoverStates
    <2>9. target = "secondary_active" => e.to \in {"standby_promoting", "recovery_validation"}
      BY <2>2, <2>5 DEF Transitions, FailoverStates
    <2>10. target = "recovery_validation" => e.to = "secondary_active"
      BY <2>2, <2>5 DEF Transitions, FailoverStates
    <2>11. target = "failback_pending" => e.to = "recovery_validation"
      BY <2>2, <2>5 DEF Transitions, FailoverStates
    <2>12. Backed(failoverLog, target, next)
      BY <2>2, <2>3, <2>4, <2>7, <2>8, <2>9, <2>10, <2>11
         DEF Backed, FencedBefore, PromotedBefore, ValidatedBefore
    <2>13. QED
      BY <2>6, <2>12 DEF next
  <1>3. QED
    BY <1>1, <1>2

\* The invariant holds of every history the log may start with.
LEMMA RelInitInv == RelInit => RelInv
  <1> SUFFICES ASSUME RelInit PROVE RelInv
    OBVIOUS
  <1>1. PICK h \in Histories : failoverLog = HistoryLog(h)
    BY DEF RelInit
  <1> DEFINE Rows == [to : FailoverStates, requested : Operators \cup {RelNone}, approved : Operators \cup {RelNone}]
  <1>2. h \in Seq(Rows) /\ \A e \in HistoryLog(h) : Backed(HistoryLog(h), e.to, e.at)
    BY HistoriesAssumption
  <1>3. Len(h) \in Nat /\ DOMAIN h = 1 .. Len(h) /\ \A i \in DOMAIN h : h[i].to \in FailoverStates
    <2> HIDE DEF Rows
    <2>1. Len(h) \in Nat /\ DOMAIN h = 1 .. Len(h) /\ \A i \in DOMAIN h : h[i] \in Rows
      BY <1>2
    <2>2. QED
      BY <2>1 DEF Rows
  <1>4. \A e \in HistoryLog(h) : e.at \in Int /\ e.at <= 0 /\ e.to \in FailoverStates
    BY <1>3 DEF HistoryLog
  <1>5. HistoryLog(h) # {} => \E e \in HistoryLog(h) : \A f \in HistoryLog(h) : f.at <= e.at
    <2> SUFFICES ASSUME HistoryLog(h) # {} PROVE \E e \in HistoryLog(h) : e.at = 0
      BY <1>4
    <2>1. Len(h) \in DOMAIN h
      BY <1>3 DEF HistoryLog
    <2> DEFINE last == [at |-> 0, to |-> h[Len(h)].to, requested |-> h[Len(h)].requested,
                        approved |-> h[Len(h)].approved]
    <2>2. Len(h) - Len(h) = 0
      BY <1>3
    <2>3. last \in HistoryLog(h)
      BY <2>1, <2>2, Zenon DEF HistoryLog
    <2>4. last.at = 0
      OBVIOUS
    <2>5. QED
      BY <2>3, <2>4, Zenon
  <1>6. LogIsBacked
    BY <1>1, <1>2, <1>4, <1>5 DEF LogIsBacked, RelInit
  <1>7. CallsAreBacked
    BY DEF CallsAreBacked, RelInit
  <1>8. QED
    BY <1>6, <1>7 DEF RelInv

\* Every step of an operator and of a drill keeps the invariant.
LEMMA RelStepInv == RelInv /\ [RelNext]_relVars => RelInv'
  <1> SUFFICES ASSUME RelInv, [RelNext]_relVars PROVE RelInv'
    OBVIOUS
  <1> USE DEF RelInv
  <1> DEFINE CallRow(x) == {"stage", "target", "at"} \subseteq DOMAIN x /\ x.target \in FailoverStates /\ x.at \in Nat
             CallBacked(x) ==
               /\ CallRow(x)
               /\ x.stage = "read" => Backed(failoverLog, x.target, failoverClock + 1)
               /\ x.stage = "written" => x.at <= failoverClock /\ Backed(failoverLog, x.target, x.at)
  <1>0. \A o \in Operators : failoverCalls[o] # RelNone => CallBacked(failoverCalls[o])
    BY DEF CallsAreBacked
  <1>1. ASSUME NEW o \in Operators, NEW x, failoverCalls' = [failoverCalls EXCEPT ![o] = x],
               x # RelNone => CallBacked(x), UNCHANGED <<failoverLog, failoverClock>>
        PROVE RelInv'
    BY <1>1 DEF LogIsBacked, CallsAreBacked
  <1>2. ASSUME NEW o \in Operators, ReadRequest(o) PROVE RelInv'
    <2> DEFINE x == [stage |-> "approving", target |-> "primary_fenced",
                     requested |-> LatestRequest.requested, approved |-> o, at |-> 0]
    <2>1. CallRow(x) /\ x.stage = "approving"
      BY DEF FailoverStates
    <2>2. failoverCalls' = [failoverCalls EXCEPT ![o] = x] /\ UNCHANGED <<failoverLog, failoverClock>>
      BY <1>2 DEF ReadRequest
    <2> HIDE DEF x
    <2>3. QED
      BY <1>1, <2>1, <2>2
  <1>3. ASSUME NEW o \in Operators, NEW target, NEW requested, NEW approved,
               ReadState(o, target, requested, approved)
        PROVE RelInv'
    <2> DEFINE x == [stage |-> "read", target |-> target, requested |-> requested,
                     approved |-> approved, at |-> 0]
    <2>1. target \in FailoverStates /\ Backed(failoverLog, target, failoverClock + 1)
      BY <1>3, TransitionIsBacked DEF ReadState
    <2>2. CallRow(x) /\ x.stage = "read" /\ x.target = target
      BY <2>1
    <2>3. failoverCalls' = [failoverCalls EXCEPT ![o] = x] /\ UNCHANGED <<failoverLog, failoverClock>>
      BY <1>3 DEF ReadState
    <2> HIDE DEF x
    <2>4. QED
      BY <1>1, <2>1, <2>2, <2>3
  <1>4. ASSUME NEW o \in Operators, RecordTransition(o) PROVE RelInv'
    <2> DEFINE x == [failoverCalls[o] EXCEPT !.stage = "written", !.at = failoverClock + 1]
    <2>1. failoverCalls[o] # RelNone /\ failoverCalls[o].stage = "read"
      BY <1>4 DEF RecordTransition
    <2>2. /\ CallRow(failoverCalls[o]) /\ failoverClock \in Nat
          /\ Backed(failoverLog, failoverCalls[o].target, failoverClock + 1)
      BY <1>0, <2>1 DEF LogIsBacked
    <2>3. /\ CallRow(x) /\ x.stage = "written" /\ x.target = failoverCalls[o].target
          /\ x.at = failoverClock + 1
      <3>1. /\ x.stage = "written" /\ x.target = failoverCalls[o].target /\ x.at = failoverClock + 1
        BY <2>2
      <3>2. DOMAIN x = DOMAIN failoverCalls[o]
        OBVIOUS
      <3>3. QED
        BY <2>2, <3>1, <3>2
    <2>4. /\ failoverCalls' = [failoverCalls EXCEPT ![o] = x] /\ UNCHANGED failoverLog
          /\ failoverClock' = failoverClock + 1
      BY <1>4 DEF RecordTransition
    <2> HIDE DEF x
    <2>5. \A e \in failoverLog : e.at \in Int
      BY DEF LogIsBacked
    <2>6. LogIsBacked'
      BY <2>2, <2>4 DEF LogIsBacked
    <2>7. ASSUME NEW p \in Operators, p # o, failoverCalls[p] # RelNone
          PROVE CallBacked(failoverCalls[p])'
      <3>1. failoverCalls'[p] = failoverCalls[p]
        BY <2>4, <2>7 DEF CallsAreBacked
      <3>2. Backed(failoverLog, failoverCalls[p].target, failoverClock + 1) =>
              Backed(failoverLog, failoverCalls[p].target, failoverClock + 2)
        BY <2>2, <2>5, BackedStays
      <3>3. CallBacked(failoverCalls[p])
        BY <1>0, <2>7
      <3>4. CallRow(failoverCalls[p]) /\ failoverCalls[p].at \in Nat
        BY <3>3
      <3>5. QED
        BY <2>2, <2>4, <3>1, <3>2, <3>3, <3>4
    <2>8. CallsAreBacked'
      BY <2>2, <2>3, <2>4, <2>7 DEF CallsAreBacked
    <2>9. QED
      BY <2>6, <2>8
  <1>5. ASSUME NEW o \in Operators, CommitTransition(o) PROVE RelInv'
    <2> DEFINE x == failoverCalls[o]
               row == [at |-> x.at, to |-> x.target, requested |-> x.requested,
                       approved |-> IF x.target = "primary_fenced" THEN x.approved ELSE RelNone]
    <2>1. x # RelNone /\ x.stage = "written"
      BY <1>5 DEF CommitTransition
    <2>2. /\ CallRow(x) /\ x.at <= failoverClock /\ Backed(failoverLog, x.target, x.at)
          /\ failoverClock \in Nat
      BY <1>0, <2>1 DEF LogIsBacked
    <2>3. row.at = x.at /\ row.to = x.target /\ x.at \in Int /\ x.target \in FailoverStates
      BY <2>2
    <2>4. /\ failoverLog' = failoverLog \cup {row} /\ UNCHANGED failoverClock
          /\ failoverCalls' = [failoverCalls EXCEPT ![o] = RelNone]
      BY <1>5 DEF CommitTransition
    <2> HIDE DEF row, x
    <2>5. \A e \in failoverLog' : e.at \in Int /\ e.at <= failoverClock /\ e.to \in FailoverStates
      BY <2>2, <2>3, <2>4 DEF LogIsBacked
    <2>6. ASSUME NEW state, NEW at \in Int, Backed(failoverLog, state, at) PROVE Backed(failoverLog', state, at)
      BY <2>4, <2>5, <2>6, BackedStays
    <2>7. \E e \in failoverLog' : \A f \in failoverLog' : f.at <= e.at
      <3>1. CASE failoverLog = {}
        BY <2>3, <2>4, <3>1
      <3>2. CASE failoverLog # {}
        <4>1. PICK e \in failoverLog : \A f \in failoverLog : f.at <= e.at
          BY <3>2 DEF LogIsBacked
        <4>2. CASE e.at <= row.at
          BY <2>4, <2>5, <4>1, <4>2
        <4>3. CASE ~(e.at <= row.at)
          BY <2>3, <2>4, <2>5, <4>1, <4>3
        <4>4. QED
          BY <4>2, <4>3
      <3>3. QED
        BY <3>1, <3>2
    <2>8. LogIsBacked'
      <3>1. \A e \in failoverLog' : Backed(failoverLog', e.to, e.at)
        BY <2>2, <2>3, <2>4, <2>6 DEF LogIsBacked
      <3>2. QED
        BY <2>2, <2>4, <2>5, <2>7, <3>1 DEF LogIsBacked
    <2>9. CallsAreBacked'
      <3> SUFFICES ASSUME NEW p \in Operators, failoverCalls'[p] # RelNone PROVE CallBacked(failoverCalls[p])'
        BY <2>4 DEF CallsAreBacked
      <3>1. failoverCalls'[p] = failoverCalls[p] /\ failoverCalls[p] # RelNone
        BY <2>4 DEF CallsAreBacked
      <3>2. CallBacked(failoverCalls[p])
        BY <1>0, <3>1
      <3>3. failoverCalls[p].at \in Int
        BY <3>2
      <3>4. QED
        <4>1. /\ failoverCalls[p].stage = "read" => Backed(failoverLog', failoverCalls[p].target, failoverClock + 1)
              /\ failoverCalls[p].stage = "written" => Backed(failoverLog', failoverCalls[p].target, failoverCalls[p].at)
          BY <2>2, <2>6, <3>2, <3>3
        <4>2. QED
          BY <2>4, <3>1, <3>2, <4>1
    <2>10. QED
      BY <2>8, <2>9
  <1>6. ASSUME NEW o \in Operators, FailoverCallEnds(o) PROVE RelInv'
    BY <1>1, <1>6 DEF FailoverCallEnds
  <1>7. CASE DrillStep
    BY <1>7 DEF DrillStep, DatabaseDamaged, RunDrill, failVars, LogIsBacked, CallsAreBacked
  <1>8. CASE UNCHANGED relVars
    BY <1>8 DEF relVars, failVars, LogIsBacked, CallsAreBacked
  <1>9. CASE FailoverStep
    BY <1>2, <1>3, <1>4, <1>5, <1>6, <1>9 DEF FailoverStep, RequestFailover, ApproveFailover, Advance
  <1>10. QED
    BY <1>7, <1>8, <1>9 DEF RelNext

\* A secondary becomes active only after a request, a fence and a promotion, in this order, for
\* any number of operators whose requests read a state and write a row later
\* (services/reliability/failover.py): what can_transition saw is never taken back.
THEOREM FenceBeforePromotion == RelSpec => []PromotionFollowsFence
  <1>1. RelInv => PromotionFollowsFence
    BY DEF RelInv, LogIsBacked, Backed, PromotionFollowsFence
  <1>2. QED
    BY <1>1, RelInitInv, RelStepInv, PTL DEF RelSpec

-----------------------------------------------------------------------------
(* Onboarding. *)

WorkspaceColumns == {"status", "started"}
CallColumns == {"action", "stage", "again", "loaded", "row", "seen", "rows", "facts"}

\* The requests to the workspace that are under way, as opposed to tests and events.
Visiting(c) == onboarding[c] # OnbNone /\ onboarding[c].stage \in {"reading", "written"}

\* What a visit that neither starts nor resumes makes of a row that was not torn: a pause, or
\* the status it has loaded; and only a row that was not paused is reconciled.
VisitKeeps(x) ==
  x.action \notin {"start", "resume"} /\ x.loaded # OnbNone /\ ~Torn(x.loaded) =>
    /\ x.row.started = x.loaded.started
    /\ x.row.status \in {"paused", x.loaded.status}
    /\ x.stage = "reading" => x.loaded.status # "paused"

\* The first fact, the identity, is never established.
FactsOf(x) == x.facts \in Seq(BOOLEAN) /\ (x.facts # <<>> => x.facts[1] = FALSE)

\* The inductive invariant behind PauseHolds.
VisitsKeep ==
  /\ workspace # OnbNone => DOMAIN workspace = WorkspaceColumns
  /\ DOMAIN onboarding = OnboardingCalls
  /\ \A c \in OnboardingCalls : Visiting(c) =>
       LET x == onboarding[c] IN
       /\ CallColumns \subseteq DOMAIN x /\ DOMAIN x.row = WorkspaceColumns
       /\ x.loaded # OnbNone => DOMAIN x.loaded = WorkspaceColumns
       /\ VisitKeeps(x) /\ FactsOf(x)

\* A fact is a truth value, and the identity is never established (_identity_ready).
LEMMA FactType == /\ \A step : Fact(step) \in BOOLEAN
                  /\ Fact("identity") = FALSE
  BY DEF Fact

\* A fact that is read is added behind the others.
LEMMA FactRead ==
  ASSUME NEW x, FactsOf(x), NEW facts, facts = Append(x.facts, Fact(Steps[Len(x.facts) + 1]))
  PROVE  facts \in Seq(BOOLEAN) /\ facts[1] = FALSE
  <1> DEFINE s == x.facts  e == Fact(Steps[Len(x.facts) + 1])
  <1>1. s \in Seq(BOOLEAN) /\ e \in BOOLEAN /\ (s # <<>> => s[1] = FALSE)
    BY FactType DEF FactsOf
  <1>2. s = <<>> => e = FALSE
    <2>1. s = <<>> => Steps[Len(s) + 1] = "identity"
      BY DEF Steps
    <2>2. QED
      BY <2>1, FactType, Zenon
  <1> HIDE DEF s, e
  <1>3. Append(s, e) \in Seq(BOOLEAN) /\ Append(s, e)[1] = IF s = <<>> THEN e ELSE s[1]
    BY <1>1
  <1>4. QED
    BY <1>1, <1>2, <1>3 DEF s, e

\* What a visit loads and changes.
LEMMA OpenKeeps ==
  ASSUME VisitsKeep, NEW action, NEW row, row = Changed(action, Loaded)
  PROVE  /\ DOMAIN row = WorkspaceColumns
         /\ action \notin {"start", "resume"} /\ workspace # OnbNone /\ ~Torn(workspace) =>
              /\ row.started = workspace.started
              /\ row.status \in {"paused", workspace.status}
              /\ row.status # "paused" => workspace.status # "paused"
  <1>1. DOMAIN Loaded = WorkspaceColumns /\ (workspace # OnbNone => Loaded = workspace)
    BY DEF Loaded, VisitsKeep, WorkspaceColumns
  <1>2. DOMAIN row = WorkspaceColumns
    BY <1>1 DEF Changed, WorkspaceColumns
  <1>3. ASSUME action \notin {"start", "resume"}, workspace # OnbNone
        PROVE /\ row.started = workspace.started
              /\ row.status \in {"paused", workspace.status}
              /\ row.status # "paused" => workspace.status # "paused"
    BY <1>1, <1>3 DEF Changed, WorkspaceColumns
  <1>4. QED
    BY <1>2, <1>3

\* The invariant holds of every workspace there may be at first.
LEMMA OnbInitInv == OnbInit => VisitsKeep
  BY DEF OnbInit, VisitsKeep, Visiting, WorkspaceColumns

\* Every step of a visit, a test or an event keeps the invariant.
LEMMA OnbStepInv == VisitsKeep /\ [OnbNext]_onbVars => VisitsKeep'
  <1> SUFFICES ASSUME VisitsKeep, [OnbNext]_onbVars PROVE VisitsKeep'
    OBVIOUS
  <1> DEFINE Good(x) ==
        /\ CallColumns \subseteq DOMAIN x /\ DOMAIN x.row = WorkspaceColumns
        /\ x.loaded # OnbNone => DOMAIN x.loaded = WorkspaceColumns
        /\ VisitKeeps(x) /\ FactsOf(x)
  <1>0. \A c \in OnboardingCalls : Visiting(c) => Good(onboarding[c])
    BY DEF VisitsKeep
  <1>1. ASSUME NEW c \in OnboardingCalls, NEW x, onboarding' = [onboarding EXCEPT ![c] = x],
               x # OnbNone /\ x.stage \in {"reading", "written"} => Good(x),
               workspace' # OnbNone => DOMAIN workspace' = WorkspaceColumns
        PROVE VisitsKeep'
    <2>1. DOMAIN onboarding' = OnboardingCalls
      BY <1>1 DEF VisitsKeep
    <2>2. ASSUME NEW d \in OnboardingCalls, Visiting(d)' PROVE Good(onboarding'[d])
      <3>1. CASE d = c
        BY <1>1, <2>2, <3>1 DEF VisitsKeep, Visiting
      <3>2. CASE d # c
        <4>1. onboarding'[d] = onboarding[d]
          BY <1>1, <3>2 DEF VisitsKeep
        <4>2. QED
          BY <1>0, <2>2, <4>1 DEF Visiting
      <3>3. QED
        BY <3>1, <3>2
    <2>3. QED
      BY <1>1, <2>1, <2>2 DEF VisitsKeep, VisitKeeps, FactsOf
  <1>2. ASSUME NEW c \in OnboardingCalls, NEW action, Open(c, action) PROVE VisitsKeep'
    <2> DEFINE row == Changed(action, Loaded)
               x == [action |-> action, stage |-> IF row.status = "paused" THEN "written" ELSE "reading",
                     again |-> action \in {"start", "resume", "recalculate"},
                     loaded |-> workspace, row |-> row, seen |-> OnbNone, rows |-> OnbNone, facts |-> <<>>]
    <2>1. onboarding' = [onboarding EXCEPT ![c] = x] /\ UNCHANGED workspace
      BY <1>2 DEF Open
    <2>2. /\ DOMAIN row = WorkspaceColumns
          /\ action \notin {"start", "resume"} /\ workspace # OnbNone /\ ~Torn(workspace) =>
               /\ row.started = workspace.started
               /\ row.status \in {"paused", workspace.status}
               /\ row.status # "paused" => workspace.status # "paused"
      BY OpenKeeps
    <2>3. /\ x.action = action /\ x.loaded = workspace /\ x.row = row /\ x.facts = <<>>
          /\ CallColumns \subseteq DOMAIN x
          /\ x.stage = "reading" => row.status # "paused"
      BY DEF CallColumns
    <2> HIDE DEF row, x
    <2>4. FactsOf(x)
      BY <2>3 DEF FactsOf
    <2>5. VisitKeeps(x)
      BY <2>2, <2>3 DEF VisitKeeps
    <2>6. Good(x)
      BY <2>2, <2>3, <2>4, <2>5 DEF VisitsKeep
    <2>7. QED
      BY <1>1, <2>1, <2>6 DEF VisitsKeep
  <1>3. ASSUME NEW c \in OnboardingCalls, ReadFact(c) PROVE VisitsKeep'
    <2> DEFINE y == onboarding[c]  facts == Append(y.facts, Fact(Steps[Len(y.facts) + 1]))
               x == [y EXCEPT !.facts = facts]
    <2>1. onboarding' = [onboarding EXCEPT ![c] = x] /\ UNCHANGED workspace /\ Good(y)
      BY <1>0, <1>3 DEF ReadFact, Idle, Visiting
    <2>2. facts \in Seq(BOOLEAN) /\ facts[1] = FALSE
      BY <2>1, FactRead
    <2> HIDE DEF facts
    <2>3. /\ x.action = y.action /\ x.loaded = y.loaded /\ x.row = y.row /\ x.stage = y.stage
          /\ x.facts = facts /\ DOMAIN x = DOMAIN y
      BY <2>1 DEF CallColumns
    <2> HIDE DEF x
    <2>4. Good(x)
      BY <2>1, <2>2, <2>3 DEF VisitKeeps, FactsOf
    <2>5. QED
      BY <1>1, <2>1, <2>4 DEF VisitsKeep
  <1>4. ASSUME NEW c \in OnboardingCalls, Reconcile(c) PROVE VisitsKeep'
    <2> DEFINE y == onboarding[c]
               previous(i) == IF y.rows # OnbNone THEN y.rows[i] ELSE IF steps # OnbNone THEN steps[i] ELSE "not_started"
               all == \A i \in DOMAIN y.facts : y.facts[i]
               x == [y EXCEPT !.stage = IF y.again THEN "reading" ELSE "written", !.again = FALSE,
                       !.facts = <<>>, !.seen = IF y.rows = OnbNone THEN steps ELSE y.seen,
                       !.rows = [i \in DOMAIN Steps |-> StepStatus(y.facts[i], previous(i))],
                       !.row.status = IF all THEN "activated" ELSE Derived(y.row.started)]
    <2>1. onboarding' = [onboarding EXCEPT ![c] = x] /\ UNCHANGED workspace
      BY <1>4 DEF Reconcile
    <2>2. Good(y) /\ y.stage = "reading" /\ Len(y.facts) = Len(Steps)
      BY <1>0, <1>4 DEF Reconcile, Idle, Visiting
    <2>3. ~all
      <3>1. Len(Steps) = 7
        BY DEF Steps
      <3>2. y.facts \in Seq(BOOLEAN) /\ Len(y.facts) = 7
        BY <2>2, <3>1 DEF FactsOf
      <3>3. 1 \in DOMAIN y.facts /\ y.facts # <<>>
        BY <3>2
      <3>4. y.facts[1] = FALSE
        BY <2>2, <3>3 DEF FactsOf
      <3>5. QED
        BY <3>3, <3>4
    <2>4. /\ x.action = y.action /\ x.loaded = y.loaded /\ DOMAIN x = DOMAIN y /\ x.facts = <<>>
          /\ x.row = [y.row EXCEPT !.status = Derived(y.row.started)]
      BY <2>2, <2>3 DEF CallColumns
    <2>5. /\ x.row.status = Derived(y.row.started) /\ x.row.started = y.row.started
          /\ DOMAIN x.row = WorkspaceColumns
      BY <2>2, <2>4 DEF WorkspaceColumns
    <2> HIDE DEF x, all
    <2>6. VisitKeeps(x)
      BY <2>2, <2>4, <2>5 DEF VisitKeeps, Torn
    <2>7. Good(x)
      BY <2>2, <2>4, <2>5, <2>6 DEF FactsOf
    <2>8. QED
      BY <1>1, <2>1, <2>7 DEF VisitsKeep
  <1>5. ASSUME NEW c \in OnboardingCalls, CloseCall(c) PROVE VisitsKeep'
    <2> DEFINE y == onboarding[c]
    <2>1. /\ onboarding' = [onboarding EXCEPT ![c] = OnbNone] /\ workspace' = Merge(y.loaded, y.row, workspace)
          /\ Good(y)
      BY <1>0, <1>5 DEF CloseCall, Done, Idle, Visiting
    <2>2. DOMAIN workspace' = WorkspaceColumns
      BY <2>1 DEF Merge
    <2>3. QED
      BY <1>1, <2>1, <2>2
  <1>6. ASSUME NEW c \in OnboardingCalls, UNCHANGED workspace,
               \/ Done(c)
               \/ \E x : /\ onboarding' = [onboarding EXCEPT ![c] = x]
                         /\ x.stage \in {"testing", "ingesting"}
        PROVE VisitsKeep'
    <2>1. CASE Done(c)
      BY <1>1, <1>6, <2>1 DEF Done, VisitsKeep
    <2>2. CASE \E x : onboarding' = [onboarding EXCEPT ![c] = x] /\ x.stage \in {"testing", "ingesting"}
      BY <1>1, <1>6, <2>2 DEF VisitsKeep
    <2>3. QED
      BY <1>6, <2>1, <2>2
  <1>7. ASSUME NEW c \in OnboardingCalls,
               CallFails(c) \/ CreateTest(c) \/ CommitEvent(c)
        PROVE VisitsKeep'
    BY <1>6, <1>7 DEF CallFails, CreateTest, CommitEvent
  <1>8. ASSUME NEW c \in OnboardingCalls, NEW t, NEW d, AskForTest(c, t, d) PROVE VisitsKeep'
    <2>1. [stage |-> "testing", test |-> t, trace |-> d].stage = "testing"
      OBVIOUS
    <2>2. QED
      BY <1>6, <1>8, <2>1 DEF AskForTest
  <1>9. ASSUME NEW c \in OnboardingCalls, NEW e, NEW d, RecordDetection(c, e, d) PROVE VisitsKeep'
    <2>1. [stage |-> "ingesting", event |-> e, trace |-> d, test |-> Running(d)].stage = "ingesting"
      OBVIOUS
    <2>2. QED
      BY <1>6, <1>9, <2>1 DEF RecordDetection
  <1>10. CASE UNCHANGED <<workspace, onboarding>>
    BY <1>10 DEF VisitsKeep, Visiting
  <1>11. CASE WorkspaceStep
    BY <1>2, <1>3, <1>4, <1>5, <1>7, <1>10, <1>11 DEF WorkspaceStep, RecordsChange, DeploymentMoves
  <1>12. CASE TestStep
    BY <1>7, <1>8, <1>9, <1>10, <1>12 DEF TestStep, RecordsChange, DeploymentMoves, Recommend, DecideAdvice
  <1>13. QED
    BY <1>10, <1>11, <1>12 DEF OnbNext, onbVars

\* With the invariant, only a start, a resume or the correction of a torn row ends a pause.
LEMMA OnbStepPause ==
  ASSUME VisitsKeep, [OnbNext]_onbVars, workspace # OnbNone, workspace.status = "paused",
         workspace'.status # "paused"
  PROVE  \E c \in OnboardingCalls :
           /\ ~Idle(c) /\ onboarding[c].stage = "written"
           /\ onboarding[c].action \in {"start", "resume"} \/ Torn(onboarding[c].loaded)
  <1>1. PICK c \in OnboardingCalls : CloseCall(c)
    BY DEF OnbNext, onbVars, WorkspaceStep, TestStep, RecordsChange, DeploymentMoves, Open, ReadFact,
       Reconcile, CallFails, Recommend, DecideAdvice, AskForTest, RecordDetection, CreateTest, CommitEvent
  <1> DEFINE x == onboarding[c]
  <1>2. /\ ~Idle(c) /\ x.stage = "written" /\ x.loaded # OnbNone
        /\ workspace' = Merge(x.loaded, x.row, workspace)
    BY <1>1 DEF CloseCall
  <1>3. VisitKeeps(x) /\ DOMAIN x.row = WorkspaceColumns
    BY <1>2 DEF VisitsKeep, Visiting, Idle
  <1>4. workspace'.status = IF x.row.status # x.loaded.status THEN x.row.status ELSE workspace.status
    BY <1>2, <1>3 DEF Merge, WorkspaceColumns
  <1>5. x.action \in {"start", "resume"} \/ Torn(x.loaded)
    BY <1>2, <1>3, <1>4 DEF VisitKeeps
  <1>6. QED
    BY <1>2, <1>5

\* A pause holds against any number of requests that loaded the workspace before it and commit
\* after it (services/onboarding.py): what they have not changed they do not write, and what
\* reconcile derives is what they loaded, unless the row was torn.
THEOREM PauseIsKept == OnbSpec => PauseHolds
  <1>1. VisitsKeep /\ [OnbNext]_onbVars =>
          [workspace # OnbNone /\ workspace.status = "paused" /\ workspace'.status # "paused" =>
             \E c \in OnboardingCalls :
               /\ ~Idle(c) /\ onboarding[c].stage = "written"
               /\ onboarding[c].action \in {"start", "resume"} \/ Torn(onboarding[c].loaded)]_onbVars
    BY OnbStepPause
  <1>2. QED
    BY <1>1, OnbInitInv, OnbStepInv, PTL DEF OnbSpec, PauseHolds

-----------------------------------------------------------------------------
(* The limits: no minute lets more ingestions through than the rate, no     *)
(* second and no minute more requests than the organization's quota.        *)

\* The stages at which a request carries a time it has read.
LimitWaiting == {"timed", "gated", "burst", "untimed_burst", "sustained", "untimed"}

\* Every value has its type, nobody carries a time to come, nobody waits longer than
\* MaxDelay, and a row that was loaded stays.
LimitShape ==
  /\ LimitTypeOK
  /\ \A r \in LimitRequests :
       /\ requests[r].at <= seconds
       /\ requests[r].stage \in LimitWaiting => seconds <= requests[r].at + MaxDelay
  /\ \A w \in LimitWriters :
       writers[w] # LimitNone /\ writers[w].loaded # LimitNone => tenantLimits # LimitNone

\* A request that was allowed is in the window until a minute is over.
WindowInv ==
  /\ IsFiniteSet(window)
  /\ \A r \in LimitRequests :
       requests[r].stage = "allowed" =>
         \/ [member |-> r, score |-> requests[r].at] \in window
         \/ seconds >= requests[r].at + Minute

RateInv == LimitShape /\ WindowInv /\ SlidingWindowHolds

\* The seconds that a counter counts.
KeyStart(key) == IF key[1] = "s" THEN key[2] ELSE key[2] * Minute
KeySpan(key) == IF key[1] = "s" THEN 1 ELSE Minute

QuotaKinds == {"s", "m"}

\* The key of a request for a second or a minute, and what incr returned for it: 0 before.
KindKey(kind, x) == IF kind = "s" THEN BurstKey(x.at) ELSE SustainedKey(x.at)
Turn(kind, x) == IF x \notin QuotaRows THEN 0 ELSE IF kind = "s" THEN x.burst ELSE x.sustained

\* Which turns a request has taken at its stage, and what those of an admitted one are.
TurnsAtStage(x) ==
  /\ x.stage = "gated" => x.burst = 0 /\ x.sustained = 0
  /\ x.stage \in {"burst", "untimed_burst"} => x.sustained = 0
  /\ x.stage \in {"untimed", "sustained", "admitted"} => x.sustained > 0
  /\ x.stage \in {"burst", "untimed_burst", "untimed", "sustained", "admitted"} => x.burst > 0
  /\ x.stage = "admitted" => x.burst <= x.policy.burst /\ x.sustained <= x.policy.perMinute

\* When a counter began, or later.
Since(c) == IF c.expiry = LimitNone THEN seconds ELSE c.expiry - CounterTtl(c.key)

\* n counters of a key have begun and expired, one after the other, before b.
Lapsed(key, n, b) == n = 0 \/ n * CounterTtl(key) <= b - KeyStart(key)

\* The requests that were the v-th in a counter of the key.
LimitKeys == QuotaKinds \X Nat
Turns(key, v) ==
  {r \in LimitRequests : KindKey(key[1], requests[r]) = key /\ Turn(key[1], requests[r]) = v}

\* A counter begins no earlier than what it counts, and the requests with one turn are no more
\* than the counters that have lapsed, and the one there is if it has come to that turn; and
\* they never are more than the counters that can be begun before all requests are late.
ExpiryInv ==
  \A c \in counters : c.expiry # LimitNone =>
    KeyStart(c.key) + CounterTtl(c.key) <= c.expiry /\ c.expiry <= seconds + CounterTtl(c.key)
StageInv == \A r \in LimitRequests : requests[r] \in QuotaRows => TurnsAtStage(requests[r])
TurnsInv ==
  \A key \in LimitKeys, v \in Nat \ {0} :
    LET n == Cardinality(Turns(key, v)) IN
    /\ n <= Begun(key, KeySpan(key))
    /\ (\A c \in counters : c.key # key) => Lapsed(key, n, seconds)
    /\ \A c \in counters : c.key = key /\ v <= c.value => n <= 1 \/ Lapsed(key, n - 1, Since(c))
    /\ \A c \in counters : c.key = key /\ v > c.value => Lapsed(key, n, Since(c))

QuotaInv == LimitShape /\ ExpiryInv /\ StageInv /\ TurnsInv

\* The limits in force at any time are a row of the possible columns.
LEMMA PolicyFacts ==
  /\ Policies \subseteq PolicyRows /\ DefaultPolicy \in PolicyRows /\ PolicyChoices \subseteq PolicyRows
  /\ PolicyRows \subseteq [burst : Nat, perMinute : Nat]
  <1>1. \A p \in Policies : p = [burst |-> p.burst, perMinute |-> p.perMinute]
    BY LimitsAssumption
  <1>2. Policies \subseteq PolicyRows
    BY <1>1 DEF PolicyRows
  <1>3. PolicyRows \subseteq [burst : Nat, perMinute : Nat]
    BY LimitsAssumption DEF PolicyRows
  <1>4. QED
    BY <1>2, <1>3 DEF Policies

\* The initial state has the shape.
LEMMA LimitShapeInit == LimitInit => LimitShape
  BY PolicyFacts, LimitsAssumption
     DEF LimitInit, LimitShape, LimitTypeOK, RateRows, QuotaRows, WriterRows, LimitWaiting

\* A step of one request that leaves everything else of the shape alone.
LEMMA OneRequest ==
  ASSUME LimitShape, NEW r \in LimitRequests, NEW row \in RateRows \cup QuotaRows,
         requests' = [requests EXCEPT ![r] = row],
         row.at <= seconds, row.stage \in LimitWaiting => seconds <= row.at + MaxDelay,
         UNCHANGED <<seconds, tenantLimits, writers>>,
         (counters \subseteq CounterRows /\ \A c, d \in counters : c.key = d.key => c = d)'
  PROVE  LimitShape'
  BY DEF LimitShape, LimitTypeOK

\* A request is under one limit or the other.
LEMMA RowKinds == RateRows \cap QuotaRows = {}
  <1> SUFFICES ASSUME NEW x \in RateRows, x \in QuotaRows PROVE FALSE
    OBVIOUS
  <1>1. DOMAIN x = {"stage", "at"}
    BY DEF RateRows
  <1>2. "burst" \in DOMAIN x
    BY DEF QuotaRows
  <1>3. QED
    BY <1>1, <1>2

\* A request moves to another stage of its kind.
LEMMA StageRow ==
  ASSUME LimitShape, NEW r \in LimitRequests, NEW stage, Stage(r, stage),
         \/ requests[r] \in RateRows /\ stage \in {"timed", "allowed", "over", "denied"}
         \/ requests[r] \in QuotaRows
              /\ stage \in {"gated", "untimed_burst", "burst", "untimed", "sustained", "denied", "admitted"}
  PROVE  \E row \in RateRows \cup QuotaRows :
           /\ requests' = [requests EXCEPT ![r] = row]
           /\ row.at = requests[r].at /\ row.stage = stage
           /\ requests[r] \in RateRows => row \in RateRows
           /\ requests[r] \in QuotaRows =>
                /\ row \in QuotaRows /\ row.policy = requests[r].policy
                /\ row.burst = requests[r].burst /\ row.sustained = requests[r].sustained
  <1> DEFINE row == [requests[r] EXCEPT !.stage = stage]
  <1>1. requests' = [requests EXCEPT ![r] = row]
    BY DEF Stage, LimitShape, LimitTypeOK
  <1>2. CASE requests[r] \in RateRows /\ stage \in {"timed", "allowed", "over", "denied"}
    <2>1. row \in RateRows /\ row.at = requests[r].at /\ row.stage = stage
      BY <1>2 DEF RateRows
    <2>2. requests[r] \notin QuotaRows
      BY <1>2, RowKinds
    <2>3. QED
      BY <1>1, <2>1, <2>2
  <1>3. CASE requests[r] \in QuotaRows
              /\ stage \in {"gated", "untimed_burst", "burst", "untimed", "sustained", "denied", "admitted"}
    <2>1. /\ row \in QuotaRows /\ row.at = requests[r].at /\ row.stage = stage
          /\ row.policy = requests[r].policy
          /\ row.burst = requests[r].burst /\ row.sustained = requests[r].sustained
      BY <1>3 DEF QuotaRows
    <2>2. requests[r] \notin RateRows
      BY <1>3, RowKinds
    <2>3. QED
      BY <1>1, <2>1, <2>2
  <1>4. QED
    BY <1>2, <1>3

\* div and the minute it names.
LEMMA MinuteFacts ==
  ASSUME NEW t \in Nat
  PROVE  /\ t \div Minute \in Nat
         /\ (t \div Minute) * Minute <= t /\ t < (t \div Minute) * Minute + Minute
  BY LimitsAssumption

\* incr returns the value after the one it finds, and keeps one counter per key.
LEMMA IncrementFacts ==
  ASSUME LimitShape, NEW key \in {"s", "m"} \X Nat, counters' = Incremented(key)
  PROVE  /\ Value(key) \in Nat /\ Value(key) > 0
         /\ \A c \in counters : c.key = key => Value(key) = c.value + 1
         /\ (\A c \in counters : c.key # key) => Value(key) = 1
         /\ (counters \subseteq CounterRows /\ \A c, d \in counters : c.key = d.key => c = d)'
         /\ \A c \in counters : c.key # key => c \in counters'
         /\ \E n \in counters' :
              /\ n.key = key /\ n.value = Value(key)
              /\ n.expiry = LimitNone \/ \E c \in counters : c.key = key /\ c.expiry = n.expiry
              /\ \A d \in counters' : d = n \/ (d \in counters /\ d.key # key)
  <1> DEFINE old == CHOOSE c \in counters : c.key = key
             new == [key |-> key, value |-> Value(key), expiry |-> IF Value(key) = 1 THEN LimitNone ELSE old.expiry]
  <1>1. counters \subseteq CounterRows /\ \A c, d \in counters : c.key = d.key => c = d
    BY DEF LimitShape, LimitTypeOK
  <1>2. \A c \in counters : c.value \in Nat /\ c.expiry \in Nat \cup {LimitNone}
    BY <1>1 DEF CounterRows
  <1>3. CASE \E c \in counters : c.key = key
    <2>1. old \in counters /\ old.key = key
      BY <1>3
    <2>2. Value(key) = old.value + 1
      BY <1>3 DEF Value
    <2>3. Value(key) \in Nat /\ Value(key) > 0
      BY <2>1, <2>2, <1>2
    <2>4. new \in CounterRows
      <3>1. old.expiry \in Nat \cup {LimitNone}
        BY <2>1, <1>2
      <3> HIDE DEF old
      <3>2. QED
        BY <3>1, <2>3 DEF CounterRows
    <2>5. counters' = {c \in counters : c.key # key} \cup {new}
      BY DEF Incremented
    <2>6. \A c \in counters : c.key = key => c = old
      BY <2>1, <1>1
    <2>7. new.key = key
      OBVIOUS
    <2> HIDE DEF new, old
    <2>8. (counters \subseteq CounterRows /\ \A c, d \in counters : c.key = d.key => c = d)'
      BY <2>4, <2>5, <2>7, <1>1
    <2>9. new \in counters' /\ \A d \in counters' : d = new \/ (d \in counters /\ d.key # key)
      BY <2>5
    <2>10. new.key = key /\ new.value = Value(key)
      BY DEF new
    <2>11. new.expiry = LimitNone \/ \E c \in counters : c.key = key /\ c.expiry = new.expiry
      BY <2>1 DEF new
    <2>12. QED
      BY <1>3, <2>1, <2>2, <2>3, <2>5, <2>6, <2>8, <2>9, <2>10, <2>11
  <1>4. CASE \A c \in counters : c.key # key
    <2>1. Value(key) = 1
      BY <1>4 DEF Value
    <2>2. new.key = key /\ new.value = 1 /\ new.expiry = LimitNone /\ new \in CounterRows
      BY <2>1 DEF CounterRows
    <2>5. counters' = {c \in counters : c.key # key} \cup {new}
      BY DEF Incremented
    <2> HIDE DEF new, old
    <2>8. (counters \subseteq CounterRows /\ \A c, d \in counters : c.key = d.key => c = d)'
      BY <2>2, <2>5, <1>1
    <2>9. new \in counters' /\ \A d \in counters' : d = new \/ (d \in counters /\ d.key # key)
      BY <2>5
    <2>12. QED
      BY <1>4, <2>1, <2>2, <2>5, <2>8, <2>9
  <1>5. QED
    BY <1>3, <1>4

\* expire gives a counter an expiry and changes nothing else.
LEMMA ExpireFacts ==
  ASSUME LimitShape, NEW key \in {"s", "m"} \X Nat,
         counters' = {IF c.key = key THEN [c EXCEPT !.expiry = seconds + CounterTtl(key)] ELSE c : c \in counters}
  PROVE  /\ (counters \subseteq CounterRows /\ \A c, d \in counters : c.key = d.key => c = d)'
         /\ \A c \in counters : \E d \in counters' : d.key = c.key /\ d.value = c.value
         /\ \A d \in counters' :
              \/ d \in counters
              \/ d.key = key /\ d.expiry = seconds + CounterTtl(key) /\ \E c \in counters : c.key = key /\ c.value = d.value
  <1> DEFINE timed(c) == IF c.key = key THEN [c EXCEPT !.expiry = seconds + CounterTtl(key)] ELSE c
  <1>1. counters \subseteq CounterRows /\ \A c, d \in counters : c.key = d.key => c = d
    BY DEF LimitShape, LimitTypeOK
  <1>2. seconds + CounterTtl(key) \in Nat
    BY LimitsAssumption DEF LimitShape, LimitTypeOK, CounterTtl
  <1>3. ASSUME NEW c \in counters
        PROVE  /\ timed(c) \in CounterRows /\ timed(c).key = c.key /\ timed(c).value = c.value
               /\ c.key = key => timed(c).expiry = seconds + CounterTtl(key)
               /\ c.key # key => timed(c) = c
    BY <1>1, <1>2 DEF CounterRows
  <1>4. counters' = {timed(c) : c \in counters}
    OBVIOUS
  <1> HIDE DEF timed
  <1>5. QED
    BY <1>1, <1>3, <1>4

\* The keys of a request.
LEMMA KeyTypes ==
  ASSUME LimitShape, NEW r \in LimitRequests
  PROVE  /\ requests[r].at \in Nat
         /\ BurstKey(requests[r].at) \in {"s", "m"} \X Nat
         /\ SustainedKey(requests[r].at) \in {"s", "m"} \X Nat
  <1>1. requests[r].at \in Nat
    BY DEF LimitShape, LimitTypeOK, RateRows, QuotaRows
  <1>2. QED
    BY <1>1, MinuteFacts DEF BurstKey, SustainedKey

\* What incr and the decision do to the row of a request.
LEMMA CountedRow ==
  ASSUME LimitShape, NEW r \in LimitRequests
  PROVE  /\ IncrementBurst(r) => 
              \E row \in QuotaRows :
                /\ requests[r] \in QuotaRows /\ requests' = [requests EXCEPT ![r] = row]
                /\ row.at = requests[r].at /\ row.policy = requests[r].policy
                /\ row.burst = Value(BurstKey(requests[r].at)) /\ row.sustained = requests[r].sustained
                /\ row.stage \in {"untimed_burst", "burst"}
                /\ counters' = Incremented(BurstKey(requests[r].at))
         /\ IncrementSustained(r) =>
              \E row \in QuotaRows :
                /\ requests[r] \in QuotaRows /\ requests' = [requests EXCEPT ![r] = row]
                /\ row.at = requests[r].at /\ row.policy = requests[r].policy
                /\ row.sustained = Value(SustainedKey(requests[r].at)) /\ row.burst = requests[r].burst
                /\ row.stage \in {"untimed", "sustained"}
                /\ counters' = Incremented(SustainedKey(requests[r].at))
  <1>1. requests \in [LimitRequests -> RateRows \cup QuotaRows]
    BY DEF LimitShape, LimitTypeOK
  <1>2. ASSUME IncrementBurst(r)
        PROVE  \E row \in QuotaRows :
                /\ requests[r] \in QuotaRows /\ requests' = [requests EXCEPT ![r] = row]
                /\ row.at = requests[r].at /\ row.policy = requests[r].policy
                /\ row.burst = Value(BurstKey(requests[r].at)) /\ row.sustained = requests[r].sustained
                /\ row.stage \in {"untimed_burst", "burst"}
                /\ counters' = Incremented(BurstKey(requests[r].at))
    <2> DEFINE v == Value(BurstKey(requests[r].at))
               row == [requests[r] EXCEPT !.burst = v, !.stage = IF v = 1 THEN "untimed_burst" ELSE "burst"]
    <2>1. requests[r].stage = "gated" /\ counters' = Incremented(BurstKey(requests[r].at))
      BY <1>2 DEF IncrementBurst
    <2>2. requests[r] \in QuotaRows
      BY <1>1, <2>1 DEF RateRows
    <2>3. v \in Nat
      BY <2>1, KeyTypes, IncrementFacts
    <2>4. requests' = [requests EXCEPT ![r] = row]
      BY <1>1, <1>2 DEF IncrementBurst
    <2> HIDE DEF v
    <2>5. row \in QuotaRows /\ row.at = requests[r].at /\ row.policy = requests[r].policy /\ row.burst = v
          /\ row.sustained = requests[r].sustained /\ row.stage \in {"untimed_burst", "burst"}
      BY <2>2, <2>3 DEF QuotaRows
    <2>6. QED
      BY <2>1, <2>2, <2>4, <2>5 DEF v
  <1>3. ASSUME IncrementSustained(r)
        PROVE \E row \in QuotaRows :
                /\ requests[r] \in QuotaRows /\ requests' = [requests EXCEPT ![r] = row]
                /\ row.at = requests[r].at /\ row.policy = requests[r].policy
                /\ row.sustained = Value(SustainedKey(requests[r].at)) /\ row.burst = requests[r].burst
                /\ row.stage \in {"untimed", "sustained"}
                /\ counters' = Incremented(SustainedKey(requests[r].at))
    <2> DEFINE v == Value(SustainedKey(requests[r].at))
               row == [requests[r] EXCEPT !.sustained = v, !.stage = IF v = 1 THEN "untimed" ELSE "sustained"]
    <2>1. requests[r].stage = "burst" /\ counters' = Incremented(SustainedKey(requests[r].at))
      BY <1>3 DEF IncrementSustained
    <2>2. requests[r] \in QuotaRows
      BY <1>1, <2>1 DEF RateRows
    <2>3. v \in Nat
      BY <2>1, KeyTypes, IncrementFacts
    <2>4. requests' = [requests EXCEPT ![r] = row]
      BY <1>1, <1>3 DEF IncrementSustained
    <2> HIDE DEF v
    <2>5. row \in QuotaRows /\ row.at = requests[r].at /\ row.policy = requests[r].policy /\ row.sustained = v
          /\ row.burst = requests[r].burst /\ row.stage \in {"untimed", "sustained"}
      BY <2>2, <2>3 DEF QuotaRows
    <2>6. QED
      BY <2>1, <2>2, <2>4, <2>5 DEF v
  <1>4. QED
    BY <1>2, <1>3

\* Every step keeps the shape.
LEMMA LimitShapeStep == LimitShape /\ [LimitNext]_limitVars => LimitShape'
  <1> SUFFICES ASSUME LimitShape, [LimitNext]_limitVars PROVE LimitShape'
    OBVIOUS
  <1>t. /\ requests \in [LimitRequests -> RateRows \cup QuotaRows] /\ seconds \in Nat
        /\ \A r \in LimitRequests : requests[r].at \in Nat /\ requests[r].at <= seconds
        /\ counters \subseteq CounterRows /\ \A c, d \in counters : c.key = d.key => c = d
    BY LimitsAssumption DEF LimitShape, LimitTypeOK, RateRows, QuotaRows
  <1>w. \A r \in LimitRequests : requests[r].stage \in LimitWaiting => seconds <= requests[r].at + MaxDelay
    BY DEF LimitShape
  <1>1. CASE Second
    BY <1>1, <1>t, LimitsAssumption DEF Second, LimitShape, LimitTypeOK, LimitWaiting
  <1>2. ASSUME NEW r \in LimitRequests, TakeTime(r) \/ LoadLimits(r) PROVE LimitShape'
    <2>1. CASE TakeTime(r)
      <3> DEFINE row == [stage |-> "timed", at |-> seconds]
      <3>1. row \in RateRows /\ row.at = seconds
        BY <1>t DEF RateRows
      <3>2. requests' = [requests EXCEPT ![r] = row] /\ UNCHANGED <<seconds, window, counters, tenantLimits, writers>>
        BY <2>1 DEF TakeTime
      <3> HIDE DEF row
      <3>3. row.at <= seconds /\ seconds <= row.at + MaxDelay
        BY <3>1, <1>t, LimitsAssumption
      <3>4. (counters \subseteq CounterRows /\ \A c, d \in counters : c.key = d.key => c = d)'
        BY <3>2, <1>t
      <3>5. QED
        BY <3>1, <3>2, <3>3, <3>4, OneRequest
    <2>2. CASE LoadLimits(r)
      <3> DEFINE row == [stage |-> "gated", at |-> seconds, policy |-> TenantPolicy, burst |-> 0, sustained |-> 0]
      <3>1. TenantPolicy \in PolicyRows
        BY PolicyFacts DEF TenantPolicy, LimitShape, LimitTypeOK
      <3>2. row \in QuotaRows /\ row.at = seconds
        BY <3>1, <1>t DEF QuotaRows
      <3>3. requests' = [requests EXCEPT ![r] = row] /\ UNCHANGED <<seconds, window, counters, tenantLimits, writers>>
        BY <2>2 DEF LoadLimits
      <3> HIDE DEF row
      <3>4. row.at <= seconds /\ seconds <= row.at + MaxDelay
        BY <3>2, <1>t, LimitsAssumption
      <3>5. (counters \subseteq CounterRows /\ \A c, d \in counters : c.key = d.key => c = d)'
        BY <3>3, <1>t
      <3>6. QED
        BY <3>2, <3>3, <3>4, <3>5, OneRequest
    <2>3. QED
      BY <1>2, <2>1, <2>2
  <1>3. ASSUME NEW r \in LimitRequests,
               Slide(r) \/ TakeOut(r) \/ RateStoreFails(r) \/ QuotaStoreFails(r) \/ DecideQuota(r)
        PROVE  LimitShape'
    <2>1. PICK stage : /\ Stage(r, stage) /\ stage \in {"allowed", "over", "denied", "admitted"}
                       /\ UNCHANGED <<seconds, counters, tenantLimits, writers>>
                       /\ \/ requests[r] \in RateRows /\ stage \in {"timed", "allowed", "over", "denied"}
                          \/ requests[r] \in QuotaRows /\ stage \in {"denied", "admitted"}
      <3>1. CASE Slide(r)
        BY <3>1, <1>t DEF Slide, QuotaRows
      <3>2. CASE TakeOut(r)
        BY <3>2, <1>t DEF TakeOut, QuotaRows
      <3>3. CASE RateStoreFails(r)
        BY <3>3, <1>t DEF RateStoreFails, QuotaRows
      <3>4. CASE QuotaStoreFails(r)
        BY <3>4, <1>t DEF QuotaStoreFails, RateRows
      <3>5. CASE DecideQuota(r)
        BY <3>5, <1>t DEF DecideQuota, RateRows
      <3>6. QED
        BY <1>3, <3>1, <3>2, <3>3, <3>4, <3>5
    <2>2. PICK row \in RateRows \cup QuotaRows :
            requests' = [requests EXCEPT ![r] = row] /\ row.at = requests[r].at /\ row.stage = stage
      BY <2>1, StageRow
    <2>3. QED
      BY <2>1, <2>2, <1>t, OneRequest DEF LimitWaiting
  <1>4. ASSUME NEW r \in LimitRequests, IncrementBurst(r) PROVE LimitShape'
    <2>1. PICK row \in QuotaRows :
            /\ requests' = [requests EXCEPT ![r] = row] /\ row.at = requests[r].at
            /\ counters' = Incremented(BurstKey(requests[r].at))
      BY <1>4, CountedRow
    <2>2. (counters \subseteq CounterRows /\ \A c, d \in counters : c.key = d.key => c = d)'
      BY <2>1, KeyTypes, IncrementFacts
    <2>3. requests[r].stage \in LimitWaiting /\ UNCHANGED <<seconds, tenantLimits, writers>>
      BY <1>4 DEF IncrementBurst, LimitWaiting
    <2>4. QED
      BY <2>1, <2>2, <2>3, <1>t, <1>w, OneRequest
  <1>5. ASSUME NEW r \in LimitRequests, IncrementSustained(r) PROVE LimitShape'
    <2>1. PICK row \in QuotaRows :
            /\ requests' = [requests EXCEPT ![r] = row] /\ row.at = requests[r].at
            /\ counters' = Incremented(SustainedKey(requests[r].at))
      BY <1>5, CountedRow
    <2>2. (counters \subseteq CounterRows /\ \A c, d \in counters : c.key = d.key => c = d)'
      BY <2>1, KeyTypes, IncrementFacts
    <2>3. requests[r].stage \in LimitWaiting /\ UNCHANGED <<seconds, tenantLimits, writers>>
      BY <1>5 DEF IncrementSustained, LimitWaiting
    <2>4. QED
      BY <2>1, <2>2, <2>3, <1>t, <1>w, OneRequest
  <1>6. ASSUME NEW r \in LimitRequests, ExpireBurst(r) \/ ExpireSustained(r) PROVE LimitShape'
    <2>1. PICK key \in {"s", "m"} \X Nat, stage \in {"burst", "sustained"} :
            /\ Stage(r, stage) /\ UNCHANGED <<seconds, tenantLimits, writers>>
            /\ requests[r].stage \in {"untimed_burst", "untimed"}
            /\ counters' = {IF c.key = key THEN [c EXCEPT !.expiry = seconds + CounterTtl(key)] ELSE c : c \in counters}
      BY <1>6, KeyTypes DEF ExpireBurst, ExpireSustained, Expire
    <2>2. (counters \subseteq CounterRows /\ \A c, d \in counters : c.key = d.key => c = d)'
      BY <2>1, ExpireFacts
    <2>3. requests[r] \in QuotaRows
      BY <2>1, <1>t DEF RateRows
    <2>4. PICK row \in RateRows \cup QuotaRows :
            requests' = [requests EXCEPT ![r] = row] /\ row.at = requests[r].at
      BY <2>1, <2>3, StageRow
    <2>5. requests[r].stage \in LimitWaiting
      BY <2>1 DEF LimitWaiting
    <2>6. QED
      BY <2>1, <2>2, <2>4, <2>5, <1>t, <1>w, OneRequest
  <1>7. ASSUME NEW w \in LimitWriters, NEW p \in PolicyChoices, LoadRow(w, p) PROVE LimitShape'
    <2> DEFINE row == [loaded |-> tenantLimits, asked |-> p]
    <2>1. row \in WriterRows /\ row.loaded = tenantLimits
      BY PolicyFacts DEF WriterRows, LimitShape, LimitTypeOK
    <2>2. writers' = [writers EXCEPT ![w] = row] /\ UNCHANGED <<seconds, window, counters, tenantLimits, requests>>
      BY <1>7 DEF LoadRow
    <2> HIDE DEF row
    <2>3. QED
      BY <2>1, <2>2 DEF LimitShape, LimitTypeOK
  <1>8. ASSUME NEW w \in LimitWriters, SetLimits(w) PROVE LimitShape'
    <2> DEFINE x == writers[w]
               row == [x EXCEPT !.asked = LimitNone]
    <2>1. x \in WriterRows /\ x # LimitNone /\ x.asked # LimitNone
      BY <1>8 DEF SetLimits, LimitShape, LimitTypeOK
    <2>2. row \in WriterRows /\ row.loaded = x.loaded
      BY <2>1 DEF WriterRows
    <2>3. writers' = [writers EXCEPT ![w] = row] /\ UNCHANGED <<seconds, window, counters, requests>>
      BY <1>8 DEF SetLimits, LimitShape, LimitTypeOK
    <2>4. tenantLimits' \in PolicyRows
      <3>1. CASE x.loaded = LimitNone
        BY <3>1, <2>1, <1>8 DEF SetLimits, WriterRows, LimitShape, LimitTypeOK
      <3>2. CASE x.loaded # LimitNone
        <4>1. tenantLimits \in PolicyRows /\ x.loaded \in PolicyRows /\ x.asked \in PolicyRows
          BY <3>2, <2>1 DEF LimitShape, LimitTypeOK, WriterRows
        <4>2. tenantLimits' = [column \in DOMAIN tenantLimits |->
               IF x.asked[column] # x.loaded[column] THEN x.asked[column] ELSE tenantLimits[column]]
          BY <3>2, <1>8 DEF SetLimits
        <4> HIDE DEF x
        <4>3. QED
          BY <4>1, <4>2 DEF PolicyRows
      <3>3. QED
        BY <3>1, <3>2
    <2> HIDE DEF x, row
    <2>5. tenantLimits' # LimitNone
      BY <2>4, LimitsAssumption
    <2>6. QED
      BY <2>2, <2>3, <2>4, <2>5 DEF LimitShape, LimitTypeOK
  <1>9. CASE UNCHANGED limitVars
    BY <1>9 DEF limitVars, LimitShape, LimitTypeOK
  <1>10. QED
    BY <1>1, <1>2, <1>3, <1>4, <1>5, <1>6, <1>7, <1>8, <1>9
       DEF LimitNext, RateStep, QuotaStep, PolicyStep

\* The invariant of the sliding window holds at first.
LEMMA RateInit == LimitInit => RateInv
  <1> SUFFICES ASSUME LimitInit PROVE RateInv
    OBVIOUS
  <1>1. LimitShape
    BY LimitShapeInit
  <1>2. WindowInv
    BY FS_EmptySet DEF LimitInit, WindowInv
  <1>3. \A from, to : Allowed(from, to) = {}
    BY DEF LimitInit, Allowed
  <1>4. SlidingWindowHolds
    BY <1>3, FS_EmptySet, LimitsAssumption DEF SlidingWindowHolds
  <1>5. QED
    BY <1>1, <1>2, <1>4 DEF RateInv

\* A step that allows nobody, and takes only others out of the window.
LEMMA NobodyAllowed ==
  ASSUME RateInv, seconds' = seconds, IsFiniteSet(window'),
         \A r \in LimitRequests : requests'[r].stage = "allowed" =>
           /\ requests[r].stage = "allowed" /\ requests'[r].at = requests[r].at
           /\ \A m \in window : m = [member |-> r, score |-> requests[r].at] => m \in window',
         \A r \in LimitRequests : requests[r].stage = "allowed" => requests'[r] = requests[r]
  PROVE  WindowInv' /\ SlidingWindowHolds'
  <1>1. \A from, to : Allowed(from, to)' = Allowed(from, to)
    BY DEF Allowed
  <1>2. SlidingWindowHolds'
    BY <1>1 DEF RateInv, SlidingWindowHolds
  <1>3. WindowInv'
    BY DEF RateInv, WindowInv
  <1>4. QED
    BY <1>2, <1>3

\* Slide: those it meets within the interval are all counted with it.
LEMMA SlideStep ==
  ASSUME RateInv, NEW r \in LimitRequests, Slide(r)
  PROVE  WindowInv' /\ SlidingWindowHolds'
  <1> DEFINE taken == requests[r].at
             mine == [member |-> r, score |-> taken]
             kept == {m \in window : m.score > taken - Minute} \cup {mine}
  <1>t. /\ requests \in [LimitRequests -> RateRows \cup QuotaRows] /\ seconds \in Nat
        /\ \A q \in LimitRequests : requests[q].at \in Nat /\ requests[q].at <= seconds
        /\ Minute \in Nat /\ Minute > 0 /\ MaxDelay \in Nat /\ Rate \in Nat
    BY LimitsAssumption DEF RateInv, LimitShape, LimitTypeOK, RateRows, QuotaRows
  <1>1. /\ requests[r].stage = "timed" /\ window' = kept /\ seconds' = seconds
        /\ Stage(r, IF Cardinality(kept) > Rate THEN "over" ELSE "allowed")
    BY DEF Slide
  <1>2. requests[r] \in RateRows
    BY <1>1, <1>t DEF QuotaRows
  <1>3. PICK row \in RateRows \cup QuotaRows :
          /\ requests' = [requests EXCEPT ![r] = row] /\ row.at = taken
          /\ row.stage = IF Cardinality(kept) > Rate THEN "over" ELSE "allowed"
    <2> DEFINE stage == IF Cardinality(kept) > Rate THEN "over" ELSE "allowed"
    <2>1. stage \in {"timed", "allowed", "over", "denied"} /\ Stage(r, stage)
      BY <1>1
    <2> HIDE DEF stage, kept
    <2>2. QED
      BY <1>2, <2>1, StageRow DEF RateInv, stage
  <1>4. seconds <= taken + MaxDelay
    BY <1>1 DEF RateInv, LimitShape, LimitWaiting
  <1>5. IsFiniteSet(kept)
    <2>1. IsFiniteSet({m \in window : m.score > taken - Minute})
      BY FS_Subset DEF RateInv, WindowInv
    <2>2. QED
      BY <2>1, FS_AddElement
  <1>6. \A q \in LimitRequests \ {r} : requests'[q] = requests[q]
    BY <1>3, <1>t
  <1>7. requests'[r] = row
    BY <1>3, <1>t
  <1>8. WindowInv'
    <2>1. ASSUME NEW q \in LimitRequests, requests'[q].stage = "allowed"
          PROVE  \/ [member |-> q, score |-> requests'[q].at] \in window'
                 \/ seconds' >= requests'[q].at + Minute
      <3>1. CASE q = r
        BY <3>1, <1>1, <1>3, <1>7
      <3>2. CASE q # r
        <4>1. requests'[q] = requests[q] /\ requests[q].stage = "allowed"
          BY <3>2, <2>1, <1>6
        <4>2. \/ [member |-> q, score |-> requests[q].at] \in window
              \/ seconds >= requests[q].at + Minute
          BY <4>1 DEF RateInv, WindowInv
        <4>3. CASE seconds >= requests[q].at + Minute
          BY <4>3, <4>1, <1>1
        <4>4. CASE [member |-> q, score |-> requests[q].at] \in window /\ requests[q].at > taken - Minute
          BY <4>4, <4>1, <1>1
        <4>5. CASE ~(requests[q].at > taken - Minute)
          <5>1. seconds >= requests[q].at + Minute
            BY <4>5, <1>t
          <5>2. QED
            BY <5>1, <4>1, <1>1
        <4>6. QED
          BY <4>2, <4>3, <4>4, <4>5
      <3>3. QED
        BY <3>1, <3>2
    <2>2. QED
      BY <2>1, <1>1, <1>5 DEF WindowInv
  <1>9. ASSUME NEW t \in 0..seconds PROVE Cardinality(Allowed(t, t + Minute - 1 - MaxDelay)') <= Rate
    <2> DEFINE to == t + Minute - 1 - MaxDelay
               new == Allowed(t, to)'
    <2>0. new = {q \in LimitRequests : requests'[q].stage = "allowed" /\ requests'[q].at \in t..to}
      BY DEF Allowed
    <2>1. CASE r \notin new
      <3>1. new \subseteq Allowed(t, to)
        BY <2>1, <2>0, <1>6 DEF Allowed
      <3>2. Cardinality(Allowed(t, to)) <= Rate
        BY DEF RateInv, SlidingWindowHolds
      <3>3. IsFiniteSet(Allowed(t, to))
        BY LimitsAssumption, FS_Subset DEF Allowed
      <3>4. Cardinality(new) <= Cardinality(Allowed(t, to)) /\ Cardinality(new) \in Nat /\ Cardinality(Allowed(t, to)) \in Nat
        BY <3>1, <3>3, FS_Subset, FS_CardinalityType
      <3>5. QED
        BY <3>2, <3>4, <1>t
    <2>2. CASE r \in new
      <3>1. row.stage = "allowed" /\ taken \in t..to
        BY <2>2, <2>0, <1>7, <1>3
      <3>2. Cardinality(kept) <= Rate
        <4>1. Cardinality(kept) \in Nat
          BY <1>5, FS_CardinalityType
        <4>2. ~(Cardinality(kept) > Rate)
          BY <3>1, <1>3
        <4>3. QED
          BY <4>1, <4>2, <1>t
      <3>3. ASSUME NEW q \in new PROVE [member |-> q, score |-> requests'[q].at] \in kept
        <4>1. CASE q = r
          BY <4>1, <1>7, <1>3
        <4>2. CASE q # r
          <5>1. q \in LimitRequests /\ requests[q].stage = "allowed" /\ requests[q].at \in t..to
                /\ requests'[q] = requests[q]
            BY <4>2, <2>0, <1>6
          <5>2. requests[q].at > taken - Minute /\ ~(seconds >= requests[q].at + Minute)
            BY <5>1, <3>1, <1>4, <1>t
          <5>3. [member |-> q, score |-> requests[q].at] \in window
            BY <5>1, <5>2 DEF RateInv, WindowInv
          <5>4. QED
            BY <5>1, <5>2, <5>3
        <4>3. QED
          BY <4>1, <4>2
      <3> DEFINE f == [q \in new |-> [member |-> q, score |-> requests'[q].at]]
      <3> HIDE DEF kept, new
      <3>4. f \in Injection(new, kept)
        <4>1. f \in [new -> kept]
          BY <3>3
        <4>2. ASSUME NEW p \in new, NEW q \in new, f[p] = f[q] PROVE p = q
          <5>1. f[p].member = p /\ f[q].member = q
            OBVIOUS
          <5>2. QED
            BY <4>2, <5>1
        <4>3. QED
          BY <4>1, <4>2 DEF Injection, IsInjective
      <3>5. Cardinality(new) <= Cardinality(kept) /\ IsFiniteSet(new)
        BY <3>4, <1>5, FS_Injection, Zenon DEF ExistsInjection
      <3>6. Cardinality(new) \in Nat /\ Cardinality(kept) \in Nat
        BY <3>5, <1>5, FS_CardinalityType
      <3>7. QED
        BY <3>2, <3>5, <3>6, <1>t DEF new
    <2>3. QED
      BY <2>1, <2>2
  <1>10. SlidingWindowHolds'
    BY <1>1, <1>9 DEF SlidingWindowHolds
  <1>11. QED
    BY <1>8, <1>10

\* Every step keeps the invariant of the sliding window.
LEMMA RateStepInv == RateInv /\ [LimitNext]_limitVars => RateInv'
  <1> SUFFICES ASSUME RateInv, [LimitNext]_limitVars PROVE WindowInv' /\ SlidingWindowHolds'
    BY LimitShapeStep DEF RateInv
  <1>t. /\ requests \in [LimitRequests -> RateRows \cup QuotaRows] /\ seconds \in Nat
        /\ \A q \in LimitRequests : requests[q].at \in Nat /\ requests[q].at <= seconds
        /\ LimitShape /\ IsFiniteSet(window)
    BY LimitsAssumption DEF RateInv, LimitShape, LimitTypeOK, RateRows, QuotaRows, WindowInv
  <1>1. CASE Second
    <2>1. seconds' = seconds + 1 /\ window' = window /\ requests' = requests
      BY <1>1 DEF Second
    <2>2. WindowInv'
      BY <2>1, <1>t, LimitsAssumption DEF RateInv, WindowInv
    <2>3. ASSUME NEW t \in 0..seconds' PROVE Cardinality(Allowed(t, t + Minute - 1 - MaxDelay)') <= Rate
      <3>1. Allowed(t, t + Minute - 1 - MaxDelay)' = Allowed(t, t + Minute - 1 - MaxDelay)
        BY <2>1 DEF Allowed
      <3>2. CASE t \in 0..seconds
        BY <3>1, <3>2 DEF RateInv, SlidingWindowHolds
      <3>3. CASE t = seconds + 1
        <4>1. Allowed(t, t + Minute - 1 - MaxDelay) = {}
          BY <3>3, <1>t, LimitsAssumption DEF Allowed
        <4>2. QED
          BY <3>1, <4>1, FS_EmptySet, LimitsAssumption
      <3>4. QED
        BY <3>2, <3>3, <2>1, <1>t
    <2>4. QED
      BY <2>2, <2>3 DEF SlidingWindowHolds
  <1>2. ASSUME NEW r \in LimitRequests, Slide(r) PROVE WindowInv' /\ SlidingWindowHolds'
    BY <1>2, SlideStep
  <1>3. ASSUME NEW r \in LimitRequests, TakeOut(r) PROVE WindowInv' /\ SlidingWindowHolds'
    <2>1. /\ requests[r].stage = "over" /\ requests[r] \in RateRows /\ seconds' = seconds /\ Stage(r, "denied")
          /\ window' = {m \in window : m.member # r} \/ window' = window
      BY <1>3, <1>t DEF TakeOut, QuotaRows
    <2>2. PICK row \in RateRows \cup QuotaRows : requests' = [requests EXCEPT ![r] = row] /\ row.stage = "denied"
      BY <2>1, <1>t, StageRow
    <2>3. IsFiniteSet(window')
      BY <2>1, <1>t, FS_Subset
    <2>4. \A q \in LimitRequests \ {r} : requests'[q] = requests[q]
      BY <2>2, <1>t
    <2>5. \A q \in LimitRequests : requests'[q].stage = "allowed" => q # r
      BY <2>2, <1>t
    <2>6. \A q \in LimitRequests : requests[q].stage = "allowed" => q # r
      BY <2>1
    <2>7. \A q \in LimitRequests \ {r} : \A m \in window :
            m = [member |-> q, score |-> requests[q].at] => m \in window'
      BY <2>1
    <2>8. QED
      BY <2>1, <2>3, <2>4, <2>5, <2>6, <2>7, NobodyAllowed
  <1>4. ASSUME NEW r \in LimitRequests, NEW row,
               requests' = [requests EXCEPT ![r] = row], row.stage # "allowed", requests[r].stage # "allowed",
               UNCHANGED <<seconds, window>>
        PROVE  WindowInv' /\ SlidingWindowHolds'
    BY <1>4, <1>t, NobodyAllowed
  <1>5. ASSUME NEW r \in LimitRequests, TakeTime(r) \/ LoadLimits(r) PROVE WindowInv' /\ SlidingWindowHolds'
    <2>1. PICK row : /\ requests' = [requests EXCEPT ![r] = row] /\ row.stage # "allowed"
                     /\ requests[r].stage # "allowed" /\ UNCHANGED <<seconds, window>>
      <3>1. CASE TakeTime(r)
        <4> DEFINE row == [stage |-> "timed", at |-> seconds]
        <4>1. row.stage # "allowed"
          OBVIOUS
        <4>2. QED
          BY <3>1, <4>1 DEF TakeTime
      <3>2. CASE LoadLimits(r)
        <4> DEFINE row == [stage |-> "gated", at |-> seconds, policy |-> TenantPolicy, burst |-> 0, sustained |-> 0]
        <4>1. row.stage # "allowed"
          OBVIOUS
        <4>2. QED
          BY <3>2, <4>1 DEF LoadLimits
      <3>3. QED
        BY <1>5, <3>1, <3>2
    <2>2. QED
      BY <2>1, <1>4
  <1>6. ASSUME NEW r \in LimitRequests,
               RateStoreFails(r) \/ QuotaStoreFails(r) \/ DecideQuota(r) \/ ExpireBurst(r) \/ ExpireSustained(r)
        PROVE  WindowInv' /\ SlidingWindowHolds'
    <2>1. PICK stage : /\ Stage(r, stage) /\ stage # "allowed" /\ requests[r].stage # "allowed"
                       /\ UNCHANGED <<seconds, window>>
                       /\ \/ requests[r] \in RateRows /\ stage \in {"timed", "allowed", "over", "denied"}
                          \/ requests[r] \in QuotaRows /\ stage \in {"denied", "admitted", "burst", "sustained"}
      <3>3. CASE RateStoreFails(r)
        BY <3>3, <1>t DEF RateStoreFails, QuotaRows
      <3>4. CASE QuotaStoreFails(r)
        BY <3>4, <1>t DEF QuotaStoreFails, RateRows
      <3>5. CASE DecideQuota(r)
        BY <3>5, <1>t DEF DecideQuota, RateRows
      <3>6. CASE ExpireBurst(r)
        BY <3>6, <1>t DEF ExpireBurst, Expire, RateRows
      <3>7. CASE ExpireSustained(r)
        BY <3>7, <1>t DEF ExpireSustained, Expire, RateRows
      <3>8. QED
        BY <1>6, <3>3, <3>4, <3>5, <3>6, <3>7
    <2>2. PICK row \in RateRows \cup QuotaRows : requests' = [requests EXCEPT ![r] = row] /\ row.stage = stage
      BY <2>1, <1>t, StageRow
    <2>3. QED
      BY <2>1, <2>2, <1>4
  <1>7. ASSUME NEW r \in LimitRequests, IncrementBurst(r) PROVE WindowInv' /\ SlidingWindowHolds'
    <2>1. PICK row \in QuotaRows : requests' = [requests EXCEPT ![r] = row] /\ row.stage # "allowed"
      BY <1>7, <1>t, CountedRow
    <2>2. QED
      BY <1>7, <2>1, <1>4 DEF IncrementBurst
  <1>8. ASSUME NEW r \in LimitRequests, IncrementSustained(r) PROVE WindowInv' /\ SlidingWindowHolds'
    <2>1. PICK row \in QuotaRows : requests' = [requests EXCEPT ![r] = row] /\ row.stage # "allowed"
      BY <1>8, <1>t, CountedRow
    <2>2. QED
      BY <1>8, <2>1, <1>4 DEF IncrementSustained
  <1>9. CASE PolicyStep \/ UNCHANGED limitVars
    <2>1. UNCHANGED <<seconds, window, requests>>
      BY <1>9 DEF PolicyStep, SetLimits, LoadRow, limitVars
    <2>2. QED
      BY <2>1, <1>t, NobodyAllowed
  <1>10. QED
    BY <1>1, <1>2, <1>3, <1>5, <1>6, <1>7, <1>8, <1>9 DEF LimitNext, RateStep, QuotaStep

\* RedisRateLimiter.allow admits no more than the rate in any minute less the delay, for any
\* number of requests that interleave between taking the time and the transaction in Redis,
\* while rejected ones leave the window or fail to.
THEOREM RateIsKept == LimitSpec => []SlidingWindowHolds
  <1>1. RateInv => SlidingWindowHolds
    BY DEF RateInv
  <1>2. QED
    BY RateInit, RateStepInv, <1>1, PTL DEF LimitSpec

\* The key of a request counts its second, or its minute.
LEMMA KindFacts ==
  ASSUME NEW x \in RateRows \cup QuotaRows, NEW kind \in QuotaKinds
  PROVE  /\ KindKey(kind, x) \in LimitKeys /\ KindKey(kind, x)[1] = kind
         /\ KeyStart(KindKey(kind, x)) <= x.at
         /\ x.at < KeyStart(KindKey(kind, x)) + KeySpan(KindKey(kind, x))
         /\ Turn(kind, x) \in Nat
  <1>1. x.at \in Nat
    BY DEF RateRows, QuotaRows
  <1>2. /\ x.at \div Minute \in Nat
        /\ (x.at \div Minute) * Minute <= x.at /\ x.at < (x.at \div Minute) * Minute + Minute
    BY <1>1, MinuteFacts
  <1>3. Turn(kind, x) \in Nat
    BY DEF Turn, QuotaRows
  <1>4. CASE kind = "s"
    <2>1. KindKey(kind, x) = <<"s", x.at>>
      BY <1>4 DEF KindKey, BurstKey
    <2>2. QED
      BY <1>1, <1>3, <1>4, <2>1 DEF KeyStart, KeySpan, QuotaKinds, LimitKeys
  <1>5. CASE kind = "m"
    <2> DEFINE n == x.at \div Minute
    <2>1. KindKey(kind, x) = <<"m", n>>
      BY <1>5 DEF KindKey, SustainedKey
    <2>2. n \in Nat /\ n * Minute <= x.at /\ x.at < n * Minute + Minute
      BY <1>2, LimitsAssumption
    <2> HIDE DEF n
    <2>3. KeyStart(KindKey(kind, x)) = n * Minute /\ KeySpan(KindKey(kind, x)) = Minute
      BY <2>1 DEF KeyStart, KeySpan
    <2>4. KindKey(kind, x) \in LimitKeys /\ KindKey(kind, x)[1] = kind
      BY <2>1, <2>2, <1>5 DEF QuotaKinds, LimitKeys
    <2>5. QED
      BY <1>3, <2>2, <2>3, <2>4
  <1>6. QED
    BY <1>4, <1>5 DEF QuotaKinds

LEMMA KeyFacts ==
  ASSUME NEW key \in LimitKeys
  PROVE  KeyStart(key) \in Nat /\ KeySpan(key) \in Nat \ {0} /\ CounterTtl(key) \in Nat \ {0}
  <1>1. PICK kind \in {"s", "m"}, n \in Nat : key = <<kind, n>>
    BY DEF LimitKeys, QuotaKinds
  <1>2. n * Minute \in Nat /\ Minute \in Nat \ {0}
    BY LimitsAssumption
  <1>3. QED
    BY <1>1, <1>2 DEF KeyStart, KeySpan, CounterTtl

\* Products and quotients of natural numbers.
LEMMA Multiples ==
  ASSUME NEW k \in Nat \ {0}, NEW m \in Nat, NEW n \in Nat
  PROVE  /\ m <= n => m * k <= n * k
         /\ (n + 1) * k = n * k + k
         /\ n \div k \in Nat /\ (n \div k) * k <= n
         /\ m * k <= n => m <= n \div k
  <1>1. m <= n => m * k <= n * k
    <2> SUFFICES ASSUME m <= n PROVE m * k <= n * k
      OBVIOUS
    <2>1. PICK i \in Nat : n = m + i
      <3>1. n - m \in Nat /\ n = m + (n - m)
        OBVIOUS
      <3>2. QED
        BY <3>1
    <2>2. i * k >= 0 /\ n * k = m * k + i * k
      BY <2>1
    <2>3. m * k \in Int /\ n * k \in Int /\ i * k \in Int
      BY <2>1
    <2>4. QED
      BY ONLY <2>2, <2>3
  <1>2. (n + 1) * k = n * k + k
    OBVIOUS
  <1>3. n \div k \in Nat /\ (n \div k) * k <= n /\ n < (n \div k) * k + k
    OBVIOUS
  <1>4. m * k <= n => m <= n \div k
    <2> DEFINE q == n \div k
    <2> SUFFICES ASSUME m * k <= n, ~(m <= q) PROVE FALSE
      OBVIOUS
    <2>1. q \in Nat /\ n < q * k + k /\ q * k + k = (q + 1) * k
      BY <1>3
    <2> HIDE DEF q
    <2>2. PICK i \in Nat : m = (q + 1) + i
      <3>1. m - (q + 1) \in Nat /\ m = (q + 1) + (m - (q + 1))
        BY <2>1
      <3>2. QED
        BY <3>1
    <2>3. m * k = (q + 1) * k + i * k /\ i * k >= 0
      BY <2>1, <2>2
    <2>4. m * k \in Int /\ (q + 1) * k \in Int /\ i * k \in Int /\ n \in Int
      BY <2>1, <2>2
    <2>5. QED
      BY ONLY <2>1, <2>3, <2>4, m * k <= n
  <1>5. QED
    BY <1>1, <1>2, <1>3, <1>4

\* Fewer have lapsed, and later still have.
LEMMA LapsedStays ==
  ASSUME NEW key \in LimitKeys, NEW m \in Nat, NEW n \in Nat, NEW a \in Int, NEW b \in Int,
         Lapsed(key, n, a), m <= n, a <= b
  PROVE  Lapsed(key, m, b)
  <1> DEFINE k == CounterTtl(key)
  <1>1. KeyStart(key) \in Nat /\ k \in Nat \ {0}
    BY KeyFacts
  <1>2. CASE m # 0
    <2>1. n * k <= a - KeyStart(key)
      BY <1>2 DEF Lapsed
    <2> HIDE DEF k
    <2>2. m * k <= n * k /\ m * k \in Int /\ n * k \in Int
      BY <1>1, Multiples
    <2>3. m * k <= b - KeyStart(key)
      BY <1>1, <2>1, <2>2
    <2>4. QED
      BY <2>3 DEF Lapsed, k
  <1>3. QED
    BY <1>2 DEF Lapsed

\* A counter that began at a has lapsed at the end of its life.
LEMMA LapsedOnceMore ==
  ASSUME NEW key \in LimitKeys, NEW n \in Nat, NEW a \in Int, NEW b \in Int,
         Lapsed(key, n, a), KeyStart(key) <= a, a + CounterTtl(key) <= b
  PROVE  Lapsed(key, n + 1, b)
  <1> DEFINE k == CounterTtl(key)
  <1>1. KeyStart(key) \in Nat /\ k \in Nat \ {0}
    BY KeyFacts
  <1>2. n * k <= a - KeyStart(key) /\ a + k <= b
    BY <1>1 DEF Lapsed
  <1> HIDE DEF k
  <1>3. (n + 1) * k = n * k + k /\ n * k \in Int
    BY <1>1, Multiples
  <1>4. (n + 1) * k <= b - KeyStart(key)
    BY <1>1, <1>2, <1>3
  <1>5. QED
    BY <1>4 DEF Lapsed, k

\* While requests of the key may still come, one more counter can begin.
LEMMA LapsedBound ==
  ASSUME NEW key \in LimitKeys, NEW n \in Nat, NEW b \in Int,
         Lapsed(key, n, b), b < KeyStart(key) + KeySpan(key) + MaxDelay
  PROVE  n + 1 <= Begun(key, KeySpan(key))
  <1> DEFINE k == CounterTtl(key)
             d == KeySpan(key) - 1 + MaxDelay
  <1>1. KeyStart(key) \in Nat /\ k \in Nat \ {0} /\ KeySpan(key) \in Nat \ {0} /\ MaxDelay \in Nat
    BY KeyFacts, LimitsAssumption
  <1>2. d \in Nat /\ b - KeyStart(key) <= d
    BY <1>1
  <1>3. n = 0 \/ n * k <= b - KeyStart(key)
    BY DEF Lapsed
  <1> HIDE DEF k, d
  <1>4. n * k <= d
    <2>1. n * k \in Int /\ 0 * k = 0
      BY <1>1
    <2>2. QED
      BY <1>1, <1>2, <1>3, <2>1
  <1>5. n <= d \div k /\ d \div k \in Nat
    BY <1>1, <1>2, <1>4, Multiples
  <1>6. Begun(key, KeySpan(key)) = 1 + d \div k
    BY DEF Begun, d, k
  <1>7. QED
    BY <1>5, <1>6

\* When a counter began is before now, and no earlier than what it counts, unless it has no
\* expiry yet.
LEMMA SinceFacts ==
  ASSUME QuotaInv, NEW c \in counters
  PROVE  /\ c.key \in LimitKeys /\ c.value \in Nat /\ Since(c) \in Int /\ Since(c) <= seconds
         /\ c.expiry # LimitNone => KeyStart(c.key) <= Since(c) /\ Since(c) + CounterTtl(c.key) = c.expiry
  <1>1. c.key \in LimitKeys /\ c.value \in Nat /\ c.expiry \in Nat \cup {LimitNone} /\ seconds \in Nat
    BY LimitsAssumption DEF QuotaInv, LimitShape, LimitTypeOK, CounterRows, LimitKeys, QuotaKinds
  <1>2. KeyStart(c.key) \in Nat /\ CounterTtl(c.key) \in Nat
    BY <1>1, KeyFacts
  <1>3. c.expiry # LimitNone =>
          KeyStart(c.key) + CounterTtl(c.key) <= c.expiry /\ c.expiry <= seconds + CounterTtl(c.key)
    BY DEF QuotaInv, ExpiryInv
  <1>4. QED
    BY <1>1, <1>2, <1>3 DEF Since

\* The sets of requests with one turn are finite.
LEMMA TurnsFinite ==
  ASSUME NEW key, NEW v
  PROVE  Turns(key, v) \in SUBSET LimitRequests /\ IsFiniteSet(Turns(key, v)) /\ Cardinality(Turns(key, v)) \in Nat
  <1>1. Turns(key, v) \in SUBSET LimitRequests
    BY DEF Turns
  <1>2. QED
    BY <1>1, LimitsAssumption, FS_Subset, FS_CardinalityType

\* A step in which no request takes a turn and counters at most grow older, get their expiry or
\* lapse.
LEMMA NoTurnTaken ==
  ASSUME QuotaInv, seconds' \in Nat, seconds <= seconds',
         \A key \in LimitKeys, v \in Nat \ {0} : Turns(key, v)' \subseteq Turns(key, v),
         \A d \in counters' : Since(d)' \in Int /\ \E c \in counters :
           c.key = d.key /\ c.value = d.value /\ Since(c) <= Since(d)',
         \A c \in counters :
           \/ \E d \in counters' : d.key = c.key
           \/ c.expiry # LimitNone /\ c.expiry <= seconds'
  PROVE  TurnsInv'
  <1> SUFFICES ASSUME NEW key \in LimitKeys, NEW v \in Nat \ {0}
               PROVE  LET n == Cardinality(Turns(key, v)') IN
                      /\ n <= Begun(key, KeySpan(key))
                      /\ (\A d \in counters' : d.key # key) => Lapsed(key, n, seconds')
                      /\ \A d \in counters' : d.key = key /\ v <= d.value => n <= 1 \/ Lapsed(key, n - 1, Since(d)')
                      /\ \A d \in counters' : d.key = key /\ v > d.value => Lapsed(key, n, Since(d)')
    BY DEF TurnsInv, LimitKeys, QuotaKinds, Begun, KeySpan, CounterTtl, Lapsed, KeyStart
  <1> DEFINE n == Cardinality(Turns(key, v))
             m == Cardinality(Turns(key, v)')
  <1>1. n \in Nat /\ m \in Nat /\ m <= n
    BY TurnsFinite, FS_Subset, FS_CardinalityType
  <1>2. /\ n <= Begun(key, KeySpan(key))
        /\ (\A c \in counters : c.key # key) => Lapsed(key, n, seconds)
        /\ \A c \in counters : c.key = key /\ v <= c.value => n <= 1 \/ Lapsed(key, n - 1, Since(c))
        /\ \A c \in counters : c.key = key /\ v > c.value => Lapsed(key, n, Since(c))
    BY DEF QuotaInv, TurnsInv
  <1>3. KeyStart(key) \in Nat /\ CounterTtl(key) \in Nat \ {0} /\ seconds \in Nat
    BY KeyFacts DEF QuotaInv, LimitShape, LimitTypeOK
  <1>4. Begun(key, KeySpan(key)) \in Int
    <2>1. (KeySpan(key) - 1 + MaxDelay) \in Nat
      BY KeyFacts, LimitsAssumption
    <2>2. (KeySpan(key) - 1 + MaxDelay) \div CounterTtl(key) \in Nat
      BY <2>1, <1>3, Multiples
    <2>3. QED
      BY <2>2 DEF Begun
  <1> HIDE DEF n, m
  <1>5. m <= Begun(key, KeySpan(key))
    BY <1>1, <1>2, <1>4
  <1>6. ASSUME \A d \in counters' : d.key # key PROVE Lapsed(key, m, seconds')
    <2>1. CASE \A c \in counters : c.key # key
      BY <2>1, <1>1, <1>2, <1>3, LapsedStays
    <2>2. ASSUME NEW c \in counters, c.key = key PROVE Lapsed(key, m, seconds')
      <3>1. c.expiry # LimitNone /\ c.expiry <= seconds'
        BY <1>6, <2>2
      <3>2. c.value \in Nat /\ Since(c) \in Int /\ KeyStart(key) <= Since(c) /\ Since(c) + CounterTtl(key) <= seconds'
        BY <2>2, <3>1, SinceFacts
      <3>3. CASE v > c.value
        <4>1. Lapsed(key, n, Since(c))
          BY <2>2, <3>3, <1>2
        <4>2. Since(c) <= seconds'
          BY <3>2, <1>3
        <4>3. QED
          BY <4>1, <4>2, <3>2, <1>1, LapsedStays
      <3>4. CASE v <= c.value /\ n # 0
        <4> DEFINE i == n - 1
                   a == Since(c)
        <4>1. i \in Nat /\ Lapsed(key, i, a) /\ i + 1 = n
          BY <2>2, <3>4, <1>1, <1>2 DEF Lapsed
        <4> DEFINE b == seconds'
        <4>2. a \in Int /\ b \in Int /\ KeyStart(key) <= a /\ a + CounterTtl(key) <= b
          BY <3>2
        <4> HIDE DEF i, a, b
        <4>3. Lapsed(key, i + 1, b)
          BY ONLY key \in LimitKeys, <4>1, <4>2, LapsedOnceMore
        <4>4. QED
          BY <4>1, <4>2, <4>3, <1>1, LapsedStays DEF b
      <3>5. CASE n = 0
        BY <3>5, <1>1 DEF Lapsed
      <3>6. QED
        BY <3>2, <3>3, <3>4, <3>5
    <2>3. QED
      BY <2>1, <2>2
  <1>7. ASSUME NEW d \in counters', d.key = key
        PROVE  /\ v <= d.value => m <= 1 \/ Lapsed(key, m - 1, Since(d)')
               /\ v > d.value => Lapsed(key, m, Since(d)')
    <2>1. PICK c \in counters : c.key = key /\ c.value = d.value /\ Since(c) <= Since(d)'
      BY <1>7
    <2>2. Since(c) \in Int /\ Since(d)' \in Int
      BY <1>7, SinceFacts
    <2>3. ASSUME v <= d.value, m > 1 PROVE Lapsed(key, m - 1, Since(d)')
      <3>1. m - 1 \in Nat /\ n - 1 \in Nat /\ m - 1 <= n - 1 /\ Lapsed(key, n - 1, Since(c))
        BY <2>1, <2>3, <1>1, <1>2
      <3>2. QED
        BY <3>1, <2>1, <2>2, LapsedStays
    <2>4. ASSUME v > d.value PROVE Lapsed(key, m, Since(d)')
      BY <2>1, <2>2, <2>4, <1>1, <1>2, LapsedStays
    <2>5. QED
      BY <2>3, <2>4, <1>1
  <1>8. QED
    BY <1>5, <1>6, <1>7 DEF m

\* A request that takes no turn.
LEMMA NoTurn ==
  ASSUME QuotaInv, NEW r \in LimitRequests, NEW row \in RateRows \cup QuotaRows,
         requests' = [requests EXCEPT ![r] = row],
         row \in QuotaRows => TurnsAtStage(row),
         \A kind \in QuotaKinds :
           Turn(kind, row) > 0 => Turn(kind, row) = Turn(kind, requests[r]) /\ row.at = requests[r].at
  PROVE  StageInv' /\ \A key \in LimitKeys, v \in Nat \ {0} : Turns(key, v)' \subseteq Turns(key, v)
  <1>t. requests \in [LimitRequests -> RateRows \cup QuotaRows]
    BY DEF QuotaInv, LimitShape, LimitTypeOK
  <1>1. requests'[r] = row /\ \A q \in LimitRequests \ {r} : requests'[q] = requests[q]
    BY <1>t
  <1>2. StageInv'
    BY <1>1 DEF QuotaInv, StageInv
  <1>3. ASSUME NEW kind \in QuotaKinds, NEW q \in LimitRequests, Turn(kind, requests'[q]) > 0
        PROVE  /\ Turn(kind, requests'[q]) = Turn(kind, requests[q])
               /\ KindKey(kind, requests'[q]) = KindKey(kind, requests[q])
    BY <1>1, <1>3 DEF KindKey
  <1>4. ASSUME NEW key \in LimitKeys, NEW v \in Nat \ {0}, NEW q \in Turns(key, v)'
        PROVE  q \in Turns(key, v)
    <2>1. /\ q \in LimitRequests /\ KindKey(key[1], requests'[q]) = key
          /\ Turn(key[1], requests'[q]) = v /\ v > 0
      BY <1>4 DEF Turns, KindKey, BurstKey, SustainedKey, Turn, QuotaRows, PolicyRows, Policies
    <2>2. key[1] \in QuotaKinds
      BY DEF LimitKeys
    <2>3. QED
      BY <1>3, <2>1, <2>2 DEF Turns
  <1>5. QED
    BY <1>2, <1>4

\* A request that takes a turn: incr of its key while requests of the key may still come.
LEMMA TurnTaken ==
  ASSUME QuotaInv, NEW r \in LimitRequests, NEW row \in QuotaRows, NEW kind \in QuotaKinds,
         requests' = [requests EXCEPT ![r] = row], seconds' = seconds,
         TurnsAtStage(row), row.at = requests[r].at,
         seconds <= requests[r].at + MaxDelay, Turn(kind, requests[r]) = 0,
         Turn(kind, row) = Value(KindKey(kind, requests[r])),
         \A k \in QuotaKinds \ {kind} : Turn(k, row) = Turn(k, requests[r]),
         counters' = Incremented(KindKey(kind, requests[r]))
  PROVE  ExpiryInv' /\ StageInv' /\ TurnsInv'
  <1> DEFINE at == KindKey(kind, requests[r])
             v0 == Value(at)
  <1>t. /\ requests \in [LimitRequests -> RateRows \cup QuotaRows] /\ LimitShape /\ seconds \in Nat
        /\ requests[r].at \in Nat /\ MaxDelay \in Nat
    BY LimitsAssumption DEF QuotaInv, LimitShape, LimitTypeOK, RateRows, QuotaRows
  <1>1. requests'[r] = row /\ \A q \in LimitRequests \ {r} : requests'[q] = requests[q]
    BY <1>t
  <1>2. StageInv'
    BY <1>1 DEF QuotaInv, StageInv
  <1>k. /\ at \in LimitKeys /\ at \in {"s", "m"} \X Nat /\ at[1] = kind
        /\ KeyStart(at) \in Nat /\ KeySpan(at) \in Nat /\ CounterTtl(at) \in Nat
        /\ requests[r].at < KeyStart(at) + KeySpan(at)
    BY <1>t, KindFacts, KeyFacts DEF QuotaKinds, LimitKeys
  <1>b. seconds < KeyStart(at) + KeySpan(at) + MaxDelay
    BY <1>k, <1>t
  <1>i. /\ v0 \in Nat /\ v0 > 0
        /\ \A c \in counters : c.key = at => v0 = c.value + 1
        /\ (\A c \in counters : c.key # at) => v0 = 1
        /\ \A c \in counters : c.key # at => c \in counters'
    BY <1>k, <1>t, IncrementFacts
  <1>n. PICK new \in counters' :
          /\ new.key = at /\ new.value = v0
          /\ new.expiry = LimitNone \/ \E c \in counters : c.key = at /\ c.expiry = new.expiry
          /\ \A d \in counters' : d = new \/ (d \in counters /\ d.key # at)
    BY <1>k, <1>t, IncrementFacts
  <1> DEFINE began == IF new.expiry = LimitNone THEN seconds ELSE new.expiry - CounterTtl(at)
  <1>u. \A c, d \in counters : c.key = d.key => c = d
    BY DEF QuotaInv, LimitShape, LimitTypeOK
  <1>s. began \in Int /\ began <= seconds /\ \A c \in counters : c.key = at => Since(c) <= began
    <2>1. CASE new.expiry = LimitNone
      BY <2>1, <1>t, SinceFacts
    <2>2. CASE new.expiry # LimitNone
      <3>1. PICK c \in counters : c.key = at /\ c.expiry = new.expiry
        BY <2>2, <1>n
      <3>2. began = Since(c)
        BY <2>2, <3>1 DEF Since
      <3>3. \A d \in counters : d.key = at => d = c
        BY <3>1, <1>u
      <3>4. Since(c) \in Int /\ Since(c) <= seconds
        BY SinceFacts
      <3> HIDE DEF began
      <3>5. QED
        BY <3>2, <3>3, <3>4
    <2>3. QED
      BY <2>1, <2>2
  <1>p. /\ Since(new)' = began
        /\ \A c \in counters : Since(c)' = Since(c)
    BY <1>n DEF Since, CounterTtl
  <1>3. ExpiryInv'
    <2>1. \A c \in counters : c.expiry # LimitNone =>
            KeyStart(c.key) + CounterTtl(c.key) <= c.expiry /\ c.expiry <= seconds + CounterTtl(c.key)
      BY DEF QuotaInv, ExpiryInv
    <2>2. ASSUME NEW d \in counters', d.expiry # LimitNone
          PROVE  KeyStart(d.key) + CounterTtl(d.key) <= d.expiry /\ d.expiry <= seconds' + CounterTtl(d.key)
      BY <2>1, <2>2, <1>n
    <2>3. QED
      BY <2>2 DEF ExpiryInv, KeyStart, CounterTtl
  <1> HIDE DEF at, v0, began
  <1>q. ASSUME NEW key \in LimitKeys, NEW v \in Nat \ {0}, NEW q \in Turns(key, v)'
        PROVE  q \in Turns(key, v) \/ (q = r /\ key = at /\ v = v0)
    <2>1. /\ q \in LimitRequests /\ KindKey(key[1], requests'[q]) = key /\ Turn(key[1], requests'[q]) = v
      BY <1>q DEF Turns, KindKey, BurstKey, SustainedKey, Turn, QuotaRows, PolicyRows, Policies
    <2>2. key[1] \in QuotaKinds
      BY DEF LimitKeys
    <2>3. CASE q # r
      <3>1. requests'[q] = requests[q]
        BY <2>1, <2>3, <1>1
      <3>2. QED
        BY <2>1, <3>1 DEF Turns
    <2>4. CASE q = r /\ key[1] # kind
      <3>1. requests'[q] = row /\ KindKey(key[1], row) = KindKey(key[1], requests[r])
        BY <2>4, <1>1 DEF KindKey
      <3>2. QED
        BY <2>1, <2>2, <2>4, <3>1 DEF Turns
    <2>5. CASE q = r /\ key[1] = kind
      <3>1. requests'[q] = row /\ KindKey(kind, row) = at /\ Turn(kind, row) = v0
        BY <2>5, <1>1 DEF KindKey, at, v0
      <3>2. QED
        BY <2>1, <2>5, <3>1
    <2>6. QED
      BY <2>3, <2>4, <2>5
  <1>4. ASSUME NEW key \in LimitKeys, NEW v \in Nat \ {0}
        PROVE  LET m == Cardinality(Turns(key, v)') IN
               /\ m <= Begun(key, KeySpan(key))
               /\ (\A d \in counters' : d.key # key) => Lapsed(key, m, seconds')
               /\ \A d \in counters' : d.key = key /\ v <= d.value => m <= 1 \/ Lapsed(key, m - 1, Since(d)')
               /\ \A d \in counters' : d.key = key /\ v > d.value => Lapsed(key, m, Since(d)')
    <2> DEFINE n == Cardinality(Turns(key, v))
               m == Cardinality(Turns(key, v)')
    <2>1. /\ n <= Begun(key, KeySpan(key))
          /\ (\A c \in counters : c.key # key) => Lapsed(key, n, seconds)
          /\ \A c \in counters : c.key = key /\ v <= c.value => n <= 1 \/ Lapsed(key, n - 1, Since(c))
          /\ \A c \in counters : c.key = key /\ v > c.value => Lapsed(key, n, Since(c))
      BY DEF QuotaInv, TurnsInv
    <2>2. n \in Nat /\ IsFiniteSet(Turns(key, v))
      BY TurnsFinite
    <2>3. m \in Nat /\ m <= n + 1 /\ (~(key = at /\ v = v0) => m <= n)
      <3>1. Turns(key, v)' \subseteq Turns(key, v) \cup {r}
        BY <1>q
      <3>2. ~(key = at /\ v = v0) => Turns(key, v)' \subseteq Turns(key, v)
        BY <1>q
      <3>3. /\ IsFiniteSet(Turns(key, v) \cup {r}) /\ Cardinality(Turns(key, v) \cup {r}) \in Nat
            /\ Cardinality(Turns(key, v) \cup {r}) <= n + 1
        <4> DEFINE T == Turns(key, v)
        <4>1. IsFiniteSet(T) /\ Cardinality(T) = n /\ n \in Nat
          BY <2>2
        <4> HIDE DEF T, n
        <4>2. IsFiniteSet(T \cup {r}) /\ Cardinality(T \cup {r}) = IF r \in T THEN Cardinality(T) ELSE Cardinality(T) + 1
          BY <4>1, FS_AddElement
        <4>3. Cardinality(T \cup {r}) \in Nat /\ Cardinality(T \cup {r}) <= n + 1
          BY <4>1, <4>2
        <4>4. QED
          BY <4>2, <4>3 DEF T
      <3> DEFINE S == Turns(key, v)'
                 T == Turns(key, v)
      <3> HIDE DEF S, T
      <3>4. IsFiniteSet(T \cup {r}) /\ S \subseteq T \cup {r} /\ IsFiniteSet(T)
        BY <3>1, <3>3, <2>2 DEF S, T
      <3>5. IsFiniteSet(S) /\ Cardinality(S) <= Cardinality(T \cup {r}) /\ Cardinality(S) \in Nat
        BY <3>4, FS_Subset, FS_CardinalityType
      <3>6. ~(key = at /\ v = v0) => Cardinality(S) <= Cardinality(T)
        BY <3>2, <3>4, FS_Subset DEF S, T
      <3>7. Cardinality(T \cup {r}) <= n + 1 /\ Cardinality(T \cup {r}) \in Nat /\ Cardinality(T) = n /\ Cardinality(S) = m
        BY <3>3 DEF S, T
      <3> HIDE DEF n, m
      <3>8. QED
        BY <3>5, <3>6, <3>7, <2>2
    <2>4. Begun(key, KeySpan(key)) \in Int
      <3>1. (KeySpan(key) - 1 + MaxDelay) \in Nat /\ CounterTtl(key) \in Nat \ {0}
        BY KeyFacts, <1>t
      <3>2. (KeySpan(key) - 1 + MaxDelay) \div CounterTtl(key) \in Nat
        BY <3>1, Multiples
      <3>3. QED
        BY <3>2 DEF Begun
    <2> HIDE DEF n, m
    <2>5. CASE key # at
      <3>1. m <= n
        BY <2>3, <2>5
      <3>2. \A c \in counters : c.key = key => Since(c) \in Int
        BY SinceFacts
      <3>3. (\A d \in counters' : d.key # key) => Lapsed(key, m, seconds')
        BY <2>1, <2>2, <2>3, <2>5, <3>1, <1>i, <1>t, LapsedStays
      <3>4. ASSUME NEW d \in counters', d.key = key PROVE d \in counters /\ Since(d)' = Since(d) /\ Since(d) \in Int
        BY <2>5, <3>2, <3>4, <1>n, <1>p
      <3>5. ASSUME NEW d \in counters', d.key = key, v <= d.value, m > 1 PROVE Lapsed(key, m - 1, Since(d)')
        <4>1. m - 1 \in Nat /\ n - 1 \in Nat /\ m - 1 <= n - 1 /\ Lapsed(key, n - 1, Since(d))
          BY <3>1, <3>4, <3>5, <2>1, <2>2, <2>3
        <4>2. QED
          BY <4>1, <3>4, <3>5, LapsedStays
      <3>6. ASSUME NEW d \in counters', d.key = key, v > d.value PROVE Lapsed(key, m, Since(d)')
        BY <3>1, <3>4, <3>6, <2>1, <2>2, <2>3, LapsedStays
      <3>7. m <= Begun(key, KeySpan(key))
        BY <3>1, <2>1, <2>2, <2>3, <2>4
      <3>8. QED
        BY <3>3, <3>5, <3>6, <3>7, <2>3 DEF m
    <2>6. CASE key = at
      <3>1. ASSUME NEW c \in counters, c.key = at
            PROVE  Since(c) \in Int /\ Since(c) <= began /\ v0 = c.value + 1 /\ c.value \in Nat
        BY <3>1, <1>s, <1>i, SinceFacts
      <3>2. v >= v0 => Lapsed(key, n, began)
        <4> SUFFICES ASSUME v >= v0 PROVE Lapsed(key, n, began)
          OBVIOUS
        <4>1. CASE \A c \in counters : c.key # at
          <5>1. began = seconds
            BY <4>1, <1>n DEF began
          <5>2. QED
            BY <4>1, <5>1, <2>1, <2>6
        <4>2. ASSUME NEW c \in counters, c.key = at PROVE Lapsed(key, n, began)
          <5>1. v > c.value
            BY <3>1, <4>2
          <5>2. Lapsed(key, n, Since(c))
            BY <4>2, <5>1, <2>1, <2>6
          <5>3. QED
            BY <5>2, <3>1, <4>2, <2>2, <1>s, LapsedStays
        <4>3. QED
          BY <4>1, <4>2
      <3>3. v < v0 => n <= 1 \/ Lapsed(key, n - 1, began)
        <4> SUFFICES ASSUME v < v0, n > 1 PROVE Lapsed(key, n - 1, began)
          BY <2>2
        <4>1. PICK c \in counters : c.key = at
          BY <1>i
        <4>2. v <= c.value /\ n - 1 \in Nat
          BY <3>1, <4>1, <2>2
        <4>3. Lapsed(key, n - 1, Since(c))
          BY <4>1, <4>2, <2>1, <2>2, <2>6
        <4>4. QED
          BY <4>1, <4>2, <4>3, <3>1, <1>s, LapsedStays
      <3>4. v <= v0 => m <= 1 \/ Lapsed(key, m - 1, began)
        <4> SUFFICES ASSUME v <= v0, m > 1 PROVE Lapsed(key, m - 1, began)
          BY <2>3
        <4>1. CASE v = v0
          <5>1. m - 1 \in Nat /\ m - 1 <= n
            BY <2>2, <2>3
          <5>2. QED
            BY <5>1, <4>1, <3>2, <2>2, <1>i, <1>s, LapsedStays
        <4>2. CASE v # v0
          <5>1. m - 1 \in Nat /\ n - 1 \in Nat /\ m - 1 <= n - 1 /\ v < v0 /\ n > 1
            BY <4>2, <2>2, <2>3, <1>i
          <5>2. Lapsed(key, n - 1, began)
            BY <5>1, <3>3, <2>2
          <5>3. QED
            BY <5>1, <5>2, <1>s, LapsedStays
        <4>3. QED
          BY <4>1, <4>2
      <3>5. v > v0 => Lapsed(key, m, began)
        BY <3>2, <2>2, <2>3, <1>i, <1>s, LapsedStays
      <3>6. m <= Begun(key, KeySpan(key))
        <4>1. CASE v = v0
          <5>1. n + 1 <= Begun(key, KeySpan(key))
            BY <4>1, <3>2, <2>2, <2>6, <1>b, <1>k, <1>s, <1>t, <1>i, LapsedBound
          <5>2. QED
            BY <5>1, <2>2, <2>3, <2>4
        <4>2. CASE v # v0
          BY <4>2, <2>1, <2>2, <2>3, <2>4
        <4>3. QED
          BY <4>1, <4>2
      <3>7. \A d \in counters' : d.key = key => d = new
        BY <2>6, <1>n
      <3>8. QED
        BY <3>4, <3>5, <3>6, <3>7, <1>n, <1>p, <2>6 DEF m
    <2>7. QED
      BY <2>5, <2>6
  <1>5. TurnsInv'
    BY <1>4 DEF TurnsInv, LimitKeys, QuotaKinds, Begun, KeySpan, CounterTtl, Lapsed, KeyStart
  <1>6. QED
    BY <1>2, <1>3, <1>5

\* The invariant of the quota holds at first.
LEMMA QuotaInit == LimitInit => QuotaInv
  <1> SUFFICES ASSUME LimitInit PROVE QuotaInv
    OBVIOUS
  <1>1. LimitShape
    BY LimitShapeInit
  <1>2. \A r \in LimitRequests : requests[r] \notin QuotaRows
    BY DEF LimitInit, QuotaRows
  <1>3. \A kind \in QuotaKinds, r \in LimitRequests : Turn(kind, requests[r]) = 0
    BY <1>2 DEF Turn
  <1>4. counters = {}
    BY DEF LimitInit
  <1>5. ASSUME NEW key \in LimitKeys, NEW v \in Nat \ {0}
        PROVE  Cardinality(Turns(key, v)) = 0 /\ 0 <= Begun(key, KeySpan(key))
    <2>1. key[1] \in QuotaKinds
      BY DEF LimitKeys
    <2>2. Turns(key, v) = {}
      BY <1>3, <2>1 DEF Turns
    <2>3. CounterTtl(key) \in Nat \ {0} /\ KeySpan(key) - 1 + MaxDelay \in Nat
      BY KeyFacts, LimitsAssumption
    <2>4. (KeySpan(key) - 1 + MaxDelay) \div CounterTtl(key) \in Nat
      BY <2>3, Multiples
    <2>5. QED
      BY <2>2, <2>4, FS_EmptySet DEF Begun
  <1>6. TurnsInv
    BY <1>4, <1>5 DEF TurnsInv, Lapsed
  <1>7. QED
    BY <1>1, <1>2, <1>4, <1>6 DEF QuotaInv, ExpiryInv, StageInv

\* A step that changes neither counters nor the clock.
LEMMA NoCount ==
  ASSUME QuotaInv, NEW r \in LimitRequests, NEW row \in RateRows \cup QuotaRows,
         requests' = [requests EXCEPT ![r] = row], UNCHANGED <<seconds, counters>>,
         row \in QuotaRows => TurnsAtStage(row),
         \A kind \in QuotaKinds :
           Turn(kind, row) > 0 => Turn(kind, row) = Turn(kind, requests[r]) /\ row.at = requests[r].at
  PROVE  ExpiryInv' /\ StageInv' /\ TurnsInv'
  <1>1. ExpiryInv'
    BY DEF QuotaInv, ExpiryInv, KeyStart, CounterTtl
  <1>2. StageInv' /\ \A key \in LimitKeys, v \in Nat \ {0} : Turns(key, v)' \subseteq Turns(key, v)
    BY NoTurn
  <1>3. seconds' \in Nat /\ seconds <= seconds'
    BY DEF QuotaInv, LimitShape, LimitTypeOK
  <1>4. \A d \in counters' : Since(d)' \in Int /\ d \in counters /\ Since(d) <= Since(d)'
    <2>1. \A d \in counters : Since(d)' = Since(d) /\ Since(d) \in Int
      BY SinceFacts DEF Since, CounterTtl
    <2>2. QED
      BY <2>1
  <1>5. QED
    BY <1>1, <1>2, <1>3, <1>4, NoTurnTaken

\* Every step keeps the invariant of the quota.
LEMMA QuotaStepInv == QuotaInv /\ [LimitNext]_limitVars => QuotaInv'
  <1> SUFFICES ASSUME QuotaInv, [LimitNext]_limitVars
               PROVE  ExpiryInv' /\ StageInv' /\ TurnsInv'
    BY LimitShapeStep DEF QuotaInv
  <1>t. /\ requests \in [LimitRequests -> RateRows \cup QuotaRows] /\ seconds \in Nat
        /\ \A q \in LimitRequests : requests[q].at \in Nat /\ requests[q].at <= seconds
        /\ LimitShape /\ MaxDelay \in Nat
        /\ \A q \in LimitRequests : requests[q] \in QuotaRows => TurnsAtStage(requests[q])
    BY LimitsAssumption DEF QuotaInv, LimitShape, LimitTypeOK, RateRows, QuotaRows, StageInv
  <1>w. \A q \in LimitRequests : requests[q].stage \in LimitWaiting => seconds <= requests[q].at + MaxDelay
    BY DEF QuotaInv, LimitShape
  <1>1. CASE Second
    <2>1. /\ seconds' = seconds + 1 /\ requests' = requests
          /\ counters' = {c \in counters : c.expiry = LimitNone \/ c.expiry > seconds + 1}
      BY <1>1 DEF Second
    <2>2. \A c \in counters :
            /\ c.key \in LimitKeys /\ c.expiry \in Nat \cup {LimitNone} /\ CounterTtl(c.key) \in Nat
            /\ Since(c) \in Int /\ Since(c) <= seconds
      BY SinceFacts, KeyFacts DEF QuotaInv, LimitShape, LimitTypeOK, CounterRows
    <2>3. ExpiryInv'
      <3>1. ASSUME NEW d \in counters', d.expiry # LimitNone
            PROVE  KeyStart(d.key) + CounterTtl(d.key) <= d.expiry /\ d.expiry <= seconds' + CounterTtl(d.key)
        <4>1. d \in counters
          BY <2>1
        <4>2. KeyStart(d.key) + CounterTtl(d.key) <= d.expiry /\ d.expiry <= seconds + CounterTtl(d.key)
          BY <3>1, <4>1 DEF QuotaInv, ExpiryInv
        <4>3. d.expiry \in Nat /\ CounterTtl(d.key) \in Nat
          BY <3>1, <4>1, <2>2
        <4>4. d.expiry <= seconds' + CounterTtl(d.key)
          BY <4>2, <4>3, <2>1, <1>t
        <4>5. QED
          BY <4>2, <4>4
      <3>2. QED
        BY <3>1 DEF ExpiryInv, KeyStart, CounterTtl
    <2>4. StageInv'
      BY <2>1 DEF QuotaInv, StageInv
    <2>5. \A key \in LimitKeys, v \in Nat \ {0} : Turns(key, v)' \subseteq Turns(key, v)
      BY <2>1 DEF Turns, KindKey, BurstKey, SustainedKey, Turn, QuotaRows, PolicyRows, Policies
    <2>6. ASSUME NEW d \in counters'
          PROVE  d \in counters /\ Since(d)' \in Int /\ Since(d) <= Since(d)'
      <3>1. d \in counters
        BY <2>1
      <3>2. Since(d)' = IF d.expiry = LimitNone THEN seconds + 1 ELSE d.expiry - CounterTtl(d.key)
        BY <2>1 DEF Since, CounterTtl
      <3>3. Since(d) = IF d.expiry = LimitNone THEN seconds ELSE d.expiry - CounterTtl(d.key)
        BY DEF Since
      <3>4. QED
        BY <3>1, <3>2, <3>3, <2>2, <1>t
    <2>7. \A c \in counters : c \in counters' \/ (c.expiry # LimitNone /\ c.expiry <= seconds')
      BY <2>1, <2>2, <1>t
    <2>8. seconds' \in Nat /\ seconds <= seconds'
      BY <2>1, <1>t
    <2>9. TurnsInv'
      BY <2>5, <2>6, <2>7, <2>8, NoTurnTaken
    <2>10. QED
      BY <2>3, <2>4, <2>9
  <1>2. ASSUME NEW r \in LimitRequests, TakeTime(r) \/ LoadLimits(r)
        PROVE  ExpiryInv' /\ StageInv' /\ TurnsInv'
    <2>1. CASE TakeTime(r)
      <3> DEFINE row == [stage |-> "timed", at |-> seconds]
      <3>1. row \in RateRows
        BY <1>t DEF RateRows
      <3>2. row \notin QuotaRows
        BY <3>1, RowKinds
      <3>3. requests' = [requests EXCEPT ![r] = row] /\ UNCHANGED <<seconds, counters>>
        BY <2>1 DEF TakeTime
      <3> HIDE DEF row
      <3>4. \A kind \in QuotaKinds : ~(Turn(kind, row) > 0)
        BY <3>2 DEF Turn
      <3>5. QED
        BY <3>1, <3>2, <3>3, <3>4, NoCount
    <2>2. CASE LoadLimits(r)
      <3> DEFINE row == [stage |-> "gated", at |-> seconds, policy |-> TenantPolicy, burst |-> 0, sustained |-> 0]
      <3>1. TenantPolicy \in PolicyRows
        BY <1>t, PolicyFacts DEF TenantPolicy, LimitShape, LimitTypeOK
      <3>2. row \in QuotaRows
        BY <3>1, <1>t DEF QuotaRows
      <3>3. requests' = [requests EXCEPT ![r] = row] /\ UNCHANGED <<seconds, counters>>
        BY <2>2 DEF LoadLimits
      <3>4. TurnsAtStage(row) /\ row.burst = 0 /\ row.sustained = 0
        BY DEF TurnsAtStage
      <3> HIDE DEF row
      <3>5. \A kind \in QuotaKinds : ~(Turn(kind, row) > 0)
        BY <3>4 DEF Turn
      <3>6. QED
        BY <3>2, <3>3, <3>4, <3>5, NoCount
    <2>3. QED
      BY <1>2, <2>1, <2>2
  <1>3. ASSUME NEW r \in LimitRequests, Slide(r) \/ TakeOut(r) \/ RateStoreFails(r)
        PROVE  ExpiryInv' /\ StageInv' /\ TurnsInv'
    <2>1. PICK stage \in {"allowed", "over", "denied"} :
            Stage(r, stage) /\ requests[r] \in RateRows /\ UNCHANGED <<seconds, counters>>
      <3>1. CASE Slide(r)
        BY <3>1, <1>t DEF Slide, QuotaRows
      <3>2. CASE TakeOut(r)
        BY <3>2, <1>t DEF TakeOut, QuotaRows
      <3>3. CASE RateStoreFails(r)
        BY <3>3, <1>t DEF RateStoreFails, QuotaRows
      <3>4. QED
        BY <1>3, <3>1, <3>2, <3>3
    <2>2. PICK row \in RateRows \cup QuotaRows : requests' = [requests EXCEPT ![r] = row] /\ row \in RateRows
      BY <2>1, <1>t, StageRow
    <2>3. row \notin QuotaRows
      BY <2>2, RowKinds
    <2>4. \A kind \in QuotaKinds : ~(Turn(kind, row) > 0)
      BY <2>3 DEF Turn
    <2>5. QED
      BY <2>1, <2>2, <2>3, <2>4, NoCount
  <1>4. ASSUME NEW r \in LimitRequests, NEW stage \in {"denied", "admitted", "burst", "sustained"},
               Stage(r, stage), requests[r] \in QuotaRows, seconds' = seconds,
               stage = "admitted" =>
                 /\ requests[r].stage = "sustained" /\ requests[r].burst <= requests[r].policy.burst
                 /\ requests[r].sustained <= requests[r].policy.perMinute,
               stage = "burst" => requests[r].stage = "untimed_burst",
               stage = "sustained" => requests[r].stage = "untimed"
        PROVE  \E row \in QuotaRows :
                 /\ requests' = [requests EXCEPT ![r] = row] /\ TurnsAtStage(row)
                 /\ row.at = requests[r].at
                 /\ \A kind \in QuotaKinds : Turn(kind, row) = Turn(kind, requests[r])
    <2>1. PICK row \in RateRows \cup QuotaRows :
            /\ requests' = [requests EXCEPT ![r] = row]
            /\ row.at = requests[r].at /\ row.stage = stage
            /\ row \in QuotaRows /\ row.policy = requests[r].policy
            /\ row.burst = requests[r].burst /\ row.sustained = requests[r].sustained
      BY <1>4, <1>t, StageRow
    <2>2. TurnsAtStage(requests[r])
      BY <1>4, <1>t
    <2>3. TurnsAtStage(row)
      BY <1>4, <2>1, <2>2 DEF TurnsAtStage
    <2>4. \A kind \in QuotaKinds : Turn(kind, row) = Turn(kind, requests[r])
      BY <1>4, <2>1 DEF Turn
    <2>5. QED
      BY <2>1, <2>3, <2>4
  <1>5. ASSUME NEW r \in LimitRequests, QuotaStoreFails(r) \/ DecideQuota(r)
        PROVE  ExpiryInv' /\ StageInv' /\ TurnsInv'
    <2>1. PICK stage \in {"denied", "admitted"} :
            /\ Stage(r, stage) /\ requests[r] \in QuotaRows /\ UNCHANGED <<seconds, counters>>
            /\ stage = "admitted" =>
                 /\ requests[r].stage = "sustained" /\ requests[r].burst <= requests[r].policy.burst
                 /\ requests[r].sustained <= requests[r].policy.perMinute
      <3>1. CASE QuotaStoreFails(r)
        BY <3>1, <1>t DEF QuotaStoreFails, RateRows
      <3>2. CASE DecideQuota(r)
        <4>1. requests[r] \in QuotaRows
          BY <3>2, <1>t DEF DecideQuota, RateRows
        <4>2. /\ requests[r].burst \in Nat /\ requests[r].sustained \in Nat
              /\ requests[r].policy.burst \in Nat /\ requests[r].policy.perMinute \in Nat
          BY <4>1, PolicyFacts DEF QuotaRows
        <4>3. QED
          BY <3>2, <4>1, <4>2 DEF DecideQuota
      <3>3. QED
        BY <1>5, <3>1, <3>2
    <2>2. QED
      BY <2>1, <1>4, NoCount
  <1>6. ASSUME NEW r \in LimitRequests, ExpireBurst(r) \/ ExpireSustained(r)
        PROVE  ExpiryInv' /\ StageInv' /\ TurnsInv'
    <2>1. PICK kind \in QuotaKinds, stage \in {"burst", "sustained"} :
            LET key == KindKey(kind, requests[r]) IN
            /\ Stage(r, stage) /\ seconds' = seconds
            /\ requests[r].stage = IF stage = "burst" THEN "untimed_burst" ELSE "untimed"
            /\ counters' = {IF c.key = key THEN [c EXCEPT !.expiry = seconds + CounterTtl(key)] ELSE c : c \in counters}
      BY <1>6 DEF ExpireBurst, ExpireSustained, Expire, KindKey, QuotaKinds
    <2> DEFINE key == KindKey(kind, requests[r])
    <2>2. requests[r] \in QuotaRows
      BY <2>1, <1>t DEF RateRows
    <2>3. PICK row \in QuotaRows :
                 /\ requests' = [requests EXCEPT ![r] = row] /\ TurnsAtStage(row)
                 /\ row.at = requests[r].at
                 /\ \A k \in QuotaKinds : Turn(k, row) = Turn(k, requests[r])
      BY <2>1, <2>2, <1>4
    <2>4. key \in {"s", "m"} \X Nat /\ KeyStart(key) \in Nat /\ CounterTtl(key) \in Nat /\ KeyStart(key) <= requests[r].at
      BY <1>t, KindFacts, KeyFacts DEF QuotaKinds, LimitKeys
    <2>5. /\ \A c \in counters : \E d \in counters' : d.key = c.key /\ d.value = c.value
          /\ \A d \in counters' :
               \/ d \in counters
               \/ d.key = key /\ d.expiry = seconds + CounterTtl(key) /\ \E c \in counters : c.key = key /\ c.value = d.value
      BY <2>1, <2>4, <1>t, ExpireFacts
    <2>6. seconds + CounterTtl(key) >= KeyStart(key) + CounterTtl(key) /\ seconds + CounterTtl(key) \in Nat
      BY <2>4, <1>t
    <2> HIDE DEF key
    <2>7. \A d \in counters' : d.expiry # LimitNone =>
            KeyStart(d.key) + CounterTtl(d.key) <= d.expiry /\ d.expiry <= seconds + CounterTtl(d.key)
      BY <2>4, <2>5, <2>6, <1>t DEF QuotaInv, ExpiryInv
    <2>8. ExpiryInv'
      BY <2>1, <2>7 DEF ExpiryInv, KeyStart, CounterTtl
    <2>9. \A c \in counters : Since(c) \in Int /\ Since(c) <= seconds
      BY SinceFacts
    <2>10. ASSUME NEW d \in counters'
           PROVE  Since(d)' \in Int /\ \E c \in counters : c.key = d.key /\ c.value = d.value /\ Since(c) <= Since(d)'
      <3>1. CASE d \in counters
        <4>1. Since(d)' = Since(d)
          BY <2>1 DEF Since, CounterTtl
        <4>2. QED
          BY <3>1, <4>1, <2>9
      <3>2. ASSUME d.key = key, d.expiry = seconds + CounterTtl(key), NEW c \in counters, c.key = key, c.value = d.value
            PROVE  Since(d)' \in Int /\ \E e \in counters : e.key = d.key /\ e.value = d.value /\ Since(e) <= Since(d)'
        <4>1. d.expiry # LimitNone /\ Since(d)' = d.expiry - CounterTtl(d.key)
          BY <3>2, <2>6, LimitsAssumption DEF Since, CounterTtl
        <4>2. Since(d)' = seconds
          BY <3>2, <4>1, <2>4, <1>t
        <4>3. QED
          BY <3>2, <4>2, <2>9, <1>t
      <3>3. QED
        BY <3>1, <3>2, <2>5
    <2>11. StageInv' /\ \A k \in LimitKeys, v \in Nat \ {0} : Turns(k, v)' \subseteq Turns(k, v)
      BY <2>3, NoTurn
    <2>12. seconds' \in Nat /\ seconds <= seconds'
      BY <2>1, <1>t
    <2>13. TurnsInv'
      BY <2>5, <2>10, <2>11, <2>12, NoTurnTaken
    <2>14. QED
      BY <2>8, <2>11, <2>13
  <1>7. ASSUME NEW r \in LimitRequests, IncrementBurst(r)
        PROVE  ExpiryInv' /\ StageInv' /\ TurnsInv'
    <2>1. PICK row \in QuotaRows :
                /\ requests[r] \in QuotaRows /\ requests' = [requests EXCEPT ![r] = row]
                /\ row.at = requests[r].at /\ row.policy = requests[r].policy
                /\ row.burst = Value(BurstKey(requests[r].at)) /\ row.sustained = requests[r].sustained
                /\ row.stage \in {"untimed_burst", "burst"}
                /\ counters' = Incremented(BurstKey(requests[r].at))
      BY <1>7, <1>t, CountedRow
    <2>2. requests[r].stage = "gated" /\ seconds' = seconds /\ requests[r].stage \in LimitWaiting
      BY <1>7 DEF IncrementBurst, LimitWaiting
    <2>3. KindKey("s", requests[r]) = BurstKey(requests[r].at)
      BY DEF KindKey
    <2>4. Value(BurstKey(requests[r].at)) > 0
      BY <2>1, <1>t, KeyTypes, IncrementFacts
    <2>5. TurnsAtStage(row)
      BY <2>1, <2>2, <2>4, <1>t DEF TurnsAtStage
    <2>6. Turn("s", row) = row.burst /\ \A k \in QuotaKinds \ {"s"} : Turn(k, row) = Turn(k, requests[r])
      BY <2>1 DEF Turn
    <2>7. Turn("s", requests[r]) = 0
      BY <2>1, <2>2, <1>t DEF Turn, TurnsAtStage
    <2>8. QED
      BY <2>1, <2>2, <2>3, <2>5, <2>6, <2>7, <1>w, TurnTaken DEF QuotaKinds
  <1>8. ASSUME NEW r \in LimitRequests, IncrementSustained(r)
        PROVE  ExpiryInv' /\ StageInv' /\ TurnsInv'
    <2>1. PICK row \in QuotaRows :
                /\ requests[r] \in QuotaRows /\ requests' = [requests EXCEPT ![r] = row]
                /\ row.at = requests[r].at /\ row.policy = requests[r].policy
                /\ row.sustained = Value(SustainedKey(requests[r].at)) /\ row.burst = requests[r].burst
                /\ row.stage \in {"untimed", "sustained"}
                /\ counters' = Incremented(SustainedKey(requests[r].at))
      BY <1>8, <1>t, CountedRow
    <2>2. requests[r].stage = "burst" /\ seconds' = seconds /\ requests[r].stage \in LimitWaiting
      BY <1>8 DEF IncrementSustained, LimitWaiting
    <2>3. KindKey("m", requests[r]) = SustainedKey(requests[r].at)
      BY DEF KindKey
    <2>4. Value(SustainedKey(requests[r].at)) > 0
      BY <2>1, <1>t, KeyTypes, IncrementFacts
    <2>5. TurnsAtStage(row)
      BY <2>1, <2>2, <2>4, <1>t DEF TurnsAtStage
    <2>6. Turn("m", row) = row.sustained /\ \A k \in QuotaKinds \ {"m"} : Turn(k, row) = Turn(k, requests[r])
      BY <2>1 DEF Turn, QuotaKinds
    <2>7. Turn("m", requests[r]) = 0
      BY <2>1, <2>2, <1>t DEF Turn, TurnsAtStage
    <2>8. QED
      BY <2>1, <2>2, <2>3, <2>5, <2>6, <2>7, <1>w, TurnTaken DEF QuotaKinds
  <1>9. CASE PolicyStep \/ UNCHANGED limitVars
    <2>1. UNCHANGED <<seconds, counters, requests>>
      BY <1>9 DEF PolicyStep, SetLimits, LoadRow, limitVars
    <2>2. QED
      <3>1. ExpiryInv' /\ StageInv'
        BY <2>1 DEF QuotaInv, ExpiryInv, StageInv, KeyStart, CounterTtl
      <3>2. \A key \in LimitKeys, v \in Nat \ {0} : Turns(key, v)' \subseteq Turns(key, v)
        BY <2>1 DEF Turns, KindKey, BurstKey, SustainedKey, Turn, QuotaRows, PolicyRows, Policies
      <3>3. \A d \in counters : Since(d)' = Since(d) /\ Since(d) \in Int
        BY <2>1, SinceFacts DEF Since, CounterTtl
      <3>4. seconds' \in Nat /\ seconds <= seconds' /\ counters' = counters
        BY <2>1, <1>t
      <3>5. \A d \in counters' : Since(d)' \in Int /\ d \in counters /\ Since(d) <= Since(d)'
        BY <3>3, <3>4
      <3>6. TurnsInv'
        BY <3>2, <3>4, <3>5, NoTurnTaken
      <3>7. QED
        BY <3>1, <3>6
  <1>10. QED
    BY <1>1, <1>2, <1>3, <1>5, <1>6, <1>7, <1>8, <1>9 DEF LimitNext, RateStep, QuotaStep

\* A set that n values divide into parts of k elements at most has at most n times k.
LEMMA Interval ==
  ASSUME NEW n \in Nat PROVE IsFiniteSet(1..n) /\ Cardinality(1..n) = n
  <1>1. 1 \in Int /\ n \in Int
    OBVIOUS
  <1>2. IsFiniteSet(1..n) /\ Cardinality(1..n) = IF 1 > n THEN 0 ELSE n - 1 + 1
    BY <1>1, FS_Interval
  <1>3. QED
    BY <1>2

LEMMA PartInjection ==
  ASSUME NEW S, IsFiniteSet(S), NEW k \in Nat, Cardinality(S) <= k
  PROVE  \E h : h \in Injection(S, 1..k)
  <1> DEFINE m == Cardinality(S)
  <1>1. m \in Nat /\ ExistsBijection(1..m, S) /\ m <= k
    BY FS_CardinalityType
  <1> HIDE DEF m
  <1>2. ExistsBijection(S, 1..m)
    BY <1>1, Fun_ExistsBijSymmetric
  <1>3. PICK h : h \in Bijection(S, 1..m)
    BY <1>2 DEF ExistsBijection
  <1>4. h \in [S -> 1..m] /\ \A x, y \in S : h[x] = h[y] => x = y
    BY <1>3 DEF Bijection, Injection, IsInjective
  <1>5. h \in [S -> 1..k]
    BY <1>1, <1>4
  <1>6. h \in Injection(S, 1..k)
    BY <1>4, <1>5 DEF Injection, IsInjective
  <1>7. QED
    BY <1>6

LEMMA PartsCount ==
  ASSUME NEW S, IsFiniteSet(S), NEW n \in Nat, NEW k \in Nat, NEW f \in [S -> 1..n],
         \A v \in 1..n : Cardinality({x \in S : f[x] = v}) <= k
  PROVE  Cardinality(S) <= n * k
  <1> DEFINE part(v) == {x \in S : f[x] = v}
             h(v) == CHOOSE g : g \in Injection(part(v), 1..k)
             g == [x \in S |-> h(f[x])[x]]
             pair == [x \in S |-> <<f[x], g[x]>>]
  <1>1. ASSUME NEW v \in 1..n PROVE h(v) \in Injection(part(v), 1..k)
    <2>1. IsFiniteSet(part(v)) /\ Cardinality(part(v)) <= k
      BY FS_Subset
    <2>2. \E i : i \in Injection(part(v), 1..k)
      BY <2>1, PartInjection
    <2>3. QED
      BY <2>2
  <1>2. ASSUME NEW v \in 1..n
        PROVE  h(v) \in [part(v) -> 1..k] /\ \A x, y \in part(v) : h(v)[x] = h(v)[y] => x = y
    BY <1>1 DEF Injection, IsInjective
  <1>3. \A x \in S : f[x] \in 1..n /\ x \in part(f[x])
    OBVIOUS
  <1> HIDE DEF h
  <1>4. \A x \in S : g[x] = h(f[x])[x]
    OBVIOUS
  <1> HIDE DEF g
  <1>5. ASSUME NEW x \in S PROVE g[x] \in 1..k
    <2>1. h(f[x]) \in [part(f[x]) -> 1..k] /\ x \in part(f[x])
      BY <1>2, <1>3
    <2> HIDE DEF part
    <2>2. QED
      BY <1>4, <2>1
  <1>6. ASSUME NEW x \in S, NEW y \in S, f[x] = f[y], g[x] = g[y] PROVE x = y
    <2>1. h(f[x])[x] = h(f[x])[y]
      BY <1>4, <1>6
    <2>2. x \in part(f[x]) /\ y \in part(f[x]) /\ f[x] \in 1..n
      BY <1>3, <1>6
    <2> HIDE DEF part
    <2>3. QED
      BY <1>2, <2>1, <2>2
  <1> HIDE DEF part
  <1>7. pair \in [S -> (1..n) \X (1..k)]
    BY <1>3, <1>5
  <1>8. ASSUME NEW x \in S, NEW y \in S, pair[x] = pair[y] PROVE x = y
    BY <1>6, <1>8
  <1> HIDE DEF pair
  <1>9. pair \in Injection(S, (1..n) \X (1..k))
    BY <1>7, <1>8 DEF Injection, IsInjective
  <1>10. /\ IsFiniteSet((1..n) \X (1..k)) /\ Cardinality((1..n) \X (1..k)) = Cardinality(1..n) * Cardinality(1..k)
         /\ Cardinality(1..n) = n /\ Cardinality(1..k) = k
    BY Interval, FS_Product
  <1>11. Cardinality(S) <= Cardinality((1..n) \X (1..k))
    BY <1>9, <1>10, FS_Injection
  <1>12. QED
    BY <1>10, <1>11

\* Requests that were counted for a key, each in a turn within a limit of its own, are no more
\* than the largest of the limits times the counters that were begun.
LEMMA WithinLimits ==
  ASSUME QuotaInv, NEW key \in LimitKeys, NEW S \in SUBSET LimitRequests, NEW limit,
         \A r \in S :
           /\ KindKey(key[1], requests[r]) = key /\ limit[r] \in Nat
           /\ Turn(key[1], requests[r]) > 0 /\ Turn(key[1], requests[r]) <= limit[r],
         \A r \in S : ~(Cardinality(S) <= Begun(key, KeySpan(key)) * limit[r]), S # {}
  PROVE  FALSE
  <1> DEFINE k == Begun(key, KeySpan(key))
             n == Cardinality(S)
             m == (n - 1) \div k
             turn(r) == Turn(key[1], requests[r])
  <1>1. k \in Nat \ {0}
    <2>1. CounterTtl(key) \in Nat \ {0} /\ KeySpan(key) - 1 + MaxDelay \in Nat
      BY KeyFacts, LimitsAssumption
    <2>2. (KeySpan(key) - 1 + MaxDelay) \div CounterTtl(key) \in Nat
      BY <2>1, Multiples
    <2>3. QED
      BY <2>2 DEF Begun
  <1>2. IsFiniteSet(S) /\ n \in Nat /\ n # 0
    BY LimitsAssumption, FS_Subset, FS_CardinalityType, FS_EmptySet
  <1>3. requests \in [LimitRequests -> RateRows \cup QuotaRows] /\ key[1] \in QuotaKinds
    BY DEF QuotaInv, LimitShape, LimitTypeOK, LimitKeys
  <1>4. \A r \in S : turn(r) \in Nat /\ turn(r) > 0 /\ limit[r] \in Nat /\ turn(r) <= limit[r]
    BY <1>3, KindFacts
  <1>5. \A r \in S : ~(n <= k * limit[r])
    OBVIOUS
  <1>v. ASSUME NEW v \in 1..m PROVE Cardinality({r \in S : turn(r) = v}) <= k
    <2> DEFINE P == {r \in S : turn(r) = v}
    <2>0. v \in Nat \ {0}
      OBVIOUS
    <2>1. P \in SUBSET Turns(key, v)
      BY DEF Turns
    <2>2. IsFiniteSet(Turns(key, v)) /\ Cardinality(Turns(key, v)) \in Nat /\ Cardinality(Turns(key, v)) <= k
      BY <2>0, TurnsFinite DEF QuotaInv, TurnsInv
    <2>3. IsFiniteSet(P) /\ Cardinality(P) <= Cardinality(Turns(key, v)) /\ Cardinality(P) \in Nat
      BY <2>1, <2>2, FS_Subset, FS_CardinalityType
    <2>4. QED
      BY <1>1, <2>2, <2>3
  <1> HIDE DEF k, n
  <1>6. n - 1 \in Nat /\ m \in Nat /\ m * k <= n - 1
    BY <1>1, <1>2, Multiples
  <1> HIDE DEF m
  <1>7. \A r \in S : turn(r) \in 1..m
    <2> SUFFICES ASSUME NEW r \in S PROVE turn(r) \in 1..m
      OBVIOUS
    <2> DEFINE t == turn(r)
               l == limit[r]
    <2>1. t \in Nat /\ t > 0 /\ l \in Nat /\ t <= l /\ ~(n <= k * l)
      BY <1>4, <1>5
    <2> HIDE DEF t, l
    <2>2. t * k <= l * k /\ l * k = k * l /\ t * k \in Int /\ k * l \in Int
      BY <1>1, <2>1, Multiples
    <2>3. t * k <= n - 1
      BY <1>2, <2>1, <2>2
    <2>4. t <= m
      BY <1>1, <1>6, <2>1, <2>3, Multiples DEF m
    <2>5. t \in 1..m
      BY <1>6, <2>1, <2>4
    <2>6. QED
      BY <2>5 DEF t
  <1> DEFINE f == [r \in S |-> turn(r)]
  <1>8. f \in [S -> 1..m] /\ \A v \in 1..m : {x \in S : f[x] = v} = {r \in S : turn(r) = v}
    BY <1>7
  <1> HIDE DEF turn
  <1>9. \A v \in 1..m : Cardinality({x \in S : f[x] = v}) <= k
    BY <1>8, <1>v
  <1> HIDE DEF f
  <1>10. Cardinality(S) <= m * k
    BY <1>1, <1>2, <1>6, <1>8, <1>9, PartsCount
  <1>11. m * k \in Int
    BY <1>1, <1>6
  <1>12. QED
    BY <1>2, <1>6, <1>10, <1>11 DEF n

\* An admitted request was counted twice, within the limits it had loaded.
LEMMA AdmittedTurns ==
  ASSUME QuotaInv, NEW r \in LimitRequests, requests[r].stage = "admitted"
  PROVE  /\ Turn("s", requests[r]) > 0 /\ Turn("s", requests[r]) <= requests[r].policy.burst
         /\ Turn("m", requests[r]) > 0 /\ Turn("m", requests[r]) <= requests[r].policy.perMinute
         /\ requests[r].policy.burst \in Nat /\ requests[r].policy.perMinute \in Nat
  <1>1. requests[r] \in QuotaRows
    BY DEF QuotaInv, LimitShape, LimitTypeOK, RateRows
  <1>2. TurnsAtStage(requests[r])
    BY <1>1 DEF QuotaInv, StageInv
  <1>3. Turn("s", requests[r]) = requests[r].burst /\ Turn("m", requests[r]) = requests[r].sustained
    BY <1>1 DEF Turn
  <1>4. requests[r].policy.burst \in Nat /\ requests[r].policy.perMinute \in Nat
    BY <1>1, PolicyFacts DEF QuotaRows
  <1>5. QED
    BY <1>2, <1>3, <1>4 DEF TurnsAtStage

\* The invariant of the quota gives the limits.
LEMMA QuotaSuffices == QuotaInv => FixedWindowsHold
  <1> SUFFICES ASSUME QuotaInv, NEW t \in 0..seconds
               PROVE  LET s == Admitted(BurstKey(t))  m == Admitted(SustainedKey(t)) IN
                      /\ s = {} \/ \E r \in s : Cardinality(s) <= Begun(BurstKey(t), 1) * requests[r].policy.burst
                      /\ m = {} \/ \E r \in m :
                           Cardinality(m) <= Begun(SustainedKey(t), Minute) * requests[r].policy.perMinute
    BY DEF FixedWindowsHold
  <1>1. t \in Nat /\ t \div Minute \in Nat
    BY MinuteFacts DEF QuotaInv, LimitShape, LimitTypeOK
  <1>2. /\ BurstKey(t) \in LimitKeys /\ BurstKey(t)[1] = "s" /\ KeySpan(BurstKey(t)) = 1
        /\ SustainedKey(t) \in LimitKeys /\ SustainedKey(t)[1] = "m" /\ KeySpan(SustainedKey(t)) = Minute
    BY <1>1 DEF BurstKey, SustainedKey, LimitKeys, QuotaKinds, KeySpan
  <1>3. ASSUME NEW r \in Admitted(BurstKey(t))
        PROVE  /\ KindKey("s", requests[r]) = BurstKey(t) /\ requests[r].policy.burst \in Nat
               /\ Turn("s", requests[r]) > 0 /\ Turn("s", requests[r]) <= requests[r].policy.burst
    BY AdmittedTurns DEF Admitted, KindKey, BurstKey, SustainedKey
  <1>4. ASSUME NEW r \in Admitted(SustainedKey(t))
        PROVE  /\ KindKey("m", requests[r]) = SustainedKey(t) /\ requests[r].policy.perMinute \in Nat
               /\ Turn("m", requests[r]) > 0 /\ Turn("m", requests[r]) <= requests[r].policy.perMinute
    BY AdmittedTurns DEF Admitted, KindKey, BurstKey, SustainedKey
  <1> DEFINE s == Admitted(BurstKey(t))
             m == Admitted(SustainedKey(t))
             burst == [r \in LimitRequests |-> requests[r].policy.burst]
             perMinute == [r \in LimitRequests |-> requests[r].policy.perMinute]
  <1>5. s \in SUBSET LimitRequests /\ m \in SUBSET LimitRequests
    BY DEF Admitted
  <1> HIDE DEF s, m
  <1>6. s = {} \/ \E r \in s : Cardinality(s) <= Begun(BurstKey(t), 1) * burst[r]
    <2> SUFFICES ASSUME s # {}, \A r \in s : ~(Cardinality(s) <= Begun(BurstKey(t), 1) * burst[r]) PROVE FALSE
      OBVIOUS
    <2>1. \A r \in s :
            /\ KindKey("s", requests[r]) = BurstKey(t) /\ burst[r] \in Nat
            /\ Turn("s", requests[r]) > 0 /\ Turn("s", requests[r]) <= burst[r]
      BY <1>3, <1>5 DEF s
    <2> HIDE DEF burst
    <2>2. QED
      BY <2>1, <1>2, <1>5, WithinLimits
  <1>7. m = {} \/ \E r \in m : Cardinality(m) <= Begun(SustainedKey(t), Minute) * perMinute[r]
    <2> SUFFICES ASSUME m # {}, \A r \in m : ~(Cardinality(m) <= Begun(SustainedKey(t), Minute) * perMinute[r]) PROVE FALSE
      OBVIOUS
    <2>1. \A r \in m :
            /\ KindKey("m", requests[r]) = SustainedKey(t) /\ perMinute[r] \in Nat
            /\ Turn("m", requests[r]) > 0 /\ Turn("m", requests[r]) <= perMinute[r]
      BY <1>4, <1>5 DEF m
    <2> HIDE DEF perMinute
    <2>2. QED
      BY <2>1, <1>2, <1>5, WithinLimits
  <1>8. QED
    BY <1>5, <1>6, <1>7 DEF s, m

\* MonitoringQuotaGate.admit, for every delay of Redis: although it counts with several commands,
\* loses Redis between them and reads limits that are changed meanwhile, the requests of a second
\* or a minute that are admitted are no more than a limit that one of them has loaded, times the
\* counters that can be begun while requests of that second or minute are late.
THEOREM QuotasAreKept == LimitSpec => []FixedWindowsHold
  <1>1. QED
    BY QuotaInit, QuotaStepInv, QuotaSuffices, PTL DEF LimitSpec

-----------------------------------------------------------------------------
(* The browser sensor: nothing is stored once the revocation is committed.  *)
(* A request that has been verified holds the row of the key, which the     *)
(* revocation needs.                                                        *)

SensorRows == [status : {"none", "active", "revoked"}, secret : Nat, key : {"none", "active", "revoked"}]
TaskSteps ==
  {"idle", "read", "loaded", "locking", "fetched", "open", "report", "failed", "queue", "flush", "save",
   "unreachable", "done"}
RequestSteps == {"none", "sent", "read", "keyed", "verified"}

\* Only an administrator's request revokes; a request past authentication holds the row of the
\* key; the sensor of a verified one is active.
SilentInv ==
  /\ request \in [Reporters -> RequestSteps] /\ sensor \in SensorRows
  /\ task \in [BrowserTasks -> TaskSteps] /\ scene \in Scenes
  /\ \A t \in BrowserTasks : task[t] = "locking" => t \in Admins
  /\ \A t \in Reporters : request[t] \in {"keyed", "verified"} => keyLock = t
  /\ \A t \in Reporters : request[t] = "verified" => sensor.status = "active"

\* A task goes on, and does not begin a revocation.
LEMMA TaskMoves ==
  ASSUME SilentInv, NEW t, NEW pc \in TaskSteps \ {"locking"}, Goto(t, pc) \/ task' = task
  PROVE  task' \in [BrowserTasks -> TaskSteps] /\ \A u \in BrowserTasks : task'[u] = "locking" => u \in Admins
  BY DEF SilentInv, Goto

\* An answer ends the request, or sends the next one.
LEMMA RespondFacts ==
  ASSUME SilentInv, NEW t \in Reporters, NEW ok \in BOOLEAN, Respond(t, ok)
  PROVE  /\ \E pc \in {"none", "sent"} : request' = [request EXCEPT ![t] = pc]
         /\ task' \in [BrowserTasks -> TaskSteps] /\ \A u \in BrowserTasks : task'[u] = "locking" => u \in Admins
  <1>1. CASE task[t] = "unreachable"
    BY <1>1 DEF Respond, Serve, SilentInv
  <1>2. CASE task[t] # "unreachable" /\ t \in Flushes
    <2>1. NextReport(t, local[t].queue, local[t].todo, ok)
      BY <1>2 DEF Respond, Answer
    <2>2. PICK pc \in {"save", "flush"} : Goto(t, pc)
      BY <2>1 DEF NextReport
    <2>3. PICK step \in {"none", "sent"} : request' = [request EXCEPT ![t] = step]
      BY <2>1 DEF NextReport
    <2>4. QED
      BY <2>2, <2>3, TaskMoves DEF TaskSteps
  <1>3. CASE task[t] # "unreachable" /\ t \notin Flushes
    <2>1. PICK pc \in {"done", "failed"} : Goto(t, pc)
      BY <1>3 DEF Respond, Answer
    <2>2. request' = [request EXCEPT ![t] = "none"]
      BY <1>3 DEF Respond, Answer
    <2>3. QED
      BY <2>1, <2>2, TaskMoves DEF TaskSteps
  <1>4. QED
    BY <1>1, <1>2, <1>3

\* A request that ends releases the row of the key, if it holds it.
LEMMA RequestEnds ==
  ASSUME SilentInv, NEW t \in Reporters, NEW ok \in BOOLEAN, Respond(t, ok), Release(t)
  PROVE  SilentInv'
  <1>1. PICK pc \in {"none", "sent"} : request' = [request EXCEPT ![t] = pc]
    BY RespondFacts
  <1>2. sensor' = sensor /\ scene' = scene /\ keyLock' = IF keyLock = t THEN BrowserNone ELSE keyLock
    BY DEF Release
  <1>3. \A u \in Reporters : u # t => request'[u] = request[u]
    BY <1>1 DEF SilentInv
  <1>4. request'[t] \in {"none", "sent"} /\ request' \in [Reporters -> RequestSteps]
    BY <1>1 DEF SilentInv, RequestSteps
  <1>5. \A u \in Reporters : request'[u] \in {"keyed", "verified"} => keyLock' = u
    BY <1>2, <1>3, <1>4 DEF SilentInv
  <1>6. \A u \in Reporters : request'[u] = "verified" => sensor'.status = "active"
    BY <1>2, <1>3, <1>4 DEF SilentInv
  <1>7. task' \in [BrowserTasks -> TaskSteps] /\ \A u \in BrowserTasks : task'[u] = "locking" => u \in Admins
    BY RespondFacts
  <1>8. QED
    BY <1>2, <1>4, <1>5, <1>6, <1>7 DEF SilentInv

\* A task that leaves the server alone, or sends a request.
LEMMA ClientMoves ==
  ASSUME SilentInv, NEW t, NEW pc \in TaskSteps \ {"locking"}, Goto(t, pc) \/ task' = task,
         sensor'.status = sensor.status, sensor' \in SensorRows, keyLock' = keyLock, scene' = scene,
         request' = request \/ \E step \in {"none", "sent"} : request' = [request EXCEPT ![t] = step]
  PROVE  SilentInv'
  <1>1. task' \in [BrowserTasks -> TaskSteps] /\ \A u \in BrowserTasks : task'[u] = "locking" => u \in Admins
    BY TaskMoves
  <1>2. request' \in [Reporters -> RequestSteps]
        /\ \A u \in Reporters : request'[u] \in {"keyed", "verified"} => request'[u] = request[u]
    BY DEF SilentInv, RequestSteps
  <1>3. QED
    BY <1>1, <1>2 DEF SilentInv

\* The steps of the server, enrolment, revocation and authentication.
LEMMA ServerMoves ==
  ASSUME SilentInv, NEW t \in scene,
         \/ Enroll(t) \/ Rotate(t) \/ RevokeLocks(t) \/ Revoke(t) \/ RevokeFails(t)
         \/ t \in Reporters /\ (Authenticate(t) \/ LockKey(t) \/ VerifyRequest(t) \/ StoreEvent(t) \/ IngestFails(t))
  PROVE  SilentInv'
  <1> USE BrowserBounds
  <1>1. CASE Enroll(t)
    <2>1. task' \in [BrowserTasks -> TaskSteps] /\ \A u \in BrowserTasks : task'[u] = "locking" => u \in Admins
      BY <1>1, TaskMoves DEF Enroll, TaskSteps
    <2>2. sensor' \in SensorRows /\ (sensor' = sensor \/ sensor'.status = "active")
      BY <1>1 DEF Enroll, SilentInv, SensorRows
    <2>3. UNCHANGED <<request, keyLock, scene>>
      BY <1>1 DEF Enroll
    <2>4. QED
      BY <2>1, <2>2, <2>3 DEF SilentInv
  <1>2. CASE Rotate(t)
    <2>1. sensor' \in SensorRows /\ sensor'.status = sensor.status
      BY <1>2 DEF Rotate, SilentInv, SensorRows
    <2>2. QED
      BY <1>2, <2>1, ClientMoves DEF Rotate, TaskSteps
  <1>3. CASE RevokeLocks(t)
    <2>1. t \in Admins /\ (keyLock' = keyLock \/ keyLock = BrowserNone) /\ UNCHANGED <<sensor, request, scene>>
      BY <1>3 DEF RevokeLocks
    <2>2. task' \in [BrowserTasks -> TaskSteps] /\ \A u \in BrowserTasks : task'[u] = "locking" => u \in Admins
      BY <1>3, <2>1 DEF RevokeLocks, Goto, SilentInv, TaskSteps
    <2>3. \A u \in Reporters : request[u] \in {"keyed", "verified"} => keyLock' = u
      BY <2>1 DEF SilentInv, BrowserTasks
    <2>4. QED
      BY <2>1, <2>2, <2>3 DEF SilentInv
  <1>4. CASE Revoke(t)
    <2>1. task[t] = "locking" /\ keyLock \in {t, BrowserNone} /\ UNCHANGED <<request, scene>> /\ keyLock' = BrowserNone
      BY <1>4 DEF Revoke, At
    <2>2. t \in Admins
      BY <2>1, BrowserBounds DEF SilentInv
    <2>3. \A u \in Reporters : request[u] \notin {"keyed", "verified"}
      BY <2>1, <2>2 DEF SilentInv, BrowserTasks
    <2>4. sensor' \in SensorRows
      BY <1>4 DEF Revoke, SilentInv, SensorRows
    <2>5. task' \in [BrowserTasks -> TaskSteps] /\ \A u \in BrowserTasks : task'[u] = "locking" => u \in Admins
      BY <1>4, TaskMoves DEF Revoke, TaskSteps
    <2>6. QED
      BY <2>1, <2>3, <2>4, <2>5 DEF SilentInv
  <1>5. CASE RevokeFails(t)
    BY <1>5, ClientMoves DEF RevokeFails, SilentInv, TaskSteps
  <1>6. CASE t \in Reporters /\ Authenticate(t)
    <2>1. CASE sensor.key = "active"
      <3>1. request' = [request EXCEPT ![t] = "read"] /\ UNCHANGED <<task, sensor, keyLock, scene>>
        BY <1>6, <2>1 DEF Authenticate, Serve, serverVars
      <3>2. QED
        BY <3>1 DEF SilentInv, RequestSteps
    <2>2. CASE sensor.key # "active"
      <3>1. Respond(t, FALSE) /\ UNCHANGED <<sensor, keyLock, scene>> /\ request[t] = "sent"
        BY <1>6, <2>2 DEF Authenticate, serverVars
      <3>2. PICK pc \in {"none", "sent"} : request' = [request EXCEPT ![t] = pc]
        BY <1>6, <3>1, RespondFacts
      <3>3. task' \in [BrowserTasks -> TaskSteps] /\ \A u \in BrowserTasks : task'[u] = "locking" => u \in Admins
        BY <1>6, <3>1, RespondFacts
      <3>4. QED
        BY <3>1, <3>2, <3>3 DEF SilentInv, RequestSteps
    <2>3. QED
      BY <2>1, <2>2
  <1>7. CASE t \in Reporters /\ LockKey(t)
    <2>1. /\ request' = [request EXCEPT ![t] = "keyed"] /\ keyLock = BrowserNone /\ keyLock' = t
          /\ UNCHANGED <<task, sensor, scene>>
      BY <1>7 DEF LockKey, Serve
    <2>2. \A u \in Reporters : request[u] \notin {"keyed", "verified"}
      BY <2>1 DEF SilentInv, BrowserTasks
    <2>3. request' \in [Reporters -> RequestSteps] /\ \A u \in Reporters : u # t => request'[u] = request[u]
      BY <2>1 DEF SilentInv, RequestSteps
    <2>4. request'[t] = "keyed"
      BY <2>1, <1>7 DEF SilentInv
    <2>5. QED
      BY <2>1, <2>2, <2>3, <2>4 DEF SilentInv
  <1>8. CASE t \in Reporters /\ VerifyRequest(t)
    <2>1. CASE sensor.status = "active" /\ local[t].secret = sensor.secret
      <3>1. request' = [request EXCEPT ![t] = "verified"] /\ UNCHANGED <<task, sensor, keyLock, scene>> /\ request[t] = "keyed"
        BY <1>8, <2>1 DEF VerifyRequest, Serve, serverVars
      <3>2. request' \in [Reporters -> RequestSteps] /\ \A u \in Reporters : u # t => request'[u] = request[u]
        BY <3>1 DEF SilentInv, RequestSteps
      <3>3. QED
        BY <2>1, <3>1, <3>2 DEF SilentInv
    <2>2. CASE ~(sensor.status = "active" /\ local[t].secret = sensor.secret)
      BY <1>8, <2>2, RequestEnds DEF VerifyRequest
    <2>3. QED
      BY <2>1, <2>2
  <1>9. CASE t \in Reporters /\ StoreEvent(t)
    BY <1>9, RequestEnds DEF StoreEvent
  <1>10. CASE t \in Reporters /\ IngestFails(t)
    BY <1>10, RequestEnds DEF IngestFails
  <1>11. QED
    BY <1>1, <1>2, <1>3, <1>4, <1>5, <1>6, <1>7, <1>8, <1>9, <1>10

\* The tasks of the service worker, the popup and the content script, and the policy.
LEMMA WorkerMoves ==
  ASSUME SilentInv, NEW t \in scene,
         \/ ReadToken(t) \/ LoadSensor(t) \/ LoadPolicy(t) \/ WritePolicy(t) \/ LoadState(t) \/ Fetch(t)
         \/ SaveState(t) \/ OpenPopup(t) \/ TogglePause(t) \/ Detect(t) \/ LoadQueue(t) \/ SaveQueue(t)
         \/ StartFlush(t) \/ SaveFlushed(t) \/ Unreachable(t)
  PROVE  SilentInv'
  <1>1. sensor' = sensor /\ keyLock' = keyLock /\ scene' = scene
    BY DEF ReadToken, LoadSensor, LoadPolicy, WritePolicy, LoadState, Fetch, SaveState, OpenPopup, TogglePause,
           Detect, LoadQueue, SaveQueue, StartFlush, SaveFlushed, Unreachable, serverVars
  <1>2. sensor' \in SensorRows /\ sensor'.status = sensor.status
    BY <1>1 DEF SilentInv
  <1>3. CASE ReadToken(t) \/ LoadSensor(t)
    <2>1. PICK pc \in {"read", "loaded", "done"} : Goto(t, pc)
      BY <1>3 DEF ReadToken, LoadSensor
    <2>2. request' = request
      BY <1>3 DEF ReadToken, LoadSensor
    <2>3. QED
      BY <1>1, <1>2, <2>1, <2>2, ClientMoves DEF TaskSteps
  <1>4. CASE LoadPolicy(t) \/ WritePolicy(t)
    <2>1. PICK pc \in {"loaded", "done"} : Goto(t, pc)
      BY <1>4 DEF LoadPolicy, WritePolicy
    <2>2. request' = request
      BY <1>4 DEF LoadPolicy, WritePolicy
    <2>3. QED
      BY <1>1, <1>2, <2>1, <2>2, ClientMoves DEF TaskSteps
  <1>5. CASE LoadState(t) \/ Fetch(t) \/ SaveState(t) \/ OpenPopup(t) \/ TogglePause(t)
    <2>1. PICK pc \in {"loaded", "fetched", "open", "done"} : Goto(t, pc)
      BY <1>5 DEF LoadState, Fetch, SaveState, OpenPopup, TogglePause
    <2>2. request' = request
      BY <1>5 DEF LoadState, Fetch, SaveState, OpenPopup, TogglePause
    <2>3. QED
      BY <1>1, <1>2, <2>1, <2>2, ClientMoves DEF TaskSteps
  <1>6. CASE Detect(t)
    <2>1. PICK pc \in {"report", "done"} : Goto(t, pc)
      BY <1>6 DEF Detect
    <2>2. request' = request \/ request' = [request EXCEPT ![t] = "sent"]
      BY <1>6 DEF Detect
    <2>3. QED
      BY <1>1, <1>2, <2>1, <2>2, ClientMoves DEF TaskSteps
  <1>7. CASE LoadQueue(t) \/ SaveQueue(t) \/ SaveFlushed(t)
    <2>1. PICK pc \in {"queue", "done"} : Goto(t, pc)
      BY <1>7 DEF LoadQueue, SaveQueue, SaveFlushed
    <2>2. request' = request
      BY <1>7 DEF LoadQueue, SaveQueue, SaveFlushed
    <2>3. QED
      BY <1>1, <1>2, <2>1, <2>2, ClientMoves DEF TaskSteps
  <1>8. CASE StartFlush(t)
    <2>1. \E pc \in {"save", "flush"} : Goto(t, pc)
      BY <1>8 DEF StartFlush
    <2>2. \E step \in {"none", "sent"} : request' = [request EXCEPT ![t] = step]
      BY <1>8 DEF StartFlush
    <2>3. QED
      BY <1>1, <1>2, <2>1, <2>2, ClientMoves DEF TaskSteps
  <1>9. CASE Unreachable(t)
    <2>1. Goto(t, "unreachable") /\ (request' = request \/ request' = [request EXCEPT ![t] = "none"])
      BY <1>9 DEF Unreachable
    <2>2. QED
      BY <1>1, <1>2, <2>1, ClientMoves DEF TaskSteps
  <1>10. QED
    BY <1>3, <1>4, <1>5, <1>6, <1>7, <1>8, <1>9

\* The invariant holds at the start.
LEMMA SilentInit == BrowserInit => SilentInv
  BY DEF BrowserInit, SilentInv, NoSensor, SensorRows, TaskSteps, RequestSteps

\* Every step keeps the invariant.
LEMMA SilentStep == SilentInv /\ [BrowserNext]_browserVars => SilentInv'
  <1> SUFFICES ASSUME SilentInv, [BrowserNext]_browserVars PROVE SilentInv'
    OBVIOUS
  <1>1. CASE UNCHANGED browserVars
    BY <1>1 DEF browserVars, serverVars, SilentInv
  <1>2. CASE TokenExpires \/ Refresh
    BY <1>2 DEF TokenExpires, Refresh, serverVars, SilentInv
  <1>3. CASE BrowserNext /\ ~(TokenExpires \/ Refresh)
    <2>1. PICK t \in scene :
            \/ \/ ReadToken(t) \/ Enroll(t) \/ LoadSensor(t) \/ Rotate(t) \/ RevokeLocks(t) \/ Revoke(t)
               \/ LoadPolicy(t) \/ WritePolicy(t) \/ LoadState(t) \/ Fetch(t) \/ SaveState(t)
               \/ OpenPopup(t) \/ TogglePause(t)
               \/ Detect(t) \/ LoadQueue(t) \/ SaveQueue(t) \/ StartFlush(t) \/ SaveFlushed(t)
               \/ RevokeFails(t)
            \/ t \in Reporters /\ (\/ Unreachable(t) \/ Authenticate(t) \/ LockKey(t) \/ VerifyRequest(t)
                                   \/ StoreEvent(t) \/ IngestFails(t))
      BY <1>3 DEF BrowserNext
    <2>2. QED
      BY <2>1, ServerMoves, WorkerMoves
  <1>4. QED
    BY <1>1, <1>2, <1>3

\* Only an ingestion that has been verified stores an event.
LEMMA OnlyIngestStores ==
  ASSUME [BrowserNext]_browserVars, browserEvents' # browserEvents
  PROVE  \E t \in Reporters : request[t] = "verified"
  <1>1. \E t \in Reporters : StoreEvent(t)
    BY DEF BrowserNext, browserVars, serverVars, ReadToken, Enroll, LoadSensor, Rotate, RevokeLocks, Revoke,
           LoadPolicy, WritePolicy, LoadState, Fetch, SaveState, OpenPopup, TogglePause, Detect, LoadQueue,
           SaveQueue, StartFlush, SaveFlushed, RevokeFails, Unreachable, Authenticate, LockKey, VerifyRequest,
           IngestFails, TokenExpires, Refresh
  <1>2. QED
    BY <1>1 DEF StoreEvent

\* No event of the browser is stored once the revocation of its sensor is committed, for any
\* number of tasks and requests: authenticating writes the row of the key, the request holds it
\* until it ends, and the revocation cannot commit without it.
THEOREM RevokedSensorIsSilent == BrowserSpec => RevokedIsSilent
  <1>1. SilentInv /\ [BrowserNext]_browserVars => (browserEvents' # browserEvents => sensor.status = "active")
    BY OnlyIngestStores DEF SilentInv
  <1>2. QED
    BY <1>1, SilentInit, SilentStep, PTL DEF BrowserSpec, RevokedIsSilent

-----------------------------------------------------------------------------
(* The queue of the service worker: an event that was dealt with is queued, *)
(* stored, discarded or overwritten.  A task that saves has worked on a copy *)
(* of the queue, so the invariant says what that copy may lack of what the   *)
(* task had loaded; and, while one task has the queue, that nothing was      *)
(* added since and that what it has still to report has not been stored.    *)

\* The elements of a queue, and the detections that were received.
Elements(q) == {q[i] : i \in 1 .. Len(q)}
Received == {browserEvents[i].det : i \in 1 .. Len(browserEvents)}
ReceivedKeys == {KeyOf(d) : d \in Received}

\* A detection that the service worker has accepted, and those that it has dealt with.
Opened == {d \in Detections : task[d] # "idle" /\ local[d].item.det = d}
DealtWith == {d \in Opened : task[d] = "done"}
Items == {local[d].item : d \in DealtWith}

\* No two elements of a queue have one key, and each is one of the items.
Distinct(q) == \A i, j \in 1 .. Len(q) : q[i].key = q[j].key => i = j
GoodQueue(q, items) == q \in Seq(items) /\ Distinct(q)

\* Which steps the tasks of a kind take.
TaskKinds ==
  /\ \A d \in Detections : task[d] \in {"idle", "report", "failed", "queue", "unreachable", "done"}
  /\ \A t \in Flushes : task[t] \in {"idle", "flush", "save", "unreachable", "done"}
  /\ \A t \in BrowserTasks \ Reporters : task[t] \in {"idle", "read", "loaded", "locking", "fetched", "open", "done"}

\* A detection keeps its event.
ItemInv ==
  /\ local = [t \in BrowserTasks |-> local[t]]
  /\ \A d \in Detections : task[d] = "idle" => local[d] = BrowserNone
  /\ \A d \in Detections : task[d] \in {"report", "failed", "queue", "unreachable"} => d \in Opened
  /\ \A d \in Detections : task[d] = "done" /\ local[d] # BrowserNone => d \in Opened

\* The queues, stored and in memory, and what a flush has still to report of its own.
QueueShape ==
  /\ GoodQueue(queued, Items)
  /\ \A t \in Reporters : HasQueue(t) => GoodQueue(local[t].queue, Items)
  /\ \A t \in Flushes : task[t] \in {"flush", "unreachable"} =>
       GoodQueue(local[t].todo, Items) /\ local[t].todo # <<>> /\ local[t].item = local[t].todo[1]
  /\ \A t \in Flushes : task[t] = "flush" => Elements(local[t].todo) \subseteq Elements(local[t].queue)

\* A request is reported by a task that waits for it, unless one has failed.
ReportInv ==
  /\ browserEvents \in Seq(Elements(browserEvents)) /\ Received \subseteq Opened
  /\ faults \in Nat /\ overlap \in BOOLEAN
  /\ \A t \in Reporters : request[t] # "none" => task[t] \in {"report", "flush", "unreachable"}
  /\ \A t \in Reporters : task[t] = "unreachable" => faults # 0

\* Nothing but what it has tried, or dropped, is missing in the copy of a task.
KeptInv ==
  /\ \A t \in Reporters : HasQueue(t) => local[t].had \subseteq KeysOf(local[t].queue) \cup discarded \cup ReceivedKeys
  /\ \A d \in Detections : task[d] = "done" /\ local[d] # BrowserNone =>
       KeyOf(d) \in KeysOf(queued) \cup discarded \cup overwritten \cup ReceivedKeys

\* Without an overlap one task has the queue, and had loaded all of it.
SoloInv ==
  /\ \A t, u \in Reporters : HasQueue(t) /\ HasQueue(u) => t = u
  /\ \A t \in Reporters : HasQueue(t) => KeysOf(queued) \subseteq local[t].had
  /\ overwritten = {}

\* Without a failed request either, what is still to be reported has not been stored.
OnceEach == \A i, j \in 1 .. Len(browserEvents) : browserEvents[i].det = browserEvents[j].det => i = j
OnceInv ==
  /\ OnceEach
  /\ \A d \in Detections : task[d] # "done" => d \notin Received
  /\ \A t \in Reporters : HasQueue(t) => \A x \in Elements(local[t].queue) : x.det \notin Received
  /\ (\A t \in Flushes : ~HasQueue(t)) => \A x \in Elements(queued) : x.det \notin Received

\* The inductive invariant behind OrderlyQueue.
QueueInv ==
  /\ SilentInv /\ TaskKinds /\ ItemInv /\ QueueShape /\ ReportInv
  /\ KeptInv
  /\ ~overlap => SoloInv
  /\ ~overlap /\ faults = 0 => OnceInv
-----------------------------------------------------------------------------
(* What leaves the queue. *)

\* Induction up to a bound.
LEMMA UpTo ==
  ASSUME NEW n \in Nat, NEW S, 0 \in S, \A k \in Nat : k \in S /\ k < n => k + 1 \in S
  PROVE  n \in S
  <1> DEFINE T == (0 .. n) \ S
  <1> SUFFICES ASSUME T # {} PROVE FALSE
    OBVIOUS
  <1>1. PICK m \in T : \A k \in T : ~(<<k, m>> \in OpToRel(<, Nat))
    <2>1. T \subseteq Nat /\ T # {}
      OBVIOUS
    <2> HIDE DEF T
    <2>2. QED
      BY <2>1, NatLessThanWellFounded, WFMin
  <1>2. \A k \in T : ~(k < m)
    <2>1. T \subseteq Nat
      OBVIOUS
    <2> HIDE DEF T
    <2>2. QED
      BY <1>1, <2>1 DEF OpToRel
  <1>3. m # 0 /\ m - 1 \in Nat /\ m - 1 < n /\ m - 1 < m /\ m - 1 + 1 = m
    OBVIOUS
  <1>4. m - 1 \in S
    <2>1. m - 1 \in 0 .. n
      BY <1>3
    <2>2. m - 1 \in T => FALSE
      BY <1>2, <1>3
    <2>3. QED
      BY <2>1, <2>2
  <1>5. QED
    BY <1>3, <1>4

\* The next prefix of what stays.
Leaving(q, item, f, i) ==
  IF i = 0 THEN <<>> ELSE IF q[i].key = item.key THEN f[i - 1] ELSE Append(f[i - 1], q[i])

\* The recursion of Ack has a solution.
LEMMA LeavingExists ==
  ASSUME NEW q, Len(q) \in Nat, NEW item
  PROVE  \E f : f = [i \in 0 .. Len(q) |-> Leaving(q, item, f, i)]
  <1> DEFINE D(n) == 0 .. n
             Good(n, f) == f = [i \in D(n) |-> Leaving(q, item, f, i)]
             S == {n \in Nat : \E f : Good(n, f)}
  <1>1. 0 \in S
    <2>1. Good(0, [i \in D(0) |-> <<>>])
      BY DEF Leaving
    <2>2. QED
      BY <2>1
  <1>2. ASSUME NEW k \in Nat, k \in S PROVE k + 1 \in S
    <2>1. PICK f : Good(k, f)
      BY <1>2
    <2> DEFINE g == [i \in D(k + 1) |-> IF i = k + 1 THEN Leaving(q, item, f, k + 1) ELSE f[i]]
    <2>2. \A i \in D(k) : g[i] = f[i] /\ i \in D(k + 1)
      OBVIOUS
    <2>3. \A i \in D(k + 1) : i # 0 => i - 1 \in D(k)
      OBVIOUS
    <2>4. \A i \in D(k + 1) : Leaving(q, item, g, i) = Leaving(q, item, f, i)
      BY <2>2, <2>3 DEF Leaving
    <2>5. \A i \in D(k) : f[i] = Leaving(q, item, f, i)
      BY <2>1
    <2>6. \A i \in D(k + 1) : g[i] = Leaving(q, item, g, i)
      BY <2>4, <2>5
    <2>7. Good(k + 1, g)
      <3>1. g = [i \in D(k + 1) |-> g[i]]
        OBVIOUS
      <3>2. PICK h : h = g
        OBVIOUS
      <3>3. h = [i \in D(k + 1) |-> h[i]] /\ \A i \in D(k + 1) : h[i] = Leaving(q, item, h, i)
        BY <2>6, <3>1, <3>2
      <3> HIDE DEF D
      <3>4. h = [i \in D(k + 1) |-> Leaving(q, item, h, i)]
        BY ONLY <3>3
      <3>5. QED
        BY <3>2, <3>4
    <2> HIDE DEF Good, g
    <2>8. QED
      BY <2>7
  <1> HIDE DEF S
  <1>3. Len(q) \in S
    BY <1>1, <1>2, UpTo
  <1>4. QED
    BY <1>3 DEF S

\* Ack removes what has the key, and nothing else.
LEMMA AckFacts ==
  ASSUME NEW S, NEW q \in Seq(S), NEW item
  PROVE  /\ Ack(q, item) \in Seq(S)
         /\ Elements(Ack(q, item)) = {x \in Elements(q) : x.key # item.key}
         /\ Distinct(q) => Distinct(Ack(q, item))
  <1> DEFINE left == CHOOSE f : f = [i \in 0 .. Len(q) |-> Leaving(q, item, f, i)]
  <1>1. Len(q) \in Nat /\ \A i \in 1 .. Len(q) : q[i] \in S
    OBVIOUS
  <1>2. Ack(q, item) = left[Len(q)]
    BY DEF Ack, Leaving
  <1>3. left = [i \in 0 .. Len(q) |-> Leaving(q, item, left, i)]
    BY <1>1, LeavingExists
  <1> HIDE DEF left
  <1>4. \A i \in 0 .. Len(q) : left[i] = Leaving(q, item, left, i)
    BY <1>3
  <1> DEFINE Stays(i) == {q[j] : j \in {k \in 1 .. i : q[k].key # item.key}}
             Good(i) == /\ left[i] \in Seq(S) /\ Elements(left[i]) = Stays(i)
                        /\ Distinct(q) => Distinct(left[i])
             T == {i \in Nat : i <= Len(q) => Good(i)}
  <1>5. 0 \in T
    <2>1. left[0] = <<>>
      BY <1>1, <1>4 DEF Leaving
    <2>2. Elements(<<>>) = {} /\ Stays(0) = {} /\ Distinct(<<>>)
      BY DEF Elements, Distinct
    <2>3. Good(0)
      <3>1. left[0] \in Seq(S)
        BY <2>1
      <3>2. QED
        BY <2>1, <2>2, <3>1
    <2> HIDE DEF Good
    <2>4. QED
      BY <2>3
  <1>6. ASSUME NEW k \in Nat, k < Len(q)
        PROVE  left[k + 1] = IF q[k + 1].key = item.key THEN left[k] ELSE Append(left[k], q[k + 1])
    <2>1. k + 1 \in 0 .. Len(q) /\ k + 1 # 0 /\ k + 1 - 1 = k
      BY <1>1, <1>6
    <2>2. left[k + 1] = Leaving(q, item, left, k + 1)
      BY <1>4, <2>1
    <2>3. QED
      BY <2>1, <2>2 DEF Leaving
  <1>7. ASSUME NEW k \in Nat, k \in T, k < Len(q) PROVE Good(k + 1)
    <2>1. Good(k) /\ k + 1 \in 1 .. Len(q) /\ q[k + 1] \in S
      BY <1>1, <1>7
    <2>2. CASE q[k + 1].key = item.key
      <3>1. left[k + 1] = left[k]
        BY <1>6, <1>7, <2>2
      <3>2. Stays(k + 1) = Stays(k)
        BY <2>2
      <3>3. QED
        BY <2>1, <3>1, <3>2
    <2>3. CASE q[k + 1].key # item.key
      <3> DEFINE s == left[k]  x == q[k + 1]
      <3>1. left[k + 1] = Append(s, x)
        BY <1>6, <1>7, <2>3
      <3>2. Stays(k + 1) = Stays(k) \cup {x}
        BY <2>1, <2>3
      <3>3. /\ s \in Seq(S) /\ x \in S
            /\ Len(s) \in Nat /\ Append(s, x) \in Seq(S) /\ Len(Append(s, x)) = Len(s) + 1
            /\ \A j \in 1 .. Len(s) : Append(s, x)[j] = s[j]
            /\ Append(s, x)[Len(s) + 1] = x
        BY <2>1
      <3>4. Elements(Append(s, x)) = Elements(s) \cup {x}
        BY <3>3 DEF Elements
      <3>5. ASSUME Distinct(q) PROVE Distinct(Append(s, x))
        <4>1. \A j \in 1 .. k : q[j].key # x.key
          BY <1>1, <2>1, <3>5 DEF Distinct
        <4>2. \A j \in 1 .. Len(s) : s[j].key # x.key
          <5> TAKE j \in 1 .. Len(s)
          <5>1. s[j] \in Stays(k)
            BY <2>1 DEF Elements
          <5>2. QED
            BY <4>1, <5>1
        <4>3. Distinct(s)
          BY <2>1, <3>5
        <4>4. QED
          BY <3>3, <4>2, <4>3 DEF Distinct
      <3>6. QED
        BY <2>1, <3>1, <3>2, <3>3, <3>4, <3>5
    <2>4. QED
      BY <2>2, <2>3
  <1>8. Good(Len(q))
    <2> HIDE DEF Good
    <2>1. \A k \in Nat : k \in T /\ k < Len(q) => k + 1 \in T
      BY <1>1, <1>7
    <2> HIDE DEF T
    <2>2. Len(q) \in T
      BY <1>1, <1>5, <2>1, UpTo
    <2>3. QED
      BY <1>1, <2>2 DEF T
  <1>9. Stays(Len(q)) = {x \in Elements(q) : x.key # item.key}
    BY DEF Elements
  <1>10. QED
    BY <1>2, <1>8, <1>9

\* The rest of a queue.
LEMMA TailFacts ==
  ASSUME NEW S, NEW q, GoodQueue(q, S), q # <<>>
  PROVE  /\ GoodQueue(Tail(q), S) /\ q[1] \in S /\ q[1] \in Elements(q)
         /\ Elements(q) = Elements(Tail(q)) \cup {q[1]}
         /\ \A x \in Elements(Tail(q)) : x.key # q[1].key
  <1>1. q \in Seq(S) /\ Distinct(q) /\ Len(q) \in Nat /\ Len(q) >= 1
    BY DEF GoodQueue
  <1>2. /\ Tail(q) \in Seq(S) /\ Len(Tail(q)) = Len(q) - 1
        /\ \A i \in 1 .. Len(q) - 1 : Tail(q)[i] = q[i + 1]
    BY <1>1
  <1>3. q[1] \in S /\ q[1] \in Elements(q)
    BY <1>1 DEF Elements
  <1>4. Distinct(Tail(q))
    BY <1>1, <1>2 DEF Distinct
  <1>5. Elements(q) = Elements(Tail(q)) \cup {q[1]}
    <2>1. ASSUME NEW i \in 1 .. Len(q) PROVE q[i] \in Elements(Tail(q)) \cup {q[1]}
      <3>1. CASE i = 1
        BY <3>1
      <3>2. CASE i # 1
        <4>1. i - 1 \in 1 .. Len(q) - 1 /\ Tail(q)[i - 1] = q[i]
          BY <1>1, <1>2, <3>2
        <4>2. QED
          BY <1>2, <4>1 DEF Elements
      <3>3. QED
        BY <3>1, <3>2
    <2>2. ASSUME NEW i \in 1 .. Len(Tail(q)) PROVE Tail(q)[i] \in Elements(q)
      BY <1>1, <1>2 DEF Elements
    <2>3. QED
      BY <1>3, <2>1, <2>2 DEF Elements
  <1>6. \A x \in Elements(Tail(q)) : x.key # q[1].key
    BY <1>1, <1>2 DEF Elements, Distinct
  <1>7. QED
    BY <1>2, <1>3, <1>4, <1>5, <1>6 DEF GoodQueue

\* A queue with an event at its end.
LEMMA AppendFacts ==
  ASSUME NEW S, NEW q, GoodQueue(q, S), NEW x \in S, \A y \in Elements(q) : y.key # x.key
  PROVE  GoodQueue(Append(q, x), S) /\ Elements(Append(q, x)) = Elements(q) \cup {x}
  <1>1. /\ q \in Seq(S) /\ Distinct(q) /\ Len(q) \in Nat
        /\ Append(q, x) \in Seq(S) /\ Len(Append(q, x)) = Len(q) + 1
        /\ \A i \in 1 .. Len(q) : Append(q, x)[i] = q[i]
        /\ Append(q, x)[Len(q) + 1] = x
    BY DEF GoodQueue
  <1>2. Elements(Append(q, x)) = Elements(q) \cup {x}
    BY <1>1 DEF Elements
  <1>3. Distinct(Append(q, x))
    BY <1>1 DEF Distinct, Elements
  <1>4. QED
    BY <1>1, <1>2, <1>3 DEF GoodQueue

\* The newest part of a queue.
LEMMA FreshFacts ==
  ASSUME NEW S, NEW q, GoodQueue(q, S), NEW n \in 0 .. Len(q)
  PROVE  /\ GoodQueue(SubSeq(q, n + 1, Len(q)), S)
         /\ Elements(SubSeq(q, n + 1, Len(q))) \subseteq Elements(q)
  <1> DEFINE s == SubSeq(q, n + 1, Len(q))
  <1>1. q \in Seq(S) /\ Distinct(q) /\ Len(q) \in Nat
    BY DEF GoodQueue
  <1>2. /\ s \in Seq(S) /\ Len(s) = Len(q) - n
        /\ \A i \in 1 .. Len(q) - n : s[i] = q[n + i] /\ n + i \in 1 .. Len(q)
    BY <1>1
  <1> HIDE DEF s
  <1>3. Distinct(s)
    BY <1>1, <1>2 DEF Distinct
  <1>4. Elements(s) \subseteq Elements(q)
    BY <1>1, <1>2 DEF Elements
  <1>5. QED
    BY <1>2, <1>3, <1>4 DEF s, GoodQueue

\* The keys are those of the elements.
LEMMA KeysOfElements ==
  ASSUME NEW S, NEW q, GoodQueue(q, S) PROVE KeysOf(q) = {x.key : x \in Elements(q)} /\ Elements(q) \subseteq S
  BY DEF KeysOf, Elements, GoodQueue

\* EventQueue.enqueue keeps the new event, and all others but the oldest.
LEMMA EnqueueFacts ==
  ASSUME NEW S, NEW q, GoodQueue(q, S), NEW x \in S
  PROVE  /\ GoodQueue(Enqueue(q, x), S) /\ x.key \in KeysOf(Enqueue(q, x))
         /\ Elements(Enqueue(q, x)) \subseteq Elements(q) \cup {x}
  <1>1. CASE x.key \in KeysOf(q)
    BY <1>1 DEF Enqueue
  <1>2. CASE x.key \notin KeysOf(q)
    <2> DEFINE r == IF Len(q) = QueueLimit THEN Tail(q) ELSE q
    <2>1. Enqueue(q, x) = Append(r, x)
      BY <1>2 DEF Enqueue
    <2>2. GoodQueue(r, S) /\ Elements(r) \subseteq Elements(q)
      <3>1. CASE Len(q) = QueueLimit
        <4>1. q # <<>>
          BY <3>1, BrowserBounds DEF GoodQueue
        <4>2. QED
          BY <3>1, <4>1, TailFacts
      <3>2. CASE Len(q) # QueueLimit
        BY <3>2
      <3>3. QED
        BY <3>1, <3>2
    <2> HIDE DEF r
    <2>3. \A y \in Elements(q) : y.key # x.key
      BY <1>2, KeysOfElements
    <2>4. GoodQueue(Append(r, x), S) /\ Elements(Append(r, x)) = Elements(r) \cup {x}
      BY <2>2, <2>3, AppendFacts
    <2>5. x.key \in KeysOf(Append(r, x))
      BY <2>4, KeysOfElements
    <2>6. QED
      BY <2>1, <2>2, <2>4, <2>5
  <1>3. QED
    BY <1>1, <1>2

\* A queue of items is one of more items.
LEMMA GoodQueueGrows ==
  ASSUME NEW S, NEW T, S \subseteq T, NEW q, GoodQueue(q, S) PROVE GoodQueue(q, T)
  BY DEF GoodQueue

\* Of a set with no two elements its cardinality says so.
LEMMA NotTwo ==
  ASSUME NEW S, IsFiniteSet(S), ~(Cardinality(S) > 1), NEW x \in S, NEW y \in S PROVE x = y
  <1> SUFFICES ASSUME x # y PROVE FALSE
    OBVIOUS
  <1>1. IsFiniteSet({x}) /\ Cardinality({x}) = 1
    BY FS_Singleton
  <1>2. IsFiniteSet({x} \cup {y}) /\ Cardinality({x} \cup {y}) = 2
    <2>1. Cardinality({x} \cup {y}) = Cardinality({x}) + 1 /\ IsFiniteSet({x} \cup {y})
      BY <1>1, FS_AddElement
    <2>2. QED
      BY <1>1, <2>1
  <1>3. {x} \cup {y} \subseteq S
    OBVIOUS
  <1>4. Cardinality({x} \cup {y}) <= Cardinality(S) /\ Cardinality(S) \in Nat
    BY <1>3, FS_Subset, FS_CardinalityType
  <1>5. QED
    BY <1>2, <1>4

-----------------------------------------------------------------------------
(* The steps. *)

\* Nothing is forgotten: a detection keeps its event, one that is dealt with stays so, and what
\* was received stays.
Remembers ==
  /\ \A d \in Opened : task'[d] # "idle" /\ local'[d].item = local[d].item
  /\ \A d \in DealtWith : task'[d] = "done"
  /\ Received \subseteq Received'

\* So items and keys only grow.
LEMMA Remembered ==
  ASSUME Remembers, Received \subseteq Opened
  PROVE  /\ Opened \subseteq Opened' /\ Items \subseteq Items' /\ ReceivedKeys \subseteq ReceivedKeys'
         /\ \A d \in Opened : local'[d].item = local[d].item
  <1>1. Opened \subseteq Opened'
    BY DEF Remembers, Opened
  <1>2. DealtWith \subseteq DealtWith'
    BY <1>1 DEF Remembers, DealtWith
  <1>3. \A d \in Opened : local'[d].item = local[d].item
    BY DEF Remembers
  <1>4. Items \subseteq Items'
    BY <1>2, <1>3 DEF Items, DealtWith
  <1>5. ReceivedKeys \subseteq ReceivedKeys'
    BY <1>3 DEF ReceivedKeys, KeyOf, Remembers
  <1>6. QED
    BY <1>1, <1>3, <1>4, <1>5

\* An item is the event of a detection that is dealt with.
LEMMA ItemFacts ==
  ASSUME NEW x \in Items
  PROVE  x.det \in DealtWith /\ x.det \in Opened /\ x.det \in Detections /\ x = local[x.det].item
  BY DEF Items, DealtWith, Opened

\* One reporter steps.
Alone(t) == \A u \in Reporters : u # t => task'[u] = task[u] /\ local'[u] = local[u] /\ request'[u] = request[u]

\* What a task leaves of the others.
LEMMA AloneFacts ==
  ASSUME QueueInv, NEW t \in Reporters, NEW pc, Goto(t, pc), NEW x, Load(t, x) \/ local' = local,
         NEW step, request' = request \/ request' = [request EXCEPT ![t] = step]
  PROVE  /\ Alone(t) /\ task'[t] = pc /\ (Load(t, x) => local'[t] = x)
         /\ local' = [u \in BrowserTasks |-> local'[u]]
         /\ \A u \in BrowserTasks \ Reporters : task'[u] = task[u]
         /\ (request' = request \/ request'[t] = step)
  <1>1. t \in BrowserTasks /\ Reporters \subseteq BrowserTasks
    BY DEF BrowserTasks
  <1>2. task' = [task EXCEPT ![t] = pc] /\ DOMAIN task = BrowserTasks /\ DOMAIN request = Reporters
    BY DEF Goto, QueueInv, SilentInv
  <1>3. local = [u \in BrowserTasks |-> local[u]] /\ (local' = [local EXCEPT ![t] = x] \/ local' = local)
    BY DEF Load, QueueInv, ItemInv
  <1>4. \A u \in Reporters : u # t => task'[u] = task[u] /\ local'[u] = local[u] /\ request'[u] = request[u]
    BY <1>1, <1>2, <1>3
  <1>5. QED
    BY <1>1, <1>2, <1>3, <1>4 DEF Alone, Load

\* The invariant has its parts.
LEMMA QueueParts ==
  QueueInv => TaskKinds /\ ItemInv /\ QueueShape /\ ReportInv /\ KeptInv /\ (~overlap => SoloInv)
              /\ (~overlap /\ faults = 0 => OnceInv)
  BY DEF QueueInv

\* Whoever is no reporter, and a request that goes on, leave the queue alone.
LEMMA FrameStep ==
  ASSUME QueueInv, UNCHANGED <<browserEvents, queued, discarded, overwritten, overlap>>,
         faults' \in Nat, faults # 0 => faults' # 0,
         \A t \in Reporters : task'[t] = task[t] /\ local'[t] = local[t],
         \A t \in Reporters : request'[t] # "none" => request[t] # "none",
         local' = [t \in BrowserTasks |-> local'[t]],
         \A t \in BrowserTasks \ Reporters :
           task'[t] \in {"idle", "read", "loaded", "locking", "fetched", "open", "done"}
  PROVE  /\ TaskKinds' /\ ItemInv' /\ QueueShape' /\ ReportInv'
         /\ KeptInv' /\ (~overlap => SoloInv)' /\ (~overlap /\ faults = 0 => OnceInv)'
  <1>1. Detections \subseteq Reporters /\ Flushes \subseteq Reporters
    BY DEF Reporters
  <1>2. \A d \in Detections : task'[d] = task[d] /\ local'[d] = local[d]
    BY <1>1
  <1>3. Opened' = Opened /\ Received' = Received
    BY <1>2 DEF Opened, Received
  <1>4. DealtWith' = DealtWith
    BY <1>2, <1>3 DEF DealtWith, Opened
  <1>5. Items' = Items
    BY <1>2, <1>4 DEF Items, DealtWith, Opened
  <1>6. ReceivedKeys' = ReceivedKeys
    BY <1>2, <1>3, QueueParts DEF ReceivedKeys, KeyOf, ReportInv, Opened
  <1>7. \A t \in Reporters : HasQueue(t)' = HasQueue(t)
    BY DEF HasQueue
  <1>8. TaskKinds' /\ ItemInv'
    BY <1>1, <1>2, <1>3, QueueParts DEF TaskKinds, ItemInv
  <1>9. QueueShape'
    BY <1>1, <1>5, <1>7, QueueParts DEF QueueShape
  <1>10. ReportInv'
    BY <1>3, QueueParts DEF ReportInv
  <1>11. KeptInv' /\ (SoloInv => SoloInv')
    <2>1. KeptInv'
      BY <1>1, <1>2, <1>6, <1>7, QueueParts DEF KeptInv, KeyOf
    <2>2. SoloInv => SoloInv'
      BY <1>7 DEF SoloInv
    <2>3. QED
      BY <2>1, <2>2
  <1>12. OnceInv => OnceInv'
    <2>1. OnceEach => OnceEach'
      BY DEF OnceEach
    <2>2. QED
      BY <1>1, <1>2, <1>3, <1>7, <2>1 DEF OnceInv
  <1>13. QED
    BY <1>8, <1>9, <1>10, <1>11, <1>12, QueueParts

\* The queues of the tasks that do not step.
LEMMA OthersQueues ==
  ASSUME QueueInv, NEW t, Alone(t), Items \subseteq Items'
  PROVE  /\ \A u \in Reporters : u # t => (HasQueue(u)' = HasQueue(u))
         /\ \A u \in Reporters : u # t /\ HasQueue(u)' => GoodQueue(local'[u].queue, Items')
         /\ \A u \in Flushes : u # t /\ task'[u] \in {"flush", "unreachable"} =>
              GoodQueue(local'[u].todo, Items') /\ local'[u].todo # <<>> /\ local'[u].item = local'[u].todo[1]
         /\ \A u \in Flushes : u # t /\ task'[u] = "flush" =>
              Elements(local'[u].todo) \subseteq Elements(local'[u].queue)
  <1>1. Flushes \subseteq Reporters
    BY DEF Reporters
  <1>2. \A u \in Reporters : u # t => HasQueue(u)' = HasQueue(u)
    BY DEF Alone, HasQueue
  <1>3. \A u \in Reporters : u # t /\ HasQueue(u)' => GoodQueue(local'[u].queue, Items')
    BY <1>2, QueueParts, GoodQueueGrows DEF Alone, QueueShape
  <1>4. \A u \in Flushes : u # t /\ task'[u] \in {"flush", "unreachable"} =>
          GoodQueue(local'[u].todo, Items') /\ local'[u].todo # <<>> /\ local'[u].item = local'[u].todo[1]
    BY <1>1, QueueParts, GoodQueueGrows DEF Alone, QueueShape
  <1>5. \A u \in Flushes : u # t /\ task'[u] = "flush" => Elements(local'[u].todo) \subseteq Elements(local'[u].queue)
    BY <1>1, QueueParts DEF Alone, QueueShape
  <1>6. QED
    BY <1>2, <1>3, <1>4, <1>5

\* A detection that is accepted, or not.
LEMMA DetectStep ==
  ASSUME QueueInv, NEW d \in scene, Detect(d)
  PROVE  /\ TaskKinds' /\ ItemInv' /\ QueueShape' /\ ReportInv'
         /\ KeptInv' /\ (~overlap => SoloInv)' /\ (~overlap /\ faults = 0 => OnceInv)'
  <1>1. d \in Detections /\ task[d] = "idle" /\ UNCHANGED <<browserEvents, queued, discarded, overwritten, overlap, faults>>
    BY DEF Detect, At, serverVars, storageVars
  <1>2. d \in Reporters /\ d \notin Flushes /\ Flushes \subseteq Reporters /\ Detections \subseteq Reporters
    BY <1>1, BrowserBounds DEF Reporters
  <1>3. \/ /\ \E x : Load(d, x) /\ x.item.det = d
           /\ Goto(d, "report") /\ request' = [request EXCEPT ![d] = "sent"]
        \/ Goto(d, "done") /\ local' = local /\ request' = request
    BY DEF Detect, Payload
  <1>4. PICK pc \in {"report", "done"} : Goto(d, pc)
          /\ (pc = "report" => (\E x : Load(d, x) /\ x.item.det = d) /\ request' = [request EXCEPT ![d] = "sent"])
          /\ (pc = "done" => local' = local /\ request' = request)
    BY <1>3
  <1>5. PICK x : (Load(d, x) \/ local' = local) /\ (pc = "report" => Load(d, x) /\ x.item.det = d)
    BY <1>4
  <1>6. /\ Alone(d) /\ task'[d] = pc /\ local' = [u \in BrowserTasks |-> local'[u]]
        /\ \A u \in BrowserTasks \ Reporters : task'[u] = task[u]
        /\ (pc = "report" => local'[d].item.det = d)
        /\ (pc = "done" => local'[d] = BrowserNone /\ request'[d] = request[d])
    <2>1. request' = request \/ request' = [request EXCEPT ![d] = "sent"]
      BY <1>4
    <2>2. local[d] = BrowserNone
      BY <1>1, QueueParts DEF ItemInv
    <2>3. QED
      BY <1>2, <1>4, <1>5, <2>1, <2>2, AloneFacts
  <1>7. \A e \in Detections : e # d => task'[e] = task[e] /\ local'[e] = local[e]
    BY <1>2, <1>6 DEF Alone
  <1>8. Received' = Received /\ Received \subseteq Opened /\ d \notin Opened
    BY <1>1, QueueParts DEF Received, ReportInv, Opened
  <1>9. Remembers
    BY <1>7, <1>8 DEF Remembers, DealtWith, Opened
  <1>10. /\ Opened \subseteq Opened' /\ Items \subseteq Items' /\ ReceivedKeys \subseteq ReceivedKeys'
         /\ \A e \in Opened : local'[e].item = local[e].item
    BY <1>8, <1>9, Remembered
  <1>11. ~HasQueue(d) /\ ~HasQueue(d)'
    BY <1>1, <1>4, <1>6 DEF HasQueue
  <1>12. TaskKinds'
    BY <1>2, <1>4, <1>6, QueueParts DEF TaskKinds, Alone
  <1>13. ItemInv'
    <2>1. pc = "report" => d \in Opened'
      BY <1>1, <1>6 DEF Opened
    <2>2. \A e \in Detections : e # d /\ e \in Opened => e \in Opened'
      BY <1>10
    <2>3. QED
      BY <1>4, <1>6, <1>7, <2>1, <2>2, QueueParts DEF ItemInv
  <1>14. QueueShape'
    BY <1>1, <1>2, <1>10, <1>11, <1>6, OthersQueues, QueueParts, GoodQueueGrows DEF QueueShape
  <1>15. ReportInv'
    <2>1. \A u \in Reporters : request'[u] # "none" => task'[u] \in {"report", "flush", "unreachable"}
      <3>1. pc = "done" => request'[d] = "none"
        BY <1>1, <1>2, <1>6, QueueParts DEF ReportInv
      <3>2. QED
        BY <1>4, <1>6, <3>1, QueueParts DEF ReportInv, Alone
    <2>2. \A u \in Reporters : task'[u] = "unreachable" => faults' # 0
      BY <1>1, <1>4, <1>6, QueueParts DEF ReportInv, Alone
    <2>3. QED
      BY <1>1, <1>8, <1>10, <2>1, <2>2, QueueParts DEF ReportInv
  <1>16. KeptInv' /\ (SoloInv => SoloInv')
    <2>1. \A t \in Reporters : HasQueue(t)' => HasQueue(t) /\ local'[t] = local[t]
      BY <1>6, <1>10, <1>11, OthersQueues DEF Alone
    <2>2. \A e \in Detections : task'[e] = "done" /\ local'[e] # BrowserNone =>
            e # d /\ task[e] = "done" /\ local[e] # BrowserNone /\ KeyOf(e)' = KeyOf(e)
      BY <1>4, <1>6, <1>7 DEF KeyOf
    <2>3. KeptInv'
      BY <1>1, <1>10, <2>1, <2>2, QueueParts DEF KeptInv
    <2>4. SoloInv => SoloInv'
      BY <1>1, <2>1 DEF SoloInv
    <2>5. QED
      BY <2>3, <2>4
  <1>17. OnceInv => OnceInv'
    <2>1. OnceEach => OnceEach'
      BY <1>1 DEF OnceEach
    <2>2. \A e \in Detections : task'[e] # "done" => e \notin Received \/ task[e] # "done"
      BY <1>7, <1>8
    <2>3. \A t \in Reporters : HasQueue(t)' => HasQueue(t) /\ local'[t] = local[t]
      BY <1>6, <1>10, <1>11, OthersQueues DEF Alone
    <2>4. \A t \in Flushes : HasQueue(t)' = HasQueue(t)
      BY <1>2, <1>6, <1>10, OthersQueues
    <2>5. QED
      BY <1>1, <1>8, <2>1, <2>2, <2>3, <2>4 DEF OnceInv
  <1>18. QED
    BY <1>1, <1>12, <1>13, <1>14, <1>15, <1>16, <1>17, QueueParts

\* A task takes the queue into memory: the last that did is alone with it, or they overlap.
LEMMA LastHasQueue ==
  ASSUME QueueInv, NEW t \in Reporters, HasQueue(t)', Overlaps, ~overlap'
  PROVE  ~overlap /\ \A u \in Reporters : HasQueue(u)' => u = t
  <1> DEFINE S == {u \in Reporters : HasQueue(u)'}
  <1>1. ~overlap /\ ~(Cardinality(S) > 1)
    BY DEF Overlaps
  <1>2. IsFiniteSet(S)
    BY BrowserBounds, FS_Subset
  <1>3. \A u \in S : u = t
    BY <1>1, <1>2, NotTwo
  <1>4. QED
    BY <1>1, <1>3

\* A detection whose report was refused loads the queue.
LEMMA LoadQueueStep ==
  ASSUME QueueInv, NEW d \in scene, LoadQueue(d)
  PROVE  /\ TaskKinds' /\ ItemInv' /\ QueueShape' /\ ReportInv'
         /\ KeptInv' /\ (~overlap => SoloInv)' /\ (~overlap /\ faults = 0 => OnceInv)'
  <1> DEFINE x == [item |-> local[d].item, queue |-> queued, had |-> KeysOf(queued)]
  <1>1. /\ d \in Detections /\ task[d] = "failed" /\ UNCHANGED <<browserEvents, queued, discarded, overwritten, faults, request>>
        /\ Load(d, x) /\ Goto(d, "queue") /\ Overlaps
    BY DEF LoadQueue, At, serverVars, storageVars
  <1>2. d \in Reporters /\ d \notin Flushes /\ Flushes \subseteq Reporters /\ Detections \subseteq Reporters
    BY <1>1, BrowserBounds DEF Reporters
  <1>3. x.item = local[d].item /\ x.queue = queued /\ x.had = KeysOf(queued)
    OBVIOUS
  <1> HIDE DEF x
  <1>4. /\ Alone(d) /\ task'[d] = "queue" /\ local' = [u \in BrowserTasks |-> local'[u]]
        /\ \A u \in BrowserTasks \ Reporters : task'[u] = task[u]
        /\ local'[d].item = local[d].item /\ local'[d].queue = queued /\ local'[d].had = KeysOf(queued)
    BY <1>1, <1>2, <1>3, AloneFacts
  <1>5. \A e \in Detections : e # d => task'[e] = task[e] /\ local'[e] = local[e]
    BY <1>2, <1>4 DEF Alone
  <1>6. Received' = Received /\ Received \subseteq Opened /\ d \in Opened /\ d \notin DealtWith
    BY <1>1, QueueParts DEF Received, ReportInv, ItemInv, DealtWith
  <1>7. Remembers
    BY <1>4, <1>5, <1>6 DEF Remembers, DealtWith, Opened
  <1>8. /\ Opened \subseteq Opened' /\ Items \subseteq Items' /\ ReceivedKeys \subseteq ReceivedKeys'
        /\ \A e \in Opened : local'[e].item = local[e].item
    BY <1>6, <1>7, Remembered
  <1>9. ~HasQueue(d) /\ HasQueue(d)'
    BY <1>1, <1>4 DEF HasQueue
  <1>10. TaskKinds'
    BY <1>2, <1>4, QueueParts DEF TaskKinds, Alone
  <1>11. ItemInv'
    BY <1>4, <1>5, <1>6, <1>8, QueueParts DEF ItemInv
  <1>12. QueueShape'
    BY <1>1, <1>2, <1>4, <1>8, OthersQueues, QueueParts, GoodQueueGrows DEF QueueShape
  <1>13. ReportInv'
    <2>1. request[d] = "none"
      BY <1>1, <1>2, QueueParts DEF ReportInv
    <2>2. \A u \in Reporters : request'[u] # "none" => task'[u] \in {"report", "flush", "unreachable"}
      BY <1>1, <1>4, <2>1, QueueParts DEF ReportInv, Alone
    <2>3. \A u \in Reporters : task'[u] = "unreachable" => faults' # 0
      BY <1>1, <1>4, QueueParts DEF ReportInv, Alone
    <2>4. overlap' \in BOOLEAN
      BY <1>1, QueueParts DEF Overlaps, ReportInv
    <2>5. QED
      BY <1>1, <1>6, <1>8, <2>2, <2>3, <2>4, QueueParts DEF ReportInv
  <1>14. KeptInv' /\ (~overlap' => SoloInv')
    <2>1. \A u \in Reporters : HasQueue(u)' /\ u # d => HasQueue(u) /\ local'[u] = local[u]
      BY <1>4 DEF Alone, HasQueue
    <2>2. \A e \in Detections : task'[e] = "done" /\ local'[e] # BrowserNone =>
            e # d /\ task[e] = "done" /\ local[e] # BrowserNone /\ KeyOf(e)' = KeyOf(e)
      BY <1>4, <1>5 DEF KeyOf
    <2>3. KeptInv'
      BY <1>1, <1>4, <1>8, <2>1, <2>2, QueueParts DEF KeptInv
    <2>4. ASSUME ~overlap' PROVE SoloInv'
      <3>1. SoloInv /\ \A u \in Reporters : HasQueue(u)' => u = d
        BY <1>1, <1>2, <1>9, <2>4, LastHasQueue, QueueParts
      <3>2. QED
        BY <1>1, <1>4, <3>1 DEF SoloInv
    <2>5. QED
      BY <2>3, <2>4
  <1>15. ~overlap' /\ faults' = 0 => OnceInv'
    <2> SUFFICES ASSUME ~overlap', faults' = 0 PROVE OnceInv'
      OBVIOUS
    <2>1. OnceInv /\ \A u \in Reporters : HasQueue(u)' => u = d
      BY <1>1, <1>2, <1>9, LastHasQueue, QueueParts
    <2>2. OnceEach'
      BY <1>1, <2>1 DEF OnceEach, OnceInv
    <2>3. \A t \in Flushes : ~HasQueue(t) /\ ~HasQueue(t)'
      BY <1>2, <1>4, <1>8, <2>1, OthersQueues
    <2>4. \A y \in Elements(queued) : y.det \notin Received
      BY <2>1, <2>3 DEF OnceInv
    <2>5. \A e \in Detections : task'[e] # "done" => task[e] # "done"
      BY <1>1, <1>5
    <2>6. \A u \in Reporters : HasQueue(u)' => local'[u].queue = queued
      BY <1>4, <2>1
    <2>7. QED
      BY <1>1, <1>6, <2>1, <2>2, <2>4, <2>5, <2>6 DEF OnceInv
  <1>16. QED
    BY <1>10, <1>11, <1>12, <1>13, <1>14, <1>15

\* It saves the queue with its event.
LEMMA SaveQueueStep ==
  ASSUME QueueInv, NEW d \in scene, SaveQueue(d)
  PROVE  /\ TaskKinds' /\ ItemInv' /\ QueueShape' /\ ReportInv'
         /\ KeptInv' /\ (~overlap => SoloInv)' /\ (~overlap /\ faults = 0 => OnceInv)'
  <1> DEFINE q == local[d].queue  x == local[d].item
  <1>1. /\ task[d] = "queue" /\ UNCHANGED <<browserEvents, overlap, faults, request, local>>
        /\ Goto(d, "done") /\ queued' = Enqueue(q, x)
        /\ discarded' = discarded \cup (KeysOf(q) \ KeysOf(queued'))
        /\ overwritten' = overwritten \cup (KeysOf(queued) \ (local[d].had \cup KeysOf(queued')))
    BY DEF SaveQueue, Overwrites, At, serverVars
  <1>2. d \in Detections /\ d \in Reporters /\ d \notin Flushes
        /\ Flushes \subseteq Reporters /\ Detections \subseteq Reporters
    <2>1. d \in BrowserTasks
      BY BrowserBounds DEF QueueInv, SilentInv
    <2>2. d \in Reporters
      BY <1>1, <2>1, QueueParts DEF TaskKinds
    <2>3. d \notin Flushes
      BY <1>1, QueueParts DEF TaskKinds
    <2>4. QED
      BY <2>2, <2>3 DEF Reporters
  <1>3. /\ Alone(d) /\ task'[d] = "done" /\ local' = [u \in BrowserTasks |-> local'[u]]
        /\ \A u \in BrowserTasks \ Reporters : task'[u] = task[u]
    BY <1>1, <1>2, AloneFacts
  <1>4. \A e \in Detections : e # d => task'[e] = task[e]
    BY <1>2, <1>3 DEF Alone
  <1>5. Received' = Received /\ Received \subseteq Opened /\ d \in Opened /\ d \notin DealtWith
    BY <1>1, <1>2, QueueParts DEF Received, ReportInv, ItemInv, DealtWith
  <1>6. Remembers
    BY <1>1, <1>3, <1>4, <1>5 DEF Remembers, DealtWith, Opened
  <1>7. /\ Opened \subseteq Opened' /\ Items \subseteq Items' /\ ReceivedKeys \subseteq ReceivedKeys'
    BY <1>5, <1>6, Remembered
  <1>8. x \in Items' /\ x.det = d
    <2>1. d \in DealtWith'
      BY <1>3, <1>5, <1>7 DEF DealtWith
    <2>2. QED
      BY <1>1, <1>5, <2>1 DEF Items, Opened
  <1>9. HasQueue(d) /\ ~HasQueue(d)'
    BY <1>1, <1>3 DEF HasQueue
  <1>10. GoodQueue(q, Items) /\ GoodQueue(q, Items')
    BY <1>2, <1>7, <1>9, QueueParts, GoodQueueGrows DEF QueueShape
  <1>11. /\ GoodQueue(queued', Items') /\ x.key \in KeysOf(queued')
         /\ Elements(queued') \subseteq Elements(q) \cup {x}
    BY <1>1, <1>8, <1>10, EnqueueFacts
  <1> HIDE DEF q, x
  <1>12. TaskKinds'
    BY <1>2, <1>3, QueueParts DEF TaskKinds, Alone
  <1>13. ItemInv'
    BY <1>1, <1>3, <1>4, <1>5, <1>7, QueueParts DEF ItemInv
  <1>14. QueueShape'
    BY <1>2, <1>3, <1>7, <1>9, <1>11, OthersQueues DEF QueueShape
  <1>15. ReportInv'
    <2>1. request[d] = "none"
      BY <1>1, <1>2, QueueParts DEF ReportInv
    <2>2. \A u \in Reporters : request'[u] # "none" => task'[u] \in {"report", "flush", "unreachable"}
      BY <1>1, <1>3, <2>1, QueueParts DEF ReportInv, Alone
    <2>3. \A u \in Reporters : task'[u] = "unreachable" => faults' # 0
      BY <1>1, <1>3, QueueParts DEF ReportInv, Alone
    <2>4. QED
      BY <1>1, <1>5, <1>7, <2>2, <2>3, QueueParts DEF ReportInv
  <1>16. KeptInv'
    <2>1. local[d].had \subseteq KeysOf(q) \cup discarded \cup ReceivedKeys
      BY <1>2, <1>9, QueueParts DEF KeptInv, q
    <2>2. KeysOf(queued) \subseteq KeysOf(queued') \cup discarded' \cup overwritten' \cup ReceivedKeys
      BY <1>1, <2>1
    <2>3. /\ discarded \subseteq discarded' /\ overwritten \subseteq overwritten'
          /\ \A e \in Detections : KeyOf(e)' = KeyOf(e)
      BY <1>1 DEF KeyOf
    <2>4. \A e \in Detections : task'[e] = "done" /\ local'[e] # BrowserNone =>
            KeyOf(e)' \in KeysOf(queued') \cup discarded' \cup overwritten' \cup ReceivedKeys'
      <3> TAKE e \in Detections
      <3>1. CASE e = d
        BY <1>11, <2>3, <3>1 DEF KeyOf, x
      <3>2. CASE e # d
        BY <1>1, <1>4, <1>7, <2>2, <2>3, <3>2, QueueParts DEF KeptInv
      <3>3. QED
        BY <3>1, <3>2
    <2>5. \A u \in Reporters : HasQueue(u)' => HasQueue(u) /\ local'[u] = local[u]
      BY <1>1, <1>3, <1>7, <1>9, OthersQueues
    <2>6. QED
      BY <1>7, <2>3, <2>4, <2>5, QueueParts DEF KeptInv
  <1>17. SoloInv => SoloInv'
    <2> SUFFICES ASSUME SoloInv PROVE SoloInv'
      OBVIOUS
    <2>1. KeysOf(queued) \subseteq local[d].had /\ \A u \in Reporters : HasQueue(u) => u = d
      BY <1>2, <1>9 DEF SoloInv
    <2>2. \A u \in Reporters : ~HasQueue(u)'
      BY <1>3, <1>7, <1>9, <2>1, OthersQueues
    <2>3. overwritten' = {}
      BY <1>1, <2>1 DEF SoloInv
    <2>4. QED
      BY <2>2, <2>3 DEF SoloInv
  <1>18. SoloInv /\ OnceInv => OnceInv'
    <2> SUFFICES ASSUME SoloInv, OnceInv PROVE OnceInv'
      OBVIOUS
    <2>1. \A u \in Reporters : HasQueue(u) => u = d
      BY <1>2, <1>9 DEF SoloInv
    <2>2. \A u \in Reporters : ~HasQueue(u)'
      BY <1>3, <1>7, <1>9, <2>1, OthersQueues
    <2>3. OnceEach'
      BY <1>1 DEF OnceEach, OnceInv
    <2>4. \A y \in Elements(q) \cup {x} : y.det \notin Received
      BY <1>1, <1>2, <1>8, <1>9 DEF OnceInv, q
    <2>5. \A e \in Detections : task'[e] # "done" => task[e] # "done"
      BY <1>1, <1>4
    <2>6. QED
      BY <1>5, <1>11, <2>2, <2>3, <2>4, <2>5 DEF OnceInv
  <1>19. QED
    BY <1>1, <1>12, <1>13, <1>14, <1>15, <1>16, <1>17, <1>18, QueueParts

\* The retry alarm: a flush loads the queue without what is too old.
LEMMA StartFlushStep ==
  ASSUME QueueInv, NEW t \in scene, StartFlush(t)
  PROVE  /\ TaskKinds' /\ ItemInv' /\ QueueShape' /\ ReportInv'
         /\ KeptInv' /\ (~overlap => SoloInv)' /\ (~overlap /\ faults = 0 => OnceInv)'
  <1>1. /\ t \in Flushes /\ task[t] = "idle" /\ Overlaps /\ UNCHANGED <<browserEvents, queued, faults, overwritten>>
    BY DEF StartFlush, At, serverVars
  <1>2. PICK old \in 0 .. Len(queued) :
          LET fresh == SubSeq(queued, old + 1, Len(queued))
              item == IF fresh = <<>> THEN BrowserNone ELSE fresh[1]
          IN
          /\ Load(t, [queue |-> fresh, todo |-> fresh, secret |-> stored.secret, item |-> item,
                      had |-> KeysOf(queued)])
          /\ Goto(t, IF fresh = <<>> THEN "save" ELSE "flush")
          /\ request' = [request EXCEPT ![t] = IF fresh = <<>> THEN "none" ELSE "sent"]
          /\ discarded' = discarded \cup (KeysOf(queued) \ KeysOf(fresh))
    BY DEF StartFlush
  <1> DEFINE fresh == SubSeq(queued, old + 1, Len(queued))
             item == IF fresh = <<>> THEN BrowserNone ELSE fresh[1]
             x == [queue |-> fresh, todo |-> fresh, secret |-> stored.secret, item |-> item,
                   had |-> KeysOf(queued)]
             pc == IF fresh = <<>> THEN "save" ELSE "flush"
             step == IF fresh = <<>> THEN "none" ELSE "sent"
  <1>3. GoodQueue(fresh, Items) /\ Elements(fresh) \subseteq Elements(queued)
    BY <1>2, QueueParts, FreshFacts DEF QueueShape
  <1>4. /\ Load(t, x) /\ Goto(t, pc) /\ request' = [request EXCEPT ![t] = step]
        /\ discarded' = discarded \cup (KeysOf(queued) \ KeysOf(fresh))
    BY <1>2
  <1>5. /\ x.queue = fresh /\ x.had = KeysOf(queued) /\ x.todo = fresh /\ (pc = "flush" => fresh # <<>> /\ x.item = fresh[1])
        /\ pc \in {"flush", "save"} /\ (pc = "save" => step = "none")
    OBVIOUS
  <1> HIDE DEF fresh, item, x, pc, step
  <1>6. t \in Reporters /\ t \notin Detections /\ Flushes \subseteq Reporters /\ Detections \subseteq Reporters
    BY <1>1, BrowserBounds DEF Reporters
  <1>7. /\ Alone(t) /\ task'[t] = pc /\ local'[t] = x /\ local' = [u \in BrowserTasks |-> local'[u]]
        /\ \A u \in BrowserTasks \ Reporters : task'[u] = task[u]
        /\ request' = request \/ request'[t] = step
    BY <1>4, <1>6, AloneFacts
  <1>8. \A e \in Detections : task'[e] = task[e] /\ local'[e] = local[e]
    BY <1>6, <1>7 DEF Alone
  <1>9. Received' = Received /\ Received \subseteq Opened
    BY <1>1, QueueParts DEF Received, ReportInv
  <1>10. Remembers
    BY <1>8, <1>9 DEF Remembers, DealtWith, Opened
  <1>11. /\ Opened \subseteq Opened' /\ Items \subseteq Items' /\ ReceivedKeys \subseteq ReceivedKeys'
    BY <1>9, <1>10, Remembered
  <1>12. HasQueue(t)'
    BY <1>5, <1>7 DEF HasQueue
  <1>13. TaskKinds'
    BY <1>1, <1>5, <1>6, <1>7, QueueParts DEF TaskKinds, Alone
  <1>14. ItemInv'
    BY <1>7, <1>8, <1>11, QueueParts DEF ItemInv
  <1>15. QueueShape'
    <2>1. GoodQueue(fresh, Items') /\ GoodQueue(queued', Items')
      BY <1>1, <1>3, <1>11, QueueParts, GoodQueueGrows DEF QueueShape
    <2>2. QED
      BY <1>5, <1>7, <1>11, <2>1, OthersQueues DEF QueueShape
  <1>16. ReportInv'
    <2>1. \A u \in Reporters : request'[u] # "none" => task'[u] \in {"report", "flush", "unreachable"}
      <3>1. request[t] = "none"
        BY <1>1, <1>6, QueueParts DEF ReportInv
      <3>2. QED
        BY <1>5, <1>7, <3>1, QueueParts DEF ReportInv, Alone
    <2>2. \A u \in Reporters : task'[u] = "unreachable" => faults' # 0
      BY <1>1, <1>5, <1>7, QueueParts DEF ReportInv, Alone
    <2>3. overlap' \in BOOLEAN
      BY <1>1, QueueParts DEF Overlaps, ReportInv
    <2>4. QED
      BY <1>1, <1>9, <1>11, <2>1, <2>2, <2>3, QueueParts DEF ReportInv
  <1>17. KeptInv' /\ (~overlap' => SoloInv')
    <2>1. \A u \in Reporters : HasQueue(u)' /\ u # t => HasQueue(u) /\ local'[u] = local[u]
      BY <1>7 DEF Alone, HasQueue
    <2>2. KeysOf(queued) \subseteq KeysOf(fresh) \cup discarded' /\ discarded \subseteq discarded'
      BY <1>4
    <2>3. \A e \in Detections : KeyOf(e)' = KeyOf(e)
      BY <1>8 DEF KeyOf
    <2>4. \A u \in Reporters : HasQueue(u)' =>
            local'[u].had \subseteq KeysOf(local'[u].queue) \cup discarded' \cup ReceivedKeys'
      <3> SUFFICES ASSUME NEW u \in Reporters, HasQueue(u)'
                   PROVE  local'[u].had \subseteq KeysOf(local'[u].queue) \cup discarded' \cup ReceivedKeys'
        OBVIOUS
      <3>1. CASE u = t
        BY <1>5, <1>7, <2>2, <3>1
      <3>2. CASE u # t
        BY <1>11, <2>1, <2>2, <3>2, QueueParts DEF KeptInv
      <3>3. QED
        BY <3>1, <3>2
    <2>5. KeptInv'
      BY <1>1, <1>8, <1>11, <2>2, <2>3, <2>4, QueueParts DEF KeptInv
    <2>6. ASSUME ~overlap' PROVE SoloInv'
      <3>1. SoloInv /\ \A u \in Reporters : HasQueue(u)' => u = t
        BY <1>1, <1>6, <1>12, <2>6, LastHasQueue, QueueParts
      <3>2. QED
        BY <1>1, <1>5, <1>7, <3>1 DEF SoloInv
    <2>7. QED
      BY <2>5, <2>6
  <1>18. ~overlap' /\ faults' = 0 => OnceInv'
    <2> SUFFICES ASSUME ~overlap', faults' = 0 PROVE OnceInv'
      OBVIOUS
    <2>1. OnceInv /\ \A u \in Reporters : HasQueue(u)' => u = t
      BY <1>1, <1>6, <1>12, LastHasQueue, QueueParts
    <2>2. OnceEach'
      BY <1>1, <2>1 DEF OnceEach, OnceInv
    <2>3. \A u \in Flushes : ~HasQueue(u)
      <3>1. ~HasQueue(t)
        BY <1>1 DEF HasQueue
      <3>2. QED
        BY <1>6, <1>7, <1>11, <2>1, <3>1, OthersQueues
    <2>4. \A y \in Elements(fresh) : y.det \notin Received
      BY <1>3, <2>1, <2>3 DEF OnceInv
    <2>5. QED
      BY <1>1, <1>5, <1>7, <1>8, <1>9, <1>12, <2>1, <2>2, <2>4 DEF OnceInv
  <1>19. QED
    BY <1>13, <1>14, <1>15, <1>16, <1>17, <1>18

\* A flush saves what is left.
LEMMA SaveFlushedStep ==
  ASSUME QueueInv, NEW t \in scene, SaveFlushed(t)
  PROVE  /\ TaskKinds' /\ ItemInv' /\ QueueShape' /\ ReportInv'
         /\ KeptInv' /\ (~overlap => SoloInv)' /\ (~overlap /\ faults = 0 => OnceInv)'
  <1>1. /\ task[t] = "save" /\ queued' = local[t].queue /\ Goto(t, "done")
        /\ UNCHANGED <<browserEvents, overlap, faults, request, local, discarded>>
        /\ overwritten' = overwritten \cup (KeysOf(queued) \ (local[t].had \cup KeysOf(queued')))
    BY DEF SaveFlushed, Overwrites, At, serverVars
  <1>2. t \in Flushes /\ t \in Reporters /\ t \notin Detections
        /\ Flushes \subseteq Reporters /\ Detections \subseteq Reporters
    <2>1. t \in BrowserTasks
      BY BrowserBounds DEF QueueInv, SilentInv
    <2>2. t \in Reporters
      BY <1>1, <2>1, QueueParts DEF TaskKinds
    <2>3. t \notin Detections
      BY <1>1, QueueParts DEF TaskKinds
    <2>4. QED
      BY <2>2, <2>3 DEF Reporters
  <1>3. /\ Alone(t) /\ task'[t] = "done" /\ local' = [u \in BrowserTasks |-> local'[u]]
        /\ \A u \in BrowserTasks \ Reporters : task'[u] = task[u]
    BY <1>1, <1>2, AloneFacts
  <1>4. \A e \in Detections : task'[e] = task[e] /\ local'[e] = local[e]
    BY <1>1, <1>2, <1>3 DEF Alone
  <1>5. Received' = Received /\ Received \subseteq Opened
    BY <1>1, QueueParts DEF Received, ReportInv
  <1>6. Remembers
    BY <1>4, <1>5 DEF Remembers, DealtWith, Opened
  <1>7. /\ Opened \subseteq Opened' /\ Items \subseteq Items' /\ ReceivedKeys \subseteq ReceivedKeys'
    BY <1>5, <1>6, Remembered
  <1>8. HasQueue(t) /\ ~HasQueue(t)'
    BY <1>1, <1>3 DEF HasQueue
  <1>9. GoodQueue(queued', Items')
    BY <1>1, <1>2, <1>7, <1>8, QueueParts, GoodQueueGrows DEF QueueShape
  <1>10. TaskKinds'
    BY <1>2, <1>3, QueueParts DEF TaskKinds, Alone
  <1>11. ItemInv'
    BY <1>3, <1>4, <1>7, QueueParts DEF ItemInv
  <1>12. QueueShape'
    BY <1>2, <1>3, <1>7, <1>8, <1>9, OthersQueues DEF QueueShape
  <1>13. ReportInv'
    <2>1. request[t] = "none"
      BY <1>1, <1>2, QueueParts DEF ReportInv
    <2>2. \A u \in Reporters : request'[u] # "none" => task'[u] \in {"report", "flush", "unreachable"}
      BY <1>1, <1>3, <2>1, QueueParts DEF ReportInv, Alone
    <2>3. \A u \in Reporters : task'[u] = "unreachable" => faults' # 0
      BY <1>1, <1>3, QueueParts DEF ReportInv, Alone
    <2>4. QED
      BY <1>1, <1>5, <1>7, <2>2, <2>3, QueueParts DEF ReportInv
  <1>14. KeptInv' /\ (SoloInv => SoloInv')
    <2>1. local[t].had \subseteq KeysOf(queued') \cup discarded \cup ReceivedKeys
      BY <1>1, <1>2, <1>8, QueueParts DEF KeptInv
    <2>2. /\ KeysOf(queued) \subseteq KeysOf(queued') \cup discarded \cup overwritten' \cup ReceivedKeys
          /\ overwritten \subseteq overwritten'
      BY <1>1, <2>1
    <2>3. \A e \in Detections : KeyOf(e)' = KeyOf(e)
      BY <1>4 DEF KeyOf
    <2>4. \A u \in Reporters : HasQueue(u)' => HasQueue(u) /\ u # t /\ local'[u] = local[u]
      BY <1>1, <1>3, <1>7, <1>8, OthersQueues
    <2>5. KeptInv'
      BY <1>1, <1>4, <1>7, <2>2, <2>3, <2>4, QueueParts DEF KeptInv
    <2>6. ASSUME SoloInv PROVE SoloInv'
      <3>1. KeysOf(queued) \subseteq local[t].had /\ \A u \in Reporters : HasQueue(u) => u = t
        BY <1>2, <1>8, <2>6 DEF SoloInv
      <3>2. overwritten' = {}
        BY <1>1, <2>6, <3>1 DEF SoloInv
      <3>3. QED
        BY <2>4, <3>1, <3>2 DEF SoloInv
    <2>7. QED
      BY <2>5, <2>6
  <1>15. SoloInv /\ OnceInv => OnceInv'
    <2> SUFFICES ASSUME SoloInv, OnceInv PROVE OnceInv'
      OBVIOUS
    <2>1. \A u \in Reporters : HasQueue(u) => u = t
      BY <1>2, <1>8 DEF SoloInv
    <2>2. \A u \in Reporters : ~HasQueue(u)'
      BY <1>3, <1>7, <1>8, <2>1, OthersQueues
    <2>3. OnceEach'
      BY <1>1 DEF OnceEach, OnceInv
    <2>4. \A y \in Elements(queued') : y.det \notin Received
      BY <1>1, <1>2, <1>8 DEF OnceInv
    <2>5. QED
      BY <1>4, <1>5, <2>2, <2>3, <2>4 DEF OnceInv
  <1>16. QED
    BY <1>1, <1>10, <1>11, <1>12, <1>13, <1>14, <1>15, QueueParts

\* A request that does not return ends the task, and counts as a failed one.
LEMMA UnreachableStep ==
  ASSUME QueueInv, NEW t \in Reporters, Unreachable(t)
  PROVE  /\ TaskKinds' /\ ItemInv' /\ QueueShape' /\ ReportInv'
         /\ KeptInv' /\ (~overlap => SoloInv)' /\ (~overlap /\ faults = 0 => OnceInv)'
  <1>1. /\ task[t] \in {"report", "flush"} /\ Goto(t, "unreachable") /\ faults' = faults + 1
        /\ request' = request \/ request' = [request EXCEPT ![t] = "none"]
        /\ UNCHANGED <<browserEvents, overlap, local, discarded, overwritten, queued>>
    BY DEF Unreachable, serverVars, storageVars
  <1>2. Flushes \subseteq Reporters /\ Detections \subseteq Reporters /\ faults' \in Nat /\ faults' # 0
    BY <1>1, QueueParts DEF Reporters, ReportInv
  <1>3. /\ Alone(t) /\ task'[t] = "unreachable" /\ local' = [u \in BrowserTasks |-> local'[u]]
        /\ \A u \in BrowserTasks \ Reporters : task'[u] = task[u]
    BY <1>1, <1>2, AloneFacts
  <1>4. \A e \in Detections : e # t => task'[e] = task[e]
    BY <1>2, <1>3 DEF Alone
  <1>5. Received' = Received /\ Received \subseteq Opened /\ t \notin DealtWith
    BY <1>1, QueueParts DEF Received, ReportInv, DealtWith
  <1>6. Remembers
    BY <1>1, <1>3, <1>4, <1>5 DEF Remembers, DealtWith, Opened
  <1>7. /\ Opened \subseteq Opened' /\ Items \subseteq Items' /\ ReceivedKeys \subseteq ReceivedKeys'
    BY <1>5, <1>6, Remembered
  <1>8. ~HasQueue(t)' /\ \A u \in Reporters : HasQueue(u)' => HasQueue(u)
    BY <1>3, <1>7, OthersQueues DEF HasQueue
  <1>9. TaskKinds'
    BY <1>2, <1>3, QueueParts DEF TaskKinds, Alone
  <1>10. ItemInv'
    <2>1. t \in Detections => t \in Opened'
      BY <1>1, <1>7, QueueParts DEF ItemInv, TaskKinds
    <2>2. QED
      BY <1>1, <1>3, <1>4, <1>7, <2>1, QueueParts DEF ItemInv
  <1>11. QueueShape'
    <2>1. t \in Flushes => task[t] = "flush"
      BY <1>1, QueueParts DEF TaskKinds
    <2>2. t \in Flushes => GoodQueue(local'[t].todo, Items') /\ local'[t].todo # <<>>
                            /\ local'[t].item = local'[t].todo[1]
      BY <1>1, <1>7, <2>1, QueueParts, GoodQueueGrows DEF QueueShape
    <2>3. GoodQueue(queued', Items')
      BY <1>1, <1>7, QueueParts, GoodQueueGrows DEF QueueShape
    <2>4. QED
      BY <1>3, <1>7, <1>8, <2>2, <2>3, OthersQueues DEF QueueShape
  <1>12. ReportInv'
    <2>1. \A u \in Reporters : request'[u] # "none" => task'[u] \in {"report", "flush", "unreachable"}
      BY <1>3, QueueParts DEF ReportInv, Alone
    <2>2. QED
      BY <1>1, <1>2, <1>5, <1>7, <2>1, QueueParts DEF ReportInv
  <1>13. KeptInv' /\ (SoloInv => SoloInv')
    <2>1. \A e \in Detections : KeyOf(e)' = KeyOf(e) /\ (task'[e] \in {"done", "queue"} => task[e] = task'[e])
      BY <1>1, <1>3, <1>4 DEF KeyOf
    <2>2. KeptInv'
      BY <1>1, <1>2, <1>7, <1>8, <2>1, QueueParts DEF KeptInv
    <2>3. SoloInv => SoloInv'
      BY <1>1, <1>8 DEF SoloInv
    <2>4. QED
      BY <2>2, <2>3
  <1>14. QED
    BY <1>1, <1>2, <1>9, <1>10, <1>11, <1>12, <1>13, QueueParts


\* What the end of a request leaves: the event, when it was stored, and not twice if it was not
\* there.
Ended(t, ok) ==
  /\ Received' = Received \cup (IF ok THEN {local[t].item.det} ELSE {})
  /\ browserEvents' \in Seq(Elements(browserEvents'))
  /\ OnceEach /\ (ok => local[t].item.det \notin Received) => OnceEach'
  /\ faults' \in Nat /\ (faults # 0 => faults' # 0)
  /\ UNCHANGED <<queued, discarded, overwritten, overlap>>

\* The event that a task reports is that of a detection.
LEMMA ReportedItem ==
  ASSUME QueueInv, NEW t \in Reporters, task[t] \in {"report", "flush", "unreachable"}
  PROVE  /\ local[t].item.det \in Opened /\ local[t].item = local[local[t].item.det].item
         /\ (t \in Flushes => local[t].item \in Items)
         /\ (t \in Detections => local[t].item.det = t)
  <1>1. CASE t \in Detections
    <2>1. t \in Opened /\ t \notin Flushes
      BY <1>1, QueueParts, BrowserBounds DEF ItemInv, TaskKinds
    <2>2. QED
      BY <1>1, <2>1 DEF Opened
  <1>2. CASE t \in Flushes
    <2>1. t \notin Detections /\ task[t] \in {"flush", "unreachable"}
      BY <1>2, QueueParts, BrowserBounds DEF TaskKinds
    <2>2. GoodQueue(local[t].todo, Items) /\ local[t].todo # <<>> /\ local[t].item = local[t].todo[1]
      BY <1>2, <2>1, QueueParts DEF QueueShape
    <2>3. local[t].item \in Items
      BY <2>2, TailFacts
    <2>4. QED
      BY <2>1, <2>3, ItemFacts
  <1>3. QED
    BY <1>1, <1>2 DEF Reporters

\* The task has gone: its request ends without it.
LEMMA GoneStep ==
  ASSUME QueueInv, NEW t \in Reporters, NEW ok \in BOOLEAN, task[t] = "unreachable", Serve(t, "none"), Ended(t, ok)
  PROVE  /\ TaskKinds' /\ ItemInv' /\ QueueShape' /\ ReportInv'
         /\ KeptInv' /\ (~overlap => SoloInv)' /\ (~overlap /\ faults = 0 => OnceInv)'
  <1>1. /\ UNCHANGED <<task, local, queued, discarded, overwritten, overlap>> /\ faults' \in Nat
        /\ browserEvents' \in Seq(Elements(browserEvents')) /\ Received \subseteq Received'
        /\ Received' \subseteq Received \cup {local[t].item.det}
    BY DEF Serve, Ended
  <1>2. faults' # 0
    BY QueueParts DEF ReportInv, Ended
  <1>3. \A u \in Reporters : request'[u] # "none" => request[u] # "none"
    BY DEF Serve, QueueInv, SilentInv
  <1>4. Opened' = Opened
    BY <1>1 DEF Opened
  <1>5. DealtWith' = DealtWith
    BY <1>1, <1>4 DEF DealtWith
  <1>6. Items' = Items
    BY <1>1, <1>5 DEF Items
  <1>7. Received' \subseteq Opened /\ Received \subseteq Opened
    BY <1>1, ReportedItem, QueueParts DEF ReportInv
  <1>8. ReceivedKeys \subseteq ReceivedKeys'
    BY <1>1 DEF ReceivedKeys, KeyOf
  <1>9. TaskKinds' /\ ItemInv'
    BY <1>1, <1>4, QueueParts DEF TaskKinds, ItemInv
  <1>10. QueueShape'
    BY <1>1, <1>6, QueueParts DEF QueueShape, HasQueue
  <1>11. ReportInv'
    BY <1>1, <1>2, <1>3, <1>4, <1>7, QueueParts DEF ReportInv
  <1>12. KeptInv' /\ (SoloInv => SoloInv')
    <2>1. \A u \in Reporters : HasQueue(u)' = HasQueue(u)
      BY <1>1 DEF HasQueue
    <2>2. \A e \in Detections : KeyOf(e)' = KeyOf(e)
      BY <1>1 DEF KeyOf
    <2>3. KeptInv'
      BY <1>1, <1>8, <2>1, <2>2, QueueParts DEF KeptInv
    <2>4. SoloInv => SoloInv'
      BY <1>1, <2>1 DEF SoloInv
    <2>5. QED
      BY <2>3, <2>4
  <1>13. QED
    BY <1>1, <1>2, <1>9, <1>10, <1>11, <1>12, QueueParts

\* The answer to a detection: it is done, or will queue its event.
LEMMA DetectionAnswered ==
  ASSUME QueueInv, NEW t \in Detections, NEW ok \in BOOLEAN, task[t] = "report", Answer(t, ok), Ended(t, ok)
  PROVE  /\ TaskKinds' /\ ItemInv' /\ QueueShape' /\ ReportInv'
         /\ KeptInv' /\ (~overlap => SoloInv)' /\ (~overlap /\ faults = 0 => OnceInv)'
  <1> DEFINE pc == IF ok THEN "done" ELSE "failed"
  <1>1. /\ t \in Reporters /\ t \notin Flushes /\ Flushes \subseteq Reporters /\ Detections \subseteq Reporters
        /\ t \in Opened /\ t \notin DealtWith /\ local[t].item.det = t
    BY BrowserBounds, ReportedItem, QueueParts DEF Reporters, DealtWith, ItemInv
  <1>2. Goto(t, pc) /\ request' = [request EXCEPT ![t] = "none"] /\ local' = local
    BY <1>1 DEF Answer
  <1>3. pc \in {"done", "failed"} /\ (pc = "done" => ok) /\ (pc = "failed" => ~ok)
    OBVIOUS
  <1> HIDE DEF pc
  <1>4. /\ UNCHANGED <<queued, discarded, overwritten, overlap>> /\ faults' \in Nat /\ (faults # 0 => faults' # 0)
        /\ browserEvents' \in Seq(Elements(browserEvents')) /\ Received \subseteq Received'
        /\ Received' \subseteq Received \cup {t}
        /\ (pc = "done" => t \in Received') /\ (pc = "failed" => Received' = Received)
    BY <1>1, <1>3 DEF Ended
  <1>5. /\ Alone(t) /\ task'[t] = pc /\ local' = [u \in BrowserTasks |-> local'[u]]
        /\ \A u \in BrowserTasks \ Reporters : task'[u] = task[u]
    BY <1>1, <1>2, AloneFacts
  <1>6. request'[t] = "none"
    BY <1>1, <1>2 DEF QueueInv, SilentInv
  <1>7. \A e \in Detections : e # t => task'[e] = task[e]
    BY <1>1, <1>5 DEF Alone
  <1>8. Received \subseteq Opened
    BY QueueParts DEF ReportInv
  <1>9. Remembers
    BY <1>1, <1>2, <1>3, <1>4, <1>5, <1>7 DEF Remembers, DealtWith, Opened
  <1>10. /\ Opened \subseteq Opened' /\ Items \subseteq Items' /\ ReceivedKeys \subseteq ReceivedKeys'
    BY <1>8, <1>9, Remembered
  <1>11. ~HasQueue(t) /\ ~HasQueue(t)' /\ \A u \in Reporters : HasQueue(u)' = HasQueue(u)
    <2>1. ~HasQueue(t) /\ ~HasQueue(t)'
      BY <1>3, <1>5 DEF HasQueue
    <2>2. QED
      BY <1>5, <1>10, <2>1, OthersQueues DEF HasQueue
  <1>12. TaskKinds'
    BY <1>1, <1>3, <1>5, QueueParts DEF TaskKinds, Alone
  <1>13. ItemInv'
    BY <1>1, <1>2, <1>3, <1>5, <1>7, <1>10, QueueParts DEF ItemInv
  <1>14. QueueShape'
    BY <1>1, <1>4, <1>5, <1>10, <1>11, OthersQueues, QueueParts, GoodQueueGrows DEF QueueShape
  <1>15. ReportInv'
    <2>1. \A u \in Reporters : request'[u] # "none" => task'[u] \in {"report", "flush", "unreachable"}
      BY <1>5, <1>6, QueueParts DEF ReportInv, Alone
    <2>2. \A u \in Reporters : task'[u] = "unreachable" => faults' # 0
      BY <1>3, <1>4, <1>5, QueueParts DEF ReportInv, Alone
    <2>3. QED
      BY <1>1, <1>4, <1>8, <1>10, <2>1, <2>2, QueueParts DEF ReportInv
  <1>16. KeptInv' /\ (SoloInv => SoloInv')
    <2>1. \A e \in Detections : KeyOf(e)' = KeyOf(e)
      BY <1>2 DEF KeyOf
    <2>2. pc = "done" => KeyOf(t)' \in ReceivedKeys'
      BY <1>4 DEF ReceivedKeys
    <2>3. \A e \in Detections : task'[e] = "done" /\ local'[e] # BrowserNone =>
            KeyOf(e)' \in KeysOf(queued') \cup discarded' \cup overwritten' \cup ReceivedKeys'
      <3> TAKE e \in Detections
      <3>1. CASE e = t
        BY <1>5, <2>2, <3>1
      <3>2. CASE e # t
        BY <1>2, <1>4, <1>7, <1>10, <2>1, <3>2, QueueParts DEF KeptInv
      <3>3. QED
        BY <3>1, <3>2
    <2>4. KeptInv'
      BY <1>2, <1>4, <1>10, <1>11, <2>3, QueueParts DEF KeptInv
    <2>5. SoloInv => SoloInv'
      BY <1>2, <1>4, <1>11 DEF SoloInv
    <2>6. QED
      BY <2>4, <2>5
  <1>17. OnceInv => OnceInv'
    <2> SUFFICES ASSUME OnceInv PROVE OnceInv'
      OBVIOUS
    <2>1. OnceEach'
      BY <1>1 DEF OnceInv, Ended
    <2>2. \A e \in Detections : task'[e] # "done" => e \notin Received'
      BY <1>3, <1>4, <1>5, <1>7 DEF OnceInv
    <2>3. \A x \in Items : x.det # t
      BY <1>1, ItemFacts
    <2>4. Elements(queued) \subseteq Items /\ \A u \in Reporters : HasQueue(u) => Elements(local[u].queue) \subseteq Items
      BY QueueParts, KeysOfElements DEF QueueShape
    <2>5. QED
      BY <1>1, <1>2, <1>4, <1>11, <2>1, <2>2, <2>3, <2>4 DEF OnceInv
  <1>18. QED
    BY <1>4, <1>12, <1>13, <1>14, <1>15, <1>16, <1>17, QueueParts

\* The answer to a flush: what was delivered leaves its queue.
LEMMA FlushAnswered ==
  ASSUME QueueInv, NEW t \in Flushes, NEW ok \in BOOLEAN, task[t] = "flush", Answer(t, ok), Ended(t, ok)
  PROVE  /\ TaskKinds' /\ ItemInv' /\ QueueShape' /\ ReportInv'
         /\ KeptInv' /\ (~overlap => SoloInv)' /\ (~overlap /\ faults = 0 => OnceInv)'
  <1> DEFINE q == local[t].queue
             rest == local[t].todo
             event == local[t].item
             left == IF ok THEN Ack(q, rest[1]) ELSE q
             todo == Tail(rest)
             x == [item |-> IF todo = <<>> THEN BrowserNone ELSE todo[1],
                   queue |-> left, todo |-> todo, secret |-> local[t].secret, had |-> local[t].had]
             pc == IF todo = <<>> THEN "save" ELSE "flush"
             step == IF todo = <<>> THEN "none" ELSE "sent"
  <1>1. /\ t \in Reporters /\ t \notin Detections /\ Flushes \subseteq Reporters /\ Detections \subseteq Reporters
        /\ event \in Items /\ event.det \in Opened
    BY BrowserBounds, ReportedItem DEF Reporters
  <1>2. Load(t, x) /\ Goto(t, pc) /\ request' = [request EXCEPT ![t] = step]
    BY DEF Answer, NextReport
  <1>3. /\ x.queue = left /\ x.had = local[t].had /\ x.todo = todo /\ (pc = "flush" => todo # <<>> /\ x.item = todo[1])
        /\ pc \in {"flush", "save"} /\ (pc = "save" => step = "none")
    OBVIOUS
  <1> HIDE DEF x, pc, step
  <1>4. /\ GoodQueue(q, Items) /\ GoodQueue(rest, Items) /\ rest # <<>> /\ event = rest[1]
        /\ Elements(rest) \subseteq Elements(q)
    BY <1>1, QueueParts DEF QueueShape, HasQueue
  <1> HIDE DEF q, rest, event
  <1>5. /\ GoodQueue(todo, Items) /\ event \in Elements(q) /\ Elements(todo) \subseteq Elements(q)
        /\ \A y \in Elements(todo) : y.key # event.key
    <2>1. /\ GoodQueue(Tail(rest), Items) /\ rest[1] \in Elements(rest)
          /\ Elements(rest) = Elements(Tail(rest)) \cup {rest[1]}
          /\ \A y \in Elements(Tail(rest)) : y.key # rest[1].key
      BY <1>4, TailFacts
    <2>2. QED
      BY <1>4, <2>1
  <1>6. /\ GoodQueue(left, Items) /\ Elements(left) \subseteq Elements(q)
        /\ (ok => \A y \in Elements(left) : y.key # event.key)
        /\ \A y \in Elements(q) : y \in Elements(left) \/ (ok /\ y.key = event.key)
    <2>1. CASE ok
      <3>1. left = Ack(q, event) /\ q \in Seq(Items) /\ Distinct(q)
        BY <1>4, <2>1 DEF GoodQueue
      <3> HIDE DEF left
      <3>2. /\ Ack(q, event) \in Seq(Items) /\ Distinct(Ack(q, event))
            /\ Elements(Ack(q, event)) = {y \in Elements(q) : y.key # event.key}
        BY <3>1, AckFacts
      <3>3. QED
        BY <2>1, <3>1, <3>2 DEF GoodQueue
    <2>2. CASE ~ok
      BY <1>4, <2>2
    <2>3. QED
      BY <2>1, <2>2
  <1>7. Elements(todo) \subseteq Elements(left)
    BY <1>5, <1>6
  <1>8. Elements(q) \subseteq Items /\ KeysOf(q) = {y.key : y \in Elements(q)} /\ KeysOf(left) = {y.key : y \in Elements(left)}
    BY <1>4, <1>6, KeysOfElements
  <1>9. /\ UNCHANGED <<queued, discarded, overwritten, overlap>> /\ faults' \in Nat /\ (faults # 0 => faults' # 0)
        /\ browserEvents' \in Seq(Elements(browserEvents')) /\ Received \subseteq Received'
        /\ Received' \subseteq Received \cup {event.det}
        /\ (ok => event.det \in Received') /\ (~ok => Received' = Received)
    BY DEF Ended, event
  <1>10. /\ Alone(t) /\ task'[t] = pc /\ local'[t] = x /\ local' = [u \in BrowserTasks |-> local'[u]]
         /\ \A u \in BrowserTasks \ Reporters : task'[u] = task[u]
    BY <1>1, <1>2, AloneFacts
  <1>11. request'[t] = step
    BY <1>1, <1>2 DEF QueueInv, SilentInv
  <1>12. \A e \in Detections : task'[e] = task[e] /\ local'[e] = local[e]
    BY <1>1, <1>10 DEF Alone
  <1>13. Received \subseteq Opened
    BY QueueParts DEF ReportInv
  <1>14. Remembers
    BY <1>9, <1>12 DEF Remembers, DealtWith, Opened
  <1>15. /\ Opened \subseteq Opened' /\ Items \subseteq Items' /\ ReceivedKeys \subseteq ReceivedKeys'
    BY <1>13, <1>14, Remembered
  <1>16. HasQueue(t) /\ HasQueue(t)' /\ \A u \in Reporters : HasQueue(u)' = HasQueue(u)
    <2>1. HasQueue(t) /\ HasQueue(t)'
      BY <1>3, <1>10 DEF HasQueue
    <2>2. QED
      BY <1>10, <1>15, <2>1, OthersQueues DEF HasQueue
  <1> HIDE DEF left, todo
  <1>17. TaskKinds'
    BY <1>1, <1>3, <1>10, QueueParts DEF TaskKinds, Alone
  <1>18. ItemInv'
    BY <1>10, <1>12, <1>15, QueueParts DEF ItemInv
  <1>19. QueueShape'
    <2>1. GoodQueue(left, Items') /\ GoodQueue(todo, Items') /\ GoodQueue(queued', Items')
      BY <1>5, <1>6, <1>9, <1>15, QueueParts, GoodQueueGrows DEF QueueShape
    <2>2. QED
      BY <1>3, <1>7, <1>10, <1>15, <2>1, OthersQueues DEF QueueShape
  <1>20. ReportInv'
    <2>1. \A u \in Reporters : request'[u] # "none" => task'[u] \in {"report", "flush", "unreachable"}
      BY <1>3, <1>10, <1>11, QueueParts DEF ReportInv, Alone
    <2>2. \A u \in Reporters : task'[u] = "unreachable" => faults' # 0
      BY <1>3, <1>9, <1>10, QueueParts DEF ReportInv, Alone
    <2>3. QED
      BY <1>1, <1>9, <1>13, <1>15, <2>1, <2>2, QueueParts DEF ReportInv
  <1>21. KeptInv' /\ (SoloInv => SoloInv')
    <2>1. \A e \in Detections : KeyOf(e)' = KeyOf(e)
      BY <1>12 DEF KeyOf
    <2>2. ok => event.key \in ReceivedKeys'
      <3>1. event.det \in Detections /\ KeyOf(event.det) = event.key
        BY <1>1, ItemFacts DEF KeyOf
      <3>2. QED
        BY <1>9, <2>1, <3>1 DEF ReceivedKeys
    <2>3. local[t].had \subseteq KeysOf(q) \cup discarded \cup ReceivedKeys
      BY <1>1, <1>16, QueueParts DEF KeptInv, q
    <2>4. KeysOf(q) \subseteq KeysOf(left) \cup ReceivedKeys'
      BY <1>6, <1>8, <2>2
    <2>5. \A u \in Reporters : u # t => local'[u] = local[u]
      BY <1>10 DEF Alone
    <2>6. \A u \in Reporters : HasQueue(u)' =>
            local'[u].had \subseteq KeysOf(local'[u].queue) \cup discarded' \cup ReceivedKeys'
      <3> SUFFICES ASSUME NEW u \in Reporters, HasQueue(u)'
                   PROVE  local'[u].had \subseteq KeysOf(local'[u].queue) \cup discarded' \cup ReceivedKeys'
        OBVIOUS
      <3>1. CASE u = t
        BY <1>3, <1>9, <1>10, <1>15, <2>3, <2>4, <3>1
      <3>2. CASE u # t
        BY <1>9, <1>15, <1>16, <2>5, <3>2, QueueParts DEF KeptInv
      <3>3. QED
        BY <3>1, <3>2
    <2>7. \A e \in Detections : task'[e] = "done" /\ local'[e] # BrowserNone =>
            KeyOf(e)' \in KeysOf(queued') \cup discarded' \cup overwritten' \cup ReceivedKeys'
      BY <1>9, <1>12, <1>15, <2>1, QueueParts DEF KeptInv
    <2>8. KeptInv'
      BY <2>6, <2>7 DEF KeptInv
    <2>9. \A u \in Reporters : local'[u].had = local[u].had
      BY <1>3, <1>10, <2>5
    <2>10. SoloInv => SoloInv'
      BY <1>9, <1>16, <2>9 DEF SoloInv
    <2>11. QED
      BY <2>8, <2>10
  <1>22. SoloInv /\ OnceInv => OnceInv'
    <2> SUFFICES ASSUME SoloInv, OnceInv PROVE OnceInv'
      OBVIOUS
    <2>1. \A y \in Elements(q) : y.det \notin Received
      BY <1>1, <1>16 DEF OnceInv, q
    <2>2. OnceEach'
      BY <1>5, <2>1 DEF OnceInv, Ended, event
    <2>3. \A e \in Detections : task'[e] # "done" => e \notin Received'
      <3>1. task[event.det] = "done"
        BY <1>1, ItemFacts DEF DealtWith
      <3>2. QED
        BY <1>9, <1>12, <3>1 DEF OnceInv
    <2>4. \A y \in Elements(left) : y.det \notin Received'
      <3> TAKE y \in Elements(left)
      <3>1. y \in Elements(q) /\ y \in Items /\ event \in Items
        BY <1>1, <1>6, <1>8
      <3>2. y.det = event.det => y = event
        BY <3>1, ItemFacts
      <3>3. ok => y.det # event.det
        BY <1>6, <3>2
      <3>4. QED
        BY <1>9, <2>1, <3>1, <3>3
    <2>5. \A u \in Reporters : HasQueue(u)' => u = t
      BY <1>1, <1>16 DEF SoloInv
    <2>6. QED
      BY <1>3, <1>10, <1>16, <2>2, <2>3, <2>4, <2>5 DEF OnceInv
  <1>23. QED
    BY <1>9, <1>17, <1>18, <1>19, <1>20, <1>21, <1>22, QueueParts

\* The end of a request.
LEMMA RespondStep ==
  ASSUME QueueInv, NEW t \in Reporters, request[t] # "none", NEW ok \in BOOLEAN, Respond(t, ok), Ended(t, ok)
  PROVE  /\ TaskKinds' /\ ItemInv' /\ QueueShape' /\ ReportInv'
         /\ KeptInv' /\ (~overlap => SoloInv)' /\ (~overlap /\ faults = 0 => OnceInv)'
  <1>1. task[t] \in {"report", "flush", "unreachable"}
    BY QueueParts DEF ReportInv
  <1>2. CASE task[t] = "unreachable"
    BY <1>2, GoneStep DEF Respond
  <1>3. CASE task[t] # "unreachable" /\ t \in Detections
    <2>1. task[t] = "report" /\ Answer(t, ok)
      BY <1>1, <1>3, QueueParts DEF Respond, TaskKinds
    <2>2. QED
      BY <1>3, <2>1, DetectionAnswered
  <1>4. CASE task[t] # "unreachable" /\ t \in Flushes
    <2>1. task[t] = "flush" /\ Answer(t, ok)
      BY <1>1, <1>4, QueueParts DEF Respond, TaskKinds
    <2>2. QED
      BY <1>4, <2>1, FlushAnswered
  <1>5. QED
    BY <1>2, <1>3, <1>4 DEF Reporters

\* A request that ends without its event.
LEMMA RefusedStep ==
  ASSUME QueueInv, NEW t \in Reporters, request[t] # "none", Respond(t, FALSE),
         UNCHANGED <<browserEvents, queued, discarded, overwritten, overlap>>, faults' \in Nat, faults # 0 => faults' # 0
  PROVE  /\ TaskKinds' /\ ItemInv' /\ QueueShape' /\ ReportInv'
         /\ KeptInv' /\ (~overlap => SoloInv)' /\ (~overlap /\ faults = 0 => OnceInv)'
  <1>1. Received' = Received /\ browserEvents' \in Seq(Elements(browserEvents')) /\ (OnceEach => OnceEach')
    <2>1. browserEvents \in Seq(Elements(browserEvents))
      BY QueueParts DEF ReportInv
    <2>2. QED
      BY <2>1 DEF Received, OnceEach, Elements
  <1>2. Ended(t, FALSE)
    BY <1>1 DEF Ended
  <1>3. QED
    BY <1>2, RespondStep

\* A request that goes on.
LEMMA ServeStep ==
  ASSUME QueueInv, NEW t \in Reporters, request[t] # "none", NEW pc, Serve(t, pc),
         UNCHANGED <<browserEvents, queued, discarded, overwritten, overlap, faults>>
  PROVE  /\ TaskKinds' /\ ItemInv' /\ QueueShape' /\ ReportInv'
         /\ KeptInv' /\ (~overlap => SoloInv)' /\ (~overlap /\ faults = 0 => OnceInv)'
  <1>1. \A u \in Reporters : request'[u] # "none" => request[u] # "none"
    BY DEF Serve, QueueInv, SilentInv
  <1>2. UNCHANGED <<task, local>> /\ faults' \in Nat
    BY QueueParts DEF Serve, ReportInv
  <1>3. /\ local' = [u \in BrowserTasks |-> local'[u]]
        /\ \A u \in BrowserTasks \ Reporters :
             task'[u] \in {"idle", "read", "loaded", "locking", "fetched", "open", "done"}
    BY <1>2, QueueParts DEF ItemInv, TaskKinds
  <1>4. QED
    BY <1>1, <1>2, <1>3, FrameStep

\* The event is stored.
LEMMA StoreEventStep ==
  ASSUME QueueInv, NEW t \in Reporters, StoreEvent(t)
  PROVE  /\ TaskKinds' /\ ItemInv' /\ QueueShape' /\ ReportInv'
         /\ KeptInv' /\ (~overlap => SoloInv)' /\ (~overlap /\ faults = 0 => OnceInv)'
  <1>1. /\ request[t] # "none" /\ Respond(t, TRUE) /\ UNCHANGED <<queued, discarded, overwritten, overlap, faults>>
    BY DEF StoreEvent, Release, storageVars
  <1>2. \E x : browserEvents' = Append(browserEvents, x) /\ x.det = local[t].item.det
    <2>1. \E c, n : browserEvents' = Append(browserEvents, [det |-> local[t].item.det, class |-> c, answer |-> n])
      BY Zenon DEF StoreEvent
    <2>2. QED
      BY <2>1
  <1>3. PICK x : browserEvents' = Append(browserEvents, x) /\ x.det = local[t].item.det
    BY <1>2
  <1> DEFINE s == browserEvents
             n == Len(browserEvents)
  <1>4. s \in Seq(Elements(s)) /\ n \in Nat /\ faults' \in Nat
    BY <1>1, QueueParts DEF ReportInv
  <1>5. \E S : s \in Seq(S) /\ x \in S
    <2>1. s \in Seq(Elements(s) \cup {x})
      BY <1>4
    <2>2. QED
      BY <2>1
  <1>6. PICK S : s \in Seq(S) /\ x \in S
    BY <1>5
  <1>7. /\ browserEvents' \in Seq(S) /\ Len(browserEvents') = n + 1
        /\ \A i \in 1 .. n : browserEvents'[i] = s[i]
        /\ browserEvents'[n + 1] = x
    BY <1>3, <1>6
  <1>8. browserEvents' \in Seq(Elements(browserEvents'))
    BY <1>7 DEF Elements
  <1>9. Received' = Received \cup {x.det}
    BY <1>4, <1>7 DEF Received
  <1>10. OnceEach /\ x.det \notin Received => OnceEach'
    BY <1>4, <1>7 DEF OnceEach, Received
  <1>11. Ended(t, TRUE)
    BY <1>1, <1>3, <1>4, <1>8, <1>9, <1>10 DEF Ended
  <1>12. QED
    BY <1>1, <1>11, RespondStep

\* The steps of a request.
LEMMA RequestStep ==
  ASSUME QueueInv, NEW t \in Reporters,
         Authenticate(t) \/ LockKey(t) \/ VerifyRequest(t) \/ StoreEvent(t) \/ IngestFails(t)
  PROVE  /\ TaskKinds' /\ ItemInv' /\ QueueShape' /\ ReportInv'
         /\ KeptInv' /\ (~overlap => SoloInv)' /\ (~overlap /\ faults = 0 => OnceInv)'
  <1>1. faults \in Nat /\ faults + 1 \in Nat /\ faults + 1 # 0
    BY QueueParts DEF ReportInv
  <1>2. CASE Authenticate(t)
    <2>1. request[t] # "none" /\ UNCHANGED <<browserEvents, queued, discarded, overwritten, overlap, faults>>
      BY <1>2 DEF Authenticate, serverVars, storageVars
    <2>2. Serve(t, "read") \/ Respond(t, FALSE)
      BY <1>2 DEF Authenticate
    <2>3. QED
      BY <1>1, <2>1, <2>2, ServeStep, RefusedStep
  <1>3. CASE LockKey(t)
    <2>1. /\ request[t] # "none" /\ UNCHANGED <<browserEvents, queued, discarded, overwritten, overlap, faults>>
          /\ Serve(t, "keyed")
      BY <1>3 DEF LockKey, storageVars
    <2>2. QED
      BY <2>1, ServeStep
  <1>4. CASE VerifyRequest(t)
    <2>1. request[t] # "none" /\ UNCHANGED <<browserEvents, queued, discarded, overwritten, overlap, faults>>
      BY <1>4 DEF VerifyRequest, Release, serverVars, storageVars
    <2>2. Serve(t, "verified") \/ Respond(t, FALSE)
      BY <1>4 DEF VerifyRequest
    <2>3. QED
      BY <1>1, <2>1, <2>2, ServeStep, RefusedStep
  <1>5. CASE StoreEvent(t)
    BY <1>5, StoreEventStep
  <1>6. CASE IngestFails(t)
    <2>1. /\ request[t] # "none" /\ UNCHANGED <<browserEvents, queued, discarded, overwritten, overlap>>
          /\ Respond(t, FALSE) /\ faults' = faults + 1
      BY <1>6 DEF IngestFails, Release, storageVars
    <2>2. QED
      BY <1>1, <2>1, RefusedStep
  <1>7. QED
    BY <1>2, <1>3, <1>4, <1>5, <1>6

\* A task that is no reporter.
LEMMA OtherTaskStep ==
  ASSUME QueueInv, NEW t \in BrowserTasks \ Reporters, NEW x, Load(t, x) \/ local' = local,
         NEW pc \in {"idle", "read", "loaded", "locking", "fetched", "open", "done"}, Goto(t, pc),
         UNCHANGED <<browserEvents, queued, discarded, overwritten, overlap, request>>,
         faults' = faults \/ faults' = faults + 1
  PROVE  /\ TaskKinds' /\ ItemInv' /\ QueueShape' /\ ReportInv'
         /\ KeptInv' /\ (~overlap => SoloInv)' /\ (~overlap /\ faults = 0 => OnceInv)'
  <1>1. faults' \in Nat /\ (faults # 0 => faults' # 0)
    BY QueueParts DEF ReportInv
  <1>2. local = [u \in BrowserTasks |-> local[u]] /\ (local' = [local EXCEPT ![t] = x] \/ local' = local)
    BY QueueParts DEF ItemInv, Load
  <1>3. DOMAIN task = BrowserTasks /\ task' = [task EXCEPT ![t] = pc]
    BY DEF QueueInv, SilentInv, Goto
  <1>4. /\ local' = [u \in BrowserTasks |-> local'[u]]
        /\ \A u \in Reporters : task'[u] = task[u] /\ local'[u] = local[u]
    <2>1. Reporters \subseteq BrowserTasks
      BY DEF BrowserTasks
    <2>2. QED
      BY <1>2, <1>3, <2>1
  <1>5. \A u \in BrowserTasks \ Reporters :
          task'[u] \in {"idle", "read", "loaded", "locking", "fetched", "open", "done"}
    BY <1>3, QueueParts DEF TaskKinds
  <1>6. QED
    BY <1>1, <1>4, <1>5, FrameStep

\* The other tasks leave the queue alone.
LEMMA OtherTasks ==
  ASSUME QueueInv, NEW t \in scene,
         \/ ReadToken(t) \/ Enroll(t) \/ LoadSensor(t) \/ Rotate(t) \/ RevokeLocks(t) \/ Revoke(t)
         \/ LoadPolicy(t) \/ WritePolicy(t) \/ LoadState(t) \/ Fetch(t) \/ SaveState(t)
         \/ OpenPopup(t) \/ TogglePause(t) \/ RevokeFails(t)
  PROVE  /\ TaskKinds' /\ ItemInv' /\ QueueShape' /\ ReportInv'
         /\ KeptInv' /\ (~overlap => SoloInv)' /\ (~overlap /\ faults = 0 => OnceInv)'
  <1> DEFINE pcs == {"idle", "read", "loaded", "locking", "fetched", "open", "done"}
             Still == UNCHANGED <<browserEvents, queued, discarded, overwritten, overlap, request>>
             Other == \E pc \in pcs : Goto(t, pc)
             Loads == \E x : Load(t, x) \/ local' = local
             Faults == faults' = faults \/ faults' = faults + 1
             All == Still /\ Other /\ Loads /\ Faults
  <1>1. t \in BrowserTasks
    BY BrowserBounds DEF QueueInv, SilentInv
  <1>2. t \in Enrollers \cup Admins \cup Updates \cup Syncs \cup Popups => t \notin Reporters
    BY BrowserBounds
  <1>3. task[t] \in {"locking", "fetched", "open"} => t \notin Reporters
    BY QueueParts DEF TaskKinds, Reporters
  <1>4. ReadToken(t) => t \notin Reporters /\ All
    BY <1>2 DEF ReadToken, At, serverVars, storageVars
  <1>5. Enroll(t) => t \notin Reporters /\ All
    BY <1>2 DEF Enroll, At
  <1>6. LoadSensor(t) => t \notin Reporters /\ All
    BY <1>2 DEF LoadSensor, At, serverVars, storageVars
  <1>7. Rotate(t) => t \notin Reporters /\ All
    BY <1>2 DEF Rotate, At, storageVars
  <1>8. RevokeLocks(t) => t \notin Reporters /\ All
    BY <1>2 DEF RevokeLocks, At, storageVars
  <1>9. Revoke(t) => t \notin Reporters /\ All
    BY <1>3 DEF Revoke, At, storageVars
  <1>10. LoadPolicy(t) => t \notin Reporters /\ All
    BY <1>2 DEF LoadPolicy, At, serverVars, storageVars
  <1>11. WritePolicy(t) => t \notin Reporters /\ All
    BY <1>2 DEF WritePolicy, At, storageVars
  <1>12. LoadState(t) => t \notin Reporters /\ All
    BY <1>2 DEF LoadState, At, serverVars, storageVars
  <1>13. Fetch(t) => t \notin Reporters /\ All
    BY <1>2 DEF Fetch, At, storageVars
  <1>14. SaveState(t) => t \notin Reporters /\ All
    BY <1>3 DEF SaveState, At, serverVars
  <1>15. OpenPopup(t) => t \notin Reporters /\ All
    BY <1>2 DEF OpenPopup, At, serverVars, storageVars
  <1>16. TogglePause(t) => t \notin Reporters /\ All
    BY <1>3 DEF TogglePause, At, serverVars
  <1>17. RevokeFails(t) => t \notin Reporters /\ All
    BY <1>3 DEF RevokeFails, At, storageVars
  <1>18. t \notin Reporters /\ All
    <2> HIDE DEF All
    <2> QED
      BY <1>4, <1>5, <1>6, <1>7, <1>8, <1>9, <1>10, <1>11, <1>12, <1>13, <1>14, <1>15, <1>16, <1>17
  <1>19. QED
    BY <1>1, <1>18, OtherTaskStep

-----------------------------------------------------------------------------
\* The invariant holds at the start ...
LEMMA QueueInit == BrowserInit => QueueInv
  <1> SUFFICES ASSUME BrowserInit PROVE QueueInv
    OBVIOUS
  <1>1. SilentInv
    BY SilentInit
  <1>2. \A t \in BrowserTasks : task[t] = "idle" /\ local[t] = BrowserNone
    BY DEF BrowserInit
  <1>3. Reporters \subseteq BrowserTasks /\ Detections \subseteq BrowserTasks /\ Flushes \subseteq BrowserTasks
    BY DEF BrowserTasks, Reporters
  <1>4. Received = {} /\ Elements(queued) = {} /\ KeysOf(queued) = {} /\ GoodQueue(queued, Items) /\ OnceEach
        /\ browserEvents \in Seq(Elements(browserEvents))
    BY DEF BrowserInit, Received, Elements, KeysOf, GoodQueue, Distinct, OnceEach
  <1>5. \A t \in Reporters : ~HasQueue(t)
    BY <1>2, <1>3 DEF HasQueue
  <1>6. TaskKinds
    BY <1>2, <1>3 DEF TaskKinds
  <1>7. ItemInv
    <2>1. local = [t \in BrowserTasks |-> local[t]]
      BY DEF BrowserInit
    <2>2. QED
      BY <1>2, <1>3, <2>1 DEF ItemInv
  <1>8. QueueShape
    BY <1>2, <1>3, <1>4, <1>5 DEF QueueShape
  <1>9. ReportInv
    <2>1. \A t \in Reporters : request[t] = "none"
      BY DEF BrowserInit
    <2>2. QED
      BY <1>2, <1>3, <1>4, <2>1 DEF BrowserInit, ReportInv
  <1>10. KeptInv /\ SoloInv
    BY <1>2, <1>3, <1>5 DEF BrowserInit, KeptInv, SoloInv, Reporters
  <1>11. OnceInv
    BY <1>4, <1>5 DEF OnceInv
  <1>12. QED
    BY <1>1, <1>6, <1>7, <1>8, <1>9, <1>10, <1>11 DEF QueueInv

\* ... and every step keeps it.
LEMMA QueueStep == QueueInv /\ [BrowserNext]_browserVars => QueueInv'
  <1> SUFFICES ASSUME QueueInv, [BrowserNext]_browserVars PROVE QueueInv'
    OBVIOUS
  <1> DEFINE Kept == /\ TaskKinds' /\ ItemInv' /\ QueueShape' /\ ReportInv'
                     /\ KeptInv' /\ (~overlap => SoloInv)' /\ (~overlap /\ faults = 0 => OnceInv)'
  <1>1. SilentInv'
    BY SilentStep DEF QueueInv
  <1>2. ASSUME UNCHANGED <<browserEvents, queued, discarded, overwritten, overlap, faults, task, local, request>> PROVE Kept
    <2>1. /\ faults' \in Nat /\ local' = [t \in BrowserTasks |-> local'[t]]
          /\ \A t \in BrowserTasks \ Reporters :
               task'[t] \in {"idle", "read", "loaded", "locking", "fetched", "open", "done"}
      BY <1>2, QueueParts DEF ReportInv, ItemInv, TaskKinds
    <2>2. QED
      BY <1>2, <2>1, FrameStep
  <1> HIDE DEF Kept
  <1> SUFFICES Kept
    BY <1>1 DEF QueueInv, Kept
  <1>3. CASE UNCHANGED browserVars
    BY <1>2, <1>3 DEF browserVars, serverVars, storageVars
  <1>4. CASE TokenExpires
    BY <1>2, <1>4 DEF TokenExpires, storageVars
  <1>5. CASE Refresh
    BY <1>2, <1>5 DEF Refresh, serverVars
  <1>6. ASSUME NEW t \in Reporters \cap scene,
               \/ Unreachable(t) \/ Authenticate(t) \/ LockKey(t) \/ VerifyRequest(t) \/ StoreEvent(t)
               \/ IngestFails(t)
        PROVE  Kept
    BY <1>6, UnreachableStep, RequestStep DEF Kept
  <1>7. ASSUME NEW t \in scene,
               \/ ReadToken(t) \/ Enroll(t) \/ LoadSensor(t) \/ Rotate(t) \/ RevokeLocks(t) \/ Revoke(t)
               \/ LoadPolicy(t) \/ WritePolicy(t) \/ LoadState(t) \/ Fetch(t) \/ SaveState(t)
               \/ OpenPopup(t) \/ TogglePause(t)
               \/ Detect(t) \/ LoadQueue(t) \/ SaveQueue(t) \/ StartFlush(t) \/ SaveFlushed(t)
               \/ RevokeFails(t)
        PROVE  Kept
    <2>1. CASE Detect(t)
      BY <2>1, DetectStep DEF Kept
    <2>2. CASE LoadQueue(t)
      BY <2>2, LoadQueueStep DEF Kept
    <2>3. CASE SaveQueue(t)
      BY <2>3, SaveQueueStep DEF Kept
    <2>4. CASE StartFlush(t)
      BY <2>4, StartFlushStep DEF Kept
    <2>5. CASE SaveFlushed(t)
      BY <2>5, SaveFlushedStep DEF Kept
    <2>6. QED
      BY <1>7, <2>1, <2>2, <2>3, <2>4, <2>5, OtherTasks DEF Kept
  <1>8. QED
    BY <1>3, <1>4, <1>5, <1>6, <1>7 DEF BrowserNext

\* What the invariant says of a detection that is done.
LEMMA QueueSound == QueueInv => OrderlyQueue
  <1>0. QueueInv => (overwritten # {} => overlap)
    BY QueueParts DEF SoloInv
  <1> SUFFICES ASSUME QueueInv, NEW d \in Detections, task[d] = "done", local[d] # BrowserNone
               PROVE  /\ KeyOf(d) \in KeysOf(queued) \cup discarded \cup overwritten \/ StoredAs(KeyOf(d)) # {}
                      /\ ~overlap /\ faults = 0 => Cardinality({i \in StoredAs(KeyOf(d)) : browserEvents[i].det = d}) <= 1
    BY <1>0 DEF OrderlyQueue
  <1>1. DOMAIN browserEvents = 1 .. Len(browserEvents)
    BY QueueParts DEF ReportInv
  <1>2. KeyOf(d) \in KeysOf(queued) \cup discarded \cup overwritten \/ StoredAs(KeyOf(d)) # {}
    <2>1. KeyOf(d) \in KeysOf(queued) \cup discarded \cup overwritten \cup ReceivedKeys
      BY QueueParts DEF KeptInv
    <2>2. KeyOf(d) \in ReceivedKeys => StoredAs(KeyOf(d)) # {}
      BY <1>1 DEF ReceivedKeys, Received, StoredAs
    <2>3. QED
      BY <2>1, <2>2
  <1>3. ASSUME ~overlap, faults = 0 PROVE Cardinality({i \in StoredAs(KeyOf(d)) : browserEvents[i].det = d}) <= 1
    <2> DEFINE S == {i \in StoredAs(KeyOf(d)) : browserEvents[i].det = d}
    <2>1. \A i, j \in S : i = j
      BY <1>1, <1>3, QueueParts DEF OnceInv, OnceEach, StoredAs
    <2> HIDE DEF S
    <2>2. CASE S = {}
      BY <2>2, FS_EmptySet DEF S
    <2>3. CASE S # {}
      <3>1. PICK i \in S : S = {i}
        BY <2>1, <2>3
      <3>2. Cardinality(S) = 1
        BY <3>1, FS_Singleton
      <3>3. QED
        BY <3>2 DEF S
    <2>4. QED
      BY <2>2, <2>3
  <1>4. QED
    BY <1>2, <1>3

\* handleDetection and flushQueue, however they overlap: an event that the service worker has
\* dealt with is queued, stored, was dropped by its queue (for a newer event or for its age), or
\* was queued between the load and the save of another task; that last happens only to tasks that
\* had the queue in memory at once.  Without those, and without a failed request, it is stored once.
THEOREM QueueIsOrderly == BrowserSpec => []OrderlyQueue
  <1>1. BrowserInit => QueueInv
    BY QueueInit
  <1>2. QueueInv /\ [BrowserNext]_browserVars => QueueInv'
    BY QueueStep
  <1>3. QueueInv => OrderlyQueue
    BY QueueSound
  <1>4. QED
    BY <1>1, <1>2, <1>3, PTL DEF BrowserSpec

-----------------------------------------------------------------------------
(* Coverage: a surface without an active decoy never counts as covered, and *)
(* a state is stored again only by somebody else.                           *)

\* A set of numbers that is not empty and has a bound has a largest element, which Max chooses.
LEMMA BoundedHasMax ==
  ASSUME NEW S \in SUBSET Nat, S # {}, NEW b \in Nat, \A x \in S : x <= b
  PROVE  Max(S) \in S /\ \A x \in S : x <= Max(S)
  <1> DEFINE T == {n \in Nat : \A x \in S : x <= n}
  <1>1. PICK m \in T : \A n \in T : ~(<<n, m>> \in OpToRel(<, Nat))
    <2>1. T \subseteq Nat /\ T # {}
      OBVIOUS
    <2> HIDE DEF T
    <2>2. QED
      BY <2>1, NatLessThanWellFounded, WFMin
  <1>2. \A n \in T : ~(n < m)
    BY <1>1 DEF OpToRel
  <1>3. m \in S
    <2>1. CASE m = 0
      <3>1. PICK x \in S : x <= m
        OBVIOUS
      <3>2. x = 0
        BY <2>1, <3>1
      <3>3. QED
        BY <2>1, <3>2
    <2>2. CASE m # 0
      <3>1. m - 1 \in Nat /\ m - 1 < m
        BY <2>2
      <3>2. m - 1 \notin T
        BY <1>2, <3>1
      <3>3. PICK x \in S : ~(x <= m - 1)
        BY <3>1, <3>2
      <3>4. QED
        BY <3>1, <3>3
    <2>3. QED
      BY <2>1, <2>2
  <1>4. \E x \in S : \A y \in S : x >= y
    BY <1>3
  <1>5. QED
    BY <1>4 DEF Max

\* What a control other than a decoy is worth at most, and in which dimension.
MonitorWorth == 850
IncidentWorth == 800
IdentityWorth == 900

Modest(c) ==
  \/ c.dimension \in {"sensor", "health", "alerting"} /\ c.effectiveness \in 0 .. MonitorWorth
  \/ c.dimension = "identity" /\ c.effectiveness \in 0 .. IdentityWorth
  \/ c.dimension = "incident" /\ c.effectiveness \in 0 .. IncidentWorth

ActiveAreModest(controls) == \A c \in controls : c.type # "decoy" /\ c.status = "active" => Modest(c)

\* The controls of one deployment.
LEMMA DeploymentsAreModest == \A type, d : ActiveAreModest(DeploymentControls(type, d))
  BY DEF DeploymentControls, CovControl, ActiveAreModest, Modest, MonitorWorth, IncidentWorth, IdentityWorth

\* The controls of a domain, an agent and the organization.
LEMMA OthersAreModest ==
  /\ \A enabled : ActiveAreModest(BrowserControls(enabled))
  /\ \A agent : ActiveAreModest(AgentControls(agent))
  /\ \A caps : ActiveAreModest(CapabilityControls(caps))
  <1>1. \A enabled : ActiveAreModest(BrowserControls(enabled))
    BY DEF BrowserControls, CovControl, ActiveAreModest, Modest, MonitorWorth, IncidentWorth, IdentityWorth
  <1>2. \A agent : ActiveAreModest(AgentControls(agent))
    BY DEF AgentControls, CovControl, ActiveAreModest, Modest, MonitorWorth, IncidentWorth, IdentityWorth
  <1>3. \A caps : ActiveAreModest(CapabilityControls(caps))
    BY DEF CapabilityControls, CovControl, ActiveAreModest, Modest, MonitorWorth, IncidentWorth, IdentityWorth
  <1>4. QED
    BY <1>1, <1>2, <1>3

\* All controls on a surface.
LEMMA InventoryIsModest == \A e, s : ActiveAreModest(BuildInventory(e, s))
  <1> TAKE e, s
  <1> DEFINE on == e.on[s]
             own == CASE s.type = "browser_ai" -> BrowserControls(on)
                      [] s.type = "ai_agent" -> AgentControls(on)
                      [] OTHER -> UNION {DeploymentControls(s.type, d) : d \in on}
             given == IF \E c \in own : c.status = "active" THEN CapabilityControls(e.caps) ELSE {}
  <1>1. ActiveAreModest(UNION {DeploymentControls(s.type, d) : d \in on})
    BY DeploymentsAreModest DEF ActiveAreModest
  <1>2. ActiveAreModest(own)
    <2>1. CASE s.type = "browser_ai"
      BY <2>1, OthersAreModest
    <2>2. CASE s.type = "ai_agent"
      BY <2>2, OthersAreModest
    <2>3. CASE s.type # "browser_ai" /\ s.type # "ai_agent"
      BY <2>3, <1>1
    <2>4. QED
      BY <2>1, <2>2, <2>3
  <1>3. ActiveAreModest(given)
    <2>1. ActiveAreModest({})
      BY DEF ActiveAreModest
    <2> HIDE DEF own
    <2>2. QED
      BY <2>1, OthersAreModest
  <1>4. BuildInventory(e, s) = own \cup given
    BY DEF BuildInventory
  <1> HIDE DEF own, given
  <1>5. QED
    BY <1>2, <1>3, <1>4 DEF ActiveAreModest

\* The score of a dimension is no larger than the largest of its controls.
LEMMA DimensionBound ==
  ASSUME NEW controls, NEW dimension, NEW b \in Nat,
         \A c \in controls : c.dimension = dimension /\ c.status = "active" => c.effectiveness \in 0 .. b
  PROVE  DimensionScore(controls, dimension) \in 0 .. b
  <1> DEFINE S == {0} \cup {c.effectiveness : c \in {x \in controls : x.dimension = dimension /\ x.status = "active"}}
  <1>1. S \in SUBSET Nat /\ S # {} /\ \A x \in S : x \in 0 .. b
    OBVIOUS
  <1>2. DimensionScore(controls, dimension) = Max(S)
    BY DEF DimensionScore
  <1> HIDE DEF S
  <1>3. Max(S) \in S
    BY <1>1, BoundedHasMax
  <1>4. QED
    BY <1>1, <1>2, <1>3

\* Without an active decoy, what sensors, monitors and capabilities add up to is not enough.
LEMMA UncoveredScore ==
  ASSUME NEW controls, NEW cross \in BOOLEAN, ActiveAreModest(controls),
         \A c \in controls : ~(c.type = "decoy" /\ c.status = "active")
  PROVE  SurfaceScore(controls, cross) < 60000
  <1>1. MonitorWorth \in Nat /\ IncidentWorth \in Nat /\ IdentityWorth \in Nat
    BY DEF MonitorWorth, IncidentWorth, IdentityWorth
  <1>2. DimensionScore(controls, "placement") \in 0 .. 0
    <2>1. \A c \in controls : c.dimension = "placement" /\ c.status = "active" => c.effectiveness \in 0 .. 0
      BY DEF ActiveAreModest, Modest
    <2>2. QED
      BY <1>1, <2>1, DimensionBound
  <1>3. DimensionScore(controls, "sensor") \in 0 .. MonitorWorth
    <2>1. \A c \in controls : c.dimension = "sensor" /\ c.status = "active" => c.effectiveness \in 0 .. MonitorWorth
      BY DEF ActiveAreModest, Modest
    <2>2. QED
      BY <1>1, <2>1, DimensionBound
  <1>4. DimensionScore(controls, "health") \in 0 .. MonitorWorth
    <2>1. \A c \in controls : c.dimension = "health" /\ c.status = "active" => c.effectiveness \in 0 .. MonitorWorth
      BY DEF ActiveAreModest, Modest
    <2>2. QED
      BY <1>1, <2>1, DimensionBound
  <1>5. DimensionScore(controls, "alerting") \in 0 .. MonitorWorth
    <2>1. \A c \in controls : c.dimension = "alerting" /\ c.status = "active" => c.effectiveness \in 0 .. MonitorWorth
      BY DEF ActiveAreModest, Modest
    <2>2. QED
      BY <1>1, <2>1, DimensionBound
  <1>6. DimensionScore(controls, "incident") \in 0 .. IncidentWorth
    <2>1. \A c \in controls : c.dimension = "incident" /\ c.status = "active" => c.effectiveness \in 0 .. IncidentWorth
      BY DEF ActiveAreModest, Modest
    <2>2. QED
      BY <1>1, <2>1, DimensionBound
  <1>7. DimensionScore(controls, "lifecycle") \in 0 .. 0
    <2>1. \A c \in controls : c.dimension = "lifecycle" /\ c.status = "active" => c.effectiveness \in 0 .. 0
      BY DEF ActiveAreModest, Modest
    <2>2. QED
      BY <1>1, <2>1, DimensionBound
  <1>8. DimensionScore(controls, "identity") \in 0 .. IdentityWorth
    <2>1. \A c \in controls : c.dimension = "identity" /\ c.status = "active" => c.effectiveness \in 0 .. IdentityWorth
      BY DEF ActiveAreModest, Modest
    <2>2. QED
      BY <1>1, <2>1, DimensionBound
  <1>9. DimensionScore(controls, "verification") \in 0 .. 0
    <2>1. \A c \in controls : c.dimension = "verification" /\ c.status = "active" => c.effectiveness \in 0 .. 0
      BY DEF ActiveAreModest, Modest
    <2>2. QED
      BY <1>1, <2>1, DimensionBound
  <1>10. WeightedScore(controls) \in Int /\ WeightedScore(controls) <= 50900
    <2> DEFINE score(d) == DimensionScore(controls, d)
    <2>1. WeightedScore(controls) =
            score("placement") * 22 + score("sensor") * 20 + score("health") * 16 + score("alerting") * 10
              + score("incident") * 8 + score("lifecycle") * 8 + score("identity") * 6 + score("verification") * 6
      BY DEF WeightedScore, DimensionWeights
    <2> HIDE DEF score
    <2>2. PICK p \in 0 .. 0 : p = score("placement")
      BY <1>2 DEF score, MonitorWorth, IncidentWorth, IdentityWorth
    <2>3. PICK n \in 0 .. 850 : n = score("sensor")
      BY <1>3 DEF score, MonitorWorth, IncidentWorth, IdentityWorth
    <2>4. PICK h \in 0 .. 850 : h = score("health")
      BY <1>4 DEF score, MonitorWorth, IncidentWorth, IdentityWorth
    <2>5. PICK a \in 0 .. 850 : a = score("alerting")
      BY <1>5 DEF score, MonitorWorth, IncidentWorth, IdentityWorth
    <2>6. PICK i \in 0 .. 800 : i = score("incident")
      BY <1>6 DEF score, MonitorWorth, IncidentWorth, IdentityWorth
    <2>7. PICK l \in 0 .. 0 : l = score("lifecycle")
      BY <1>7 DEF score, MonitorWorth, IncidentWorth, IdentityWorth
    <2>8. PICK d \in 0 .. 900 : d = score("identity")
      BY <1>8 DEF score, MonitorWorth, IncidentWorth, IdentityWorth
    <2>9. PICK v \in 0 .. 0 : v = score("verification")
      BY <1>9 DEF score, MonitorWorth, IncidentWorth, IdentityWorth
    <2>10. WeightedScore(controls) = p * 22 + n * 20 + h * 16 + a * 10 + i * 8 + l * 8 + d * 6 + v * 6
      BY <2>1, <2>2, <2>3, <2>4, <2>5, <2>6, <2>7, <2>8, <2>9
    <2>11. p * 22 + n * 20 + h * 16 + a * 10 + i * 8 + l * 8 + d * 6 + v * 6 \in Int
      OBVIOUS
    <2>12. p * 22 + n * 20 + h * 16 + a * 10 + i * 8 + l * 8 + d * 6 + v * 6 <= 50900
      OBVIOUS
    <2>13. QED
      BY <2>10, <2>11, <2>12
  <1>11. ~(DimensionScore(controls, "placement") > 0)
    BY <1>2
  <1> DEFINE extra == IF cross THEN 4000 ELSE 0
  <1>12. extra \in {0, 4000}
    OBVIOUS
  <1>13. SurfaceScore(controls, cross) = Min({100000, WeightedScore(controls) + extra + 0})
    BY <1>11 DEF SurfaceScore
  <1> HIDE DEF extra
  <1> DEFINE t == WeightedScore(controls) + extra + 0
             top == 100000
             S == {top, t}
  <1>14. t \in Int /\ t <= 54900 /\ top \in Int /\ t <= top
    BY <1>10, <1>12
  <1> HIDE DEF t, top
  <1>15. \E x \in S : \A y \in S : x =< y
    BY <1>14
  <1>16. \A y \in S : Min(S) =< y
    BY <1>15 DEF Min
  <1>17. Min(S) =< t /\ Min(S) \in S
    BY <1>15, <1>16 DEF Min
  <1>18. SurfaceScore(controls, cross) = Min(S)
    BY <1>13 DEF t, top
  <1> HIDE DEF S
  <1>19. Min(S) \in Int
    BY <1>14, <1>17 DEF S
  <1>20. QED
    BY <1>14, <1>17, <1>18, <1>19

\* What a result, or the snapshot made of it, says of a surface without an active decoy.
Reported(r) ==
  \A x \in DOMAIN r.score :
    ~(\E c \in r.state[x] : c[1] = "decoy" /\ c[3] = "active") =>
      r.score[x] < 60000 /\ r.gaps[x] \cap {"no_decoy", "expired_not_replaced"} # {}

\* Whatever the estate, the calculation reports what has no decoy.
LEMMA ResultIsReported == \A e, recommended : Reported(CoverageResult(e, recommended))
  <1> SUFFICES ASSUME NEW e, NEW recommended PROVE Reported(CoverageResult(e, recommended))
    OBVIOUS
  <1> DEFINE r == CoverageResult(e, recommended)
  <1>1. /\ r.state = SourceState(e) /\ DOMAIN r.score = DOMAIN e.on
        /\ \A x \in DOMAIN e.on : r.score[x] = SurfaceScore(BuildInventory(e, x), CrossSurface(e))
    BY DEF CoverageResult
  <1>2. r.gaps = [x \in DOMAIN e.on |-> {g.type : g \in DetectGaps(x, BuildInventory(e, x), CrossSurface(e))}]
    BY DEF CoverageResult
  <1> HIDE DEF r
  <1>3. ASSUME NEW x \in DOMAIN e.on, ~(\E c \in SourceState(e)[x] : c[1] = "decoy" /\ c[3] = "active")
        PROVE  /\ SurfaceScore(BuildInventory(e, x), CrossSurface(e)) < 60000
               /\ \E g \in DetectGaps(x, BuildInventory(e, x), CrossSurface(e)) :
                    g.type \in {"no_decoy", "expired_not_replaced"}
    <2> DEFINE controls == BuildInventory(e, x)
    <2>1. \A c \in controls : <<c.type, c.ref, c.status>> \in SourceState(e)[x]
      BY <1>3 DEF SourceState
    <2>2. \A c \in controls : ~(c.type = "decoy" /\ c.status = "active")
      <3> HIDE DEF controls
      <3> SUFFICES ASSUME NEW c \in controls PROVE ~(c.type = "decoy" /\ c.status = "active")
        OBVIOUS
      <3> DEFINE triple == <<c.type, c.ref, c.status>>
      <3>1. triple[1] = c.type /\ triple[3] = c.status
        OBVIOUS
      <3> HIDE DEF triple
      <3>2. QED
        BY <1>3, <2>1, <3>1 DEF triple
    <2>3. ActiveAreModest(controls)
      BY InventoryIsModest
    <2>4. CrossSurface(e) \in BOOLEAN
      BY DEF CrossSurface
    <2> HIDE DEF controls
    <2>5. SurfaceScore(controls, CrossSurface(e)) < 60000
      BY <2>2, <2>3, <2>4, UncoveredScore
    <2>6. ~ActivePlacement(controls)
      BY <2>2 DEF ActivePlacement
    <2>7. \E g \in DetectGaps(x, controls, CrossSurface(e)) : g.type \in {"no_decoy", "expired_not_replaced"}
      <3> DEFINE gap(type) == [type |-> type, share |-> 100]
      <3>1. CASE \E c \in controls : c.status = "expired"
        <4>1. gap("expired_not_replaced") \in DetectGaps(x, controls, CrossSurface(e))
          BY <2>6, <3>1, Zenon DEF DetectGaps
        <4>2. QED
          BY <4>1
      <3>2. CASE ~(\E c \in controls : c.status = "expired")
        <4>1. gap("no_decoy") \in DetectGaps(x, controls, CrossSurface(e))
          BY <2>6, <3>2, Zenon DEF DetectGaps
        <4>2. QED
          BY <4>1
      <3>3. QED
        BY <3>1, <3>2
    <2>8. QED
      BY <2>5, <2>7 DEF controls
  <1>4. SUFFICES Reported(r)
    BY DEF r
  <1>5. SUFFICES ASSUME NEW x \in DOMAIN r.score, ~(\E c \in r.state[x] : c[1] = "decoy" /\ c[3] = "active")
                 PROVE  r.score[x] < 60000 /\ r.gaps[x] \cap {"no_decoy", "expired_not_replaced"} # {}
    BY DEF Reported
  <1>6. x \in DOMAIN e.on /\ ~(\E c \in SourceState(e)[x] : c[1] = "decoy" /\ c[3] = "active")
    BY <1>1, <1>5
  <1>7. r.score[x] < 60000
    BY <1>1, <1>3, <1>6
  <1>8. PICK g \in DetectGaps(x, BuildInventory(e, x), CrossSurface(e)) : g.type \in {"no_decoy", "expired_not_replaced"}
    BY <1>3, <1>6
  <1>9. g.type \in r.gaps[x]
    BY <1>2, <1>6, <1>8
  <1>10. QED
    BY <1>7, <1>8, <1>9

\* The recalculations that are under way have their shape, and stamps are within their bound.
Calculating(c) == calculation[c] # CovNone
CalculationRow(x) ==
  x = [result |-> x.result, at |-> x.at, looked |-> x.looked, known |-> x.known, new |-> x.new]

SnapshotShape ==
  /\ calculation = [c \in CovCallers |-> calculation[c]]
  /\ \A c \in CovCallers : Calculating(c) =>
       /\ CalculationRow(calculation[c]) /\ Reported(calculation[c].result)
       /\ calculation[c].at \in 0 .. MaxStamp /\ (calculation[c].looked => calculation[c].at > 0)
  /\ \A s \in snapshots : s.at \in 1 .. MaxStamp /\ s.by \in CovCallers

\* No two snapshots have one stamp, nor has a snapshot that of a recalculation under way.
StampInv ==
  /\ \A s, t \in snapshots : s.at = t.at => s = t
  /\ \A c \in CovCallers : Calculating(c) => \A s \in snapshots : s.at # calculation[c].at
  /\ \A c, d \in CovCallers :
       Calculating(c) /\ Calculating(d) /\ calculation[c].at > 0 /\ calculation[c].at = calculation[d].at => c = d

\* Who looks at the latest snapshot knows of what is stored; if it still goes on, then every
\* stored snapshot of its state has a later one that it knows of, too.
KnowsStored(known) == \A at \in known : \E s \in snapshots : s.at = at
FindsLater(state, known) ==
  \A s \in snapshots : s.at \in known /\ s.state = state => \E u \in snapshots : s.at < u.at /\ u.at \in known

LookedInv ==
  /\ \A c \in CovCallers : Calculating(c) /\ calculation[c].looked =>
       KnowsStored(calculation[c].known) /\ FindsLater(calculation[c].result.state, calculation[c].known)
  /\ \A t \in snapshots : KnowsStored(t.known) /\ t.at \notin t.known /\ FindsLater(t.state, t.known)

SnapshotInv == SnapshotShape /\ StampInv /\ LookedInv /\ UncoveredIsReported

\* Nothing has been calculated at the start.
LEMMA SnapshotInit == CovInit => SnapshotInv
  BY DEF CovInit, SnapshotInv, SnapshotShape, StampInv, LookedInv, UncoveredIsReported,
         Calculating

\* What does not touch snapshots and recalculations keeps the invariant.
LEMMA SnapshotFrame == SnapshotInv /\ UNCHANGED <<snapshots, calculation>> => SnapshotInv'
  BY DEF SnapshotInv, SnapshotShape, StampInv, LookedInv, UncoveredIsReported,
         Calculating, KnowsStored, FindsLater

\* A caller that stops, before or after it has committed, takes part in nothing.
LEMMA CalculationEnds ==
  ASSUME SnapshotInv, NEW c \in CovCallers, calculation' = [calculation EXCEPT ![c] = CovNone],
         snapshots' = snapshots
  PROVE  SnapshotInv'
  <1>1. \A d \in CovCallers : Calculating(d)' => d # c /\ Calculating(d) /\ calculation'[d] = calculation[d]
    BY DEF SnapshotInv, SnapshotShape, Calculating
  <1>2. calculation' = [d \in CovCallers |-> calculation'[d]]
    BY DEF SnapshotInv, SnapshotShape
  <1>3. SnapshotShape'
    BY <1>1, <1>2 DEF SnapshotInv, SnapshotShape
  <1>4. StampInv'
    BY <1>1 DEF SnapshotInv, StampInv
  <1>5. LookedInv'
    BY <1>1 DEF SnapshotInv, LookedInv, KnowsStored, FindsLater
  <1>6. QED
    BY <1>3, <1>4, <1>5 DEF SnapshotInv, UncoveredIsReported

\* A calculation reports what has no decoy, and has no stamp yet.
LEMMA CalculateStep ==
  ASSUME SnapshotInv, NEW c \in CovCallers, Calculate(c) PROVE SnapshotInv'
  <1>1. PICK recommended : calculation' = [calculation EXCEPT ![c] =
          [result |-> CoverageResult(estate, recommended), at |-> 0, looked |-> FALSE, known |-> {}, new |-> {}]]
    BY DEF Calculate
  <1>2. snapshots' = snapshots
    BY DEF Calculate
  <1> DEFINE row == [result |-> CoverageResult(estate, recommended), at |-> 0, looked |-> FALSE,
                     known |-> {}, new |-> {}]
  <1>3. CalculationRow(row) /\ row.at = 0 /\ ~row.looked /\ Reported(row.result)
    BY ResultIsReported DEF CalculationRow
  <1>4. calculation' = [calculation EXCEPT ![c] = row]
    BY <1>1
  <1> HIDE DEF row
  <1>5. calculation' = [d \in CovCallers |-> calculation'[d]] /\ calculation'[c] = row
        /\ \A d \in CovCallers : d # c => calculation'[d] = calculation[d]
    BY <1>4 DEF SnapshotInv, SnapshotShape
  <1>6. SnapshotShape'
    <2>1. \A d \in CovCallers : Calculating(d)' =>
            CalculationRow(calculation'[d]) /\ calculation'[d].at \in 0 .. MaxStamp /\ Reported(calculation'[d].result)
            /\ (calculation'[d].looked => calculation'[d].at > 0)
      BY <1>3, <1>5, CoverageAssumption DEF SnapshotInv, SnapshotShape, Calculating
    <2>2. QED
      BY <1>2, <1>5, <2>1 DEF SnapshotInv, SnapshotShape
  <1>7. \A d \in CovCallers : Calculating(d)' /\ (calculation'[d].at > 0 \/ calculation'[d].looked) =>
          Calculating(d) /\ calculation'[d] = calculation[d]
    BY <1>3, <1>5 DEF Calculating
  <1>8. StampInv'
    <2>1. \A d \in CovCallers : Calculating(d)' => \A s \in snapshots : s.at # calculation'[d].at
      BY <1>3, <1>5 DEF SnapshotInv, SnapshotShape, StampInv, Calculating
    <2>2. \A d, e \in CovCallers :
            Calculating(d)' /\ Calculating(e)' /\ calculation'[d].at > 0 /\ calculation'[d].at = calculation'[e].at => d = e
      BY <1>7 DEF SnapshotInv, StampInv
    <2>3. QED
      BY <1>2, <2>1, <2>2 DEF SnapshotInv, StampInv
  <1>9. LookedInv'
    BY <1>2, <1>7 DEF SnapshotInv, LookedInv, KnowsStored, FindsLater
  <1>10. QED
    BY <1>2, <1>6, <1>8, <1>9 DEF SnapshotInv, UncoveredIsReported

\* The next stamp is after every other.
LEMMA NextStampIsLast ==
  ASSUME SnapshotInv
  PROVE  /\ NextStamp \in Nat \ {0} /\ \A s \in snapshots : s.at < NextStamp
         /\ \A c \in CovCallers : Calculating(c) => calculation[c].at < NextStamp
  <1> DEFINE S == {0} \cup {s.at : s \in snapshots}
                      \cup {calculation[c].at : c \in {d \in CovCallers : calculation[d] # CovNone}}
  <1>1. S \in SUBSET Nat /\ S # {} /\ \A x \in S : x <= MaxStamp
    BY CoverageAssumption DEF SnapshotInv, SnapshotShape, Calculating
  <1>2. \A s \in snapshots : s.at \in S
    OBVIOUS
  <1>3. \A c \in CovCallers : Calculating(c) => calculation[c].at \in S
    BY DEF Calculating
  <1>4. NextStamp = 1 + Max(S)
    BY DEF NextStamp
  <1> HIDE DEF S
  <1>5. Max(S) \in Nat /\ \A x \in S : x \in Nat /\ x <= Max(S)
    BY <1>1, CoverageAssumption, BoundedHasMax
  <1>6. NextStamp \in Nat \ {0} /\ \A x \in S : x < NextStamp
    BY <1>4, <1>5
  <1>7. QED
    BY <1>2, <1>3, <1>6

\* The snapshot that persist_snapshot compares with is the one with the last stamp.
LEMMA LatestIsLast ==
  ASSUME SnapshotInv, snapshots # {}
  PROVE  LatestSnapshot \in snapshots /\ \A s \in snapshots : s.at <= LatestSnapshot.at
  <1> DEFINE S == {s.at : s \in snapshots}
  <1>1. S \in SUBSET Nat /\ S # {} /\ \A x \in S : x <= MaxStamp
    BY CoverageAssumption DEF SnapshotInv, SnapshotShape
  <1>2. \A s \in snapshots : s.at \in S
    OBVIOUS
  <1>3. \A x \in S : \E s \in snapshots : s.at = x
    OBVIOUS
  <1> HIDE DEF S
  <1>4. Max(S) \in S /\ \A x \in S : x <= Max(S)
    BY <1>1, CoverageAssumption, BoundedHasMax
  <1>5. \E s \in snapshots : \A t \in snapshots : t.at <= s.at
    BY <1>2, <1>3, <1>4
  <1>6. QED
    BY <1>5 DEF LatestSnapshot

\* The row that StampSnapshot writes.
LEMMA StampedRow ==
  ASSUME NEW x, CalculationRow(x), NEW at
  PROVE  LET y == [x EXCEPT !.at = at]
         IN CalculationRow(y) /\ y.at = at /\ y.result = x.result /\ y.looked = x.looked /\ y.known = x.known
  <1>1. PICK r, a, l, k, n : x = [result |-> r, at |-> a, looked |-> l, known |-> k, new |-> n]
    BY DEF CalculationRow
  <1>2. [x EXCEPT !.at = at] = [result |-> r, at |-> at, looked |-> l, known |-> k, new |-> n]
    BY <1>1
  <1>3. QED
    BY <1>1, <1>2 DEF CalculationRow

\* calculated_at is a stamp of its own.
LEMMA StampStep ==
  ASSUME SnapshotInv, NEW c \in CovCallers, StampSnapshot(c) PROVE SnapshotInv'
  <1> DEFINE x == calculation[c]
             row == [x EXCEPT !.at = NextStamp]
  <1>1. /\ calculation' = [calculation EXCEPT ![c] = row] /\ snapshots' = snapshots
        /\ Calculating(c) /\ x.at = 0 /\ NextStamp <= MaxStamp
    BY DEF StampSnapshot, Calculating
  <1>2. CalculationRow(x) /\ Reported(x.result) /\ ~x.looked
    BY <1>1 DEF SnapshotInv, SnapshotShape
  <1>3. CalculationRow(row) /\ row.at = NextStamp /\ row.result = x.result /\ ~row.looked
    BY <1>2, StampedRow
  <1>4. /\ NextStamp \in Nat \ {0} /\ \A s \in snapshots : s.at < NextStamp /\ s.at \in Nat
        /\ \A d \in CovCallers : Calculating(d) => calculation[d].at < NextStamp /\ calculation[d].at \in Nat
    BY NextStampIsLast DEF SnapshotInv, SnapshotShape
  <1> HIDE DEF row
  <1>5. calculation' = [d \in CovCallers |-> calculation'[d]] /\ calculation'[c] = row
        /\ \A d \in CovCallers : d # c => calculation'[d] = calculation[d]
    BY <1>1 DEF SnapshotInv, SnapshotShape
  <1>6. SnapshotShape'
    <2>1. \A d \in CovCallers : Calculating(d)' =>
            CalculationRow(calculation'[d]) /\ calculation'[d].at \in 0 .. MaxStamp /\ Reported(calculation'[d].result)
            /\ (calculation'[d].looked => calculation'[d].at > 0)
      BY <1>1, <1>2, <1>3, <1>4, <1>5, CoverageAssumption DEF SnapshotInv, SnapshotShape, Calculating
    <2>2. QED
      BY <1>1, <1>5, <2>1 DEF SnapshotInv, SnapshotShape
  <1>7. StampInv'
    <2>1. \A d \in CovCallers : Calculating(d)' => \A s \in snapshots : s.at # calculation'[d].at
      BY <1>3, <1>4, <1>5 DEF SnapshotInv, StampInv, Calculating
    <2>2. \A d, e \in CovCallers :
            Calculating(d)' /\ Calculating(e)' /\ calculation'[d].at > 0 /\ calculation'[d].at = calculation'[e].at => d = e
      BY <1>3, <1>4, <1>5 DEF SnapshotInv, StampInv, Calculating
    <2>3. QED
      BY <1>1, <2>1, <2>2 DEF SnapshotInv, StampInv
  <1>8. LookedInv'
    <2>1. \A d \in CovCallers : Calculating(d)' /\ calculation'[d].looked =>
            Calculating(d) /\ calculation'[d] = calculation[d]
      BY <1>3, <1>5 DEF Calculating
    <2>2. QED
      BY <1>1, <2>1 DEF SnapshotInv, LookedInv, KnowsStored, FindsLater
  <1>9. QED
    BY <1>1, <1>6, <1>7, <1>8 DEF SnapshotInv, UncoveredIsReported

\* persist_snapshot goes on only if the latest snapshot has another state, and so every
\* snapshot of its state has a later one.
LEMMA PersistStep ==
  ASSUME SnapshotInv, NEW c \in CovCallers, PersistSnapshot(c) PROVE SnapshotInv'
  <1> DEFINE x == calculation[c]
             known == {s.at : s \in snapshots}
             row == [result |-> x.result, at |-> x.at, looked |-> TRUE, known |-> known,
                     new |-> DOMAIN x.result.score \ knownSurfaces]
  <1>1. CASE Unchanged(x.result)
    BY <1>1, CalculationEnds DEF PersistSnapshot
  <1>2. CASE ~Unchanged(x.result)
    <2>1. /\ calculation' = [calculation EXCEPT ![c] = row] /\ snapshots' = snapshots
          /\ Calculating(c) /\ x.at > 0
      BY <1>2 DEF PersistSnapshot, Calculating
    <2>2. CalculationRow(x) /\ Reported(x.result) /\ x.at \in 0 .. MaxStamp
      BY <2>1 DEF SnapshotInv, SnapshotShape
    <2>3. CalculationRow(row) /\ row.at = x.at /\ row.result = x.result /\ row.looked /\ row.known = known
      BY DEF CalculationRow
    <2> HIDE DEF row
    <2>4. calculation' = [d \in CovCallers |-> calculation'[d]] /\ calculation'[c] = row
          /\ \A d \in CovCallers : d # c => calculation'[d] = calculation[d]
      BY <2>1 DEF SnapshotInv, SnapshotShape
    <2>5. SnapshotShape'
      <3>1. \A d \in CovCallers : Calculating(d)' =>
              CalculationRow(calculation'[d]) /\ calculation'[d].at \in 0 .. MaxStamp /\ Reported(calculation'[d].result)
              /\ (calculation'[d].looked => calculation'[d].at > 0)
        BY <2>1, <2>2, <2>3, <2>4 DEF SnapshotInv, SnapshotShape, Calculating
      <3>2. QED
        BY <2>1, <2>4, <3>1 DEF SnapshotInv, SnapshotShape
    <2>6. StampInv'
      <3>1. \A d \in CovCallers : Calculating(d)' => Calculating(d) /\ calculation'[d].at = calculation[d].at
        BY <2>1, <2>3, <2>4 DEF Calculating
      <3>2. QED
        BY <2>1, <3>1 DEF SnapshotInv, StampInv
    <2>7. KnowsStored(known)
      BY DEF KnowsStored
    <2>8. FindsLater(x.result.state, known)
      <3> SUFFICES ASSUME NEW s \in snapshots, s.state = x.result.state
                   PROVE  \E u \in snapshots : s.at < u.at /\ u.at \in known
        BY DEF FindsLater
      <3>1. LatestSnapshot \in snapshots /\ s.at <= LatestSnapshot.at
        BY LatestIsLast
      <3>2. LatestSnapshot # s
        BY <1>2, <3>1 DEF Unchanged
      <3>3. LatestSnapshot.at # s.at /\ LatestSnapshot.at \in Int /\ s.at \in Int
        BY <3>1, <3>2 DEF SnapshotInv, StampInv, SnapshotShape
      <3>4. s.at < LatestSnapshot.at
        BY <3>1, <3>3
      <3>5. QED
        BY <3>1, <3>4
    <2> HIDE DEF known
    <2>9. LookedInv'
      <3>1. ASSUME NEW d \in CovCallers, Calculating(d)', calculation'[d].looked
            PROVE  KnowsStored(calculation'[d].known) /\ FindsLater(calculation'[d].result.state, calculation'[d].known)
        <4>1. CASE d = c
          BY <4>1, <2>3, <2>4, <2>7, <2>8
        <4>2. CASE d # c
          BY <3>1, <4>2, <2>4 DEF SnapshotInv, LookedInv, Calculating
        <4>3. QED
          BY <4>1, <4>2
      <3>2. QED
        BY <2>1, <3>1 DEF SnapshotInv, LookedInv, KnowsStored, FindsLater
    <2>10. QED
      BY <2>1, <2>5, <2>6, <2>9 DEF SnapshotInv, UncoveredIsReported
  <1>3. QED
    BY <1>1, <1>2

\* The commit adds a snapshot with a stamp of its own, which none that looked knows.
LEMMA CommitStep ==
  ASSUME SnapshotInv, NEW c \in CovCallers, CommitSnapshot(c) PROVE SnapshotInv'
  <1> DEFINE x == calculation[c]
             new == [at |-> x.at, by |-> c, known |-> x.known, state |-> x.result.state, score |-> x.result.score,
                     gaps |-> x.result.gaps, recommended |-> x.result.recommended]
  <1>1. Calculating(c) /\ x.looked /\ calculation' = [calculation EXCEPT ![c] = CovNone]
    BY DEF CommitSnapshot, Calculating
  <1>2. CASE x.new \cap knownSurfaces # {}
    BY <1>1, <1>2, CalculationEnds DEF CommitSnapshot
  <1>3. CASE ~(x.new \cap knownSurfaces # {})
    <2>1. snapshots' = snapshots \cup {new}
      BY <1>3 DEF CommitSnapshot
    <2>2. x.at \in 1 .. MaxStamp /\ Reported(x.result)
      BY <1>1 DEF SnapshotInv, SnapshotShape
    <2>3. new.at = x.at /\ new.by = c /\ new.known = x.known /\ new.state = x.result.state
      OBVIOUS
    <2>4. Reported(new)
      BY <2>2 DEF Reported
    <2> HIDE DEF new
    <2>5. \A s \in snapshots : s.at # new.at
      BY <1>1, <2>3 DEF SnapshotInv, StampInv
    <2>6. KnowsStored(new.known) /\ FindsLater(new.state, new.known)
      BY <1>1, <2>3 DEF SnapshotInv, LookedInv
    <2>7. \A d \in CovCallers : Calculating(d)' => d # c /\ Calculating(d) /\ calculation'[d] = calculation[d]
      BY <1>1 DEF SnapshotInv, SnapshotShape, Calculating
    <2>8. SnapshotShape'
      <3>1. calculation' = [d \in CovCallers |-> calculation'[d]]
        BY <1>1 DEF SnapshotInv, SnapshotShape
      <3>2. QED
        BY <2>1, <2>2, <2>3, <2>7, <3>1 DEF SnapshotInv, SnapshotShape
    <2>9. StampInv'
      <3>1. \A d \in CovCallers : Calculating(d)' => new.at # calculation'[d].at
        <4>1. x.at > 0
          BY <2>2
        <4>2. QED
          BY <1>1, <2>3, <2>7, <4>1 DEF SnapshotInv, StampInv
      <3>2. QED
        BY <2>1, <2>5, <2>7, <3>1 DEF SnapshotInv, StampInv
    <2>10. LookedInv'
      <3> DEFINE Knows(known) == \A at \in known : \E s \in snapshots' : s.at = at
                 Finds(state, known) ==
                   \A s \in snapshots' : s.at \in known /\ s.state = state =>
                     \E u \in snapshots' : s.at < u.at /\ u.at \in known
      <3>1. ASSUME NEW known, NEW state, KnowsStored(known), FindsLater(state, known)
            PROVE  Knows(known) /\ Finds(state, known) /\ new.at \notin known
        <4>1. new.at \notin known
          BY <2>5, <3>1 DEF KnowsStored
        <4>2. QED
          BY <2>1, <3>1, <4>1 DEF KnowsStored, FindsLater
      <3>2. ASSUME NEW d \in CovCallers, Calculating(d)', calculation'[d].looked
            PROVE  Knows(calculation'[d].known) /\ Finds(calculation'[d].result.state, calculation'[d].known)
        <4>1. Calculating(d) /\ calculation'[d] = calculation[d] /\ calculation[d].looked
          BY <2>7, <3>2
        <4>2. KnowsStored(calculation[d].known) /\ FindsLater(calculation[d].result.state, calculation[d].known)
          BY <4>1 DEF SnapshotInv, LookedInv
        <4>3. QED
          BY <3>1, <4>1, <4>2
      <3>3. ASSUME NEW t \in snapshots'
            PROVE  Knows(t.known) /\ t.at \notin t.known /\ Finds(t.state, t.known)
        <4>1. KnowsStored(t.known) /\ FindsLater(t.state, t.known) /\ (t # new => t.at \notin t.known)
          BY <2>1, <2>6, <3>3 DEF SnapshotInv, LookedInv
        <4>2. QED
          BY <3>1, <4>1
      <3>4. QED
        BY <3>2, <3>3 DEF LookedInv, KnowsStored, FindsLater
    <2>11. UncoveredIsReported'
      BY <2>1, <2>4 DEF SnapshotInv, UncoveredIsReported, Reported
    <2>12. QED
      BY <2>8, <2>9, <2>10, <2>11 DEF SnapshotInv
  <1>4. QED
    BY <1>2, <1>3

\* Every step keeps the invariant.
LEMMA SnapshotStep == SnapshotInv /\ [CovNext]_covVars => SnapshotInv'
  <1> SUFFICES ASSUME SnapshotInv, [CovNext]_covVars PROVE SnapshotInv'
    OBVIOUS
  <1>1. ASSUME NEW c \in CovCallers, CalculationFails(c) PROVE SnapshotInv'
    BY <1>1, CalculationEnds DEF CalculationFails
  <1>2. ASSUME NEW e \in Estates, EstateChanges(e) PROVE SnapshotInv'
    BY <1>2, SnapshotFrame DEF EstateChanges
  <1>3. ASSUME NEW s, NEW r, NEW decision, Decide(s, r, decision) PROVE SnapshotInv'
    BY <1>3, SnapshotFrame DEF Decide
  <1>4. ASSUME NEW k, NEW t, ReadCoveragePolicy(k) \/ WriteCoveragePolicy(k, t) PROVE SnapshotInv'
    BY <1>4, SnapshotFrame DEF ReadCoveragePolicy, WriteCoveragePolicy
  <1>5. CASE UNCHANGED covVars
    BY <1>5, SnapshotFrame DEF covVars
  <1>6. QED
    BY <1>1, <1>2, <1>3, <1>4, <1>5, CalculateStep, StampStep, PersistStep, CommitStep DEF CovNext

\* A surface without an active decoy scores below the minimum of 0.6 in every snapshot and has
\* its gap, for every estate: what else is on it is worth 0.549 at most, because the bonus for
\* diversity asks for placement.
THEOREM UncoveredIsNeverCovered == CovSpec => []UncoveredIsReported
  <1>1. SnapshotInv => UncoveredIsReported
    BY DEF SnapshotInv
  <1>2. QED
    BY <1>1, SnapshotInit, SnapshotStep, PTL DEF CovSpec

\* Two successive snapshots of one state are always the work of callers that overlapped, for any
\* number of callers and runs of the job: the second had not seen the first, or it had seen a
\* third with a later stamp.  Who sees a snapshot of its own state as the latest stores nothing.
THEOREM RepeatsOverlap == CovSpec => []RepeatsAreConcurrent
  <1>1. ASSUME SnapshotInv PROVE RepeatsAreConcurrent
    <2> SUFFICES ASSUME NEW s \in snapshots, NEW t \in snapshots, s.at < t.at, s.state = t.state,
                        ~(\E u \in snapshots : s.at < u.at /\ u.at < t.at), s.at \in t.known
                 PROVE  \E u \in snapshots : t.at < u.at /\ u.at \in t.known
      BY DEF RepeatsAreConcurrent
    <2>1. PICK u \in snapshots : s.at < u.at /\ u.at \in t.known
      BY <1>1 DEF SnapshotInv, LookedInv, FindsLater
    <2>2. u.at # t.at /\ ~(u.at < t.at) /\ u.at \in Int /\ t.at \in Int
      BY <1>1, <2>1 DEF SnapshotInv, LookedInv, SnapshotShape
    <2>3. t.at < u.at
      BY <2>2
    <2>4. QED
      BY <2>1, <2>3
  <1>2. QED
    BY <1>1, SnapshotInit, SnapshotStep, PTL DEF CovSpec

-----------------------------------------------------------------------------
(* From a scan to accepted decoys.  Only an example file with enough        *)
(* evidence reaches the confidence that the generation asks for, and the    *)
(* artifacts of a repository are those that its one profile determines.     *)

\* A place of which nothing but its own path gives evidence.
Unsupported(x) == x.evidence = 1 /\ x.type \in DOMAIN Signals

\* A file with examples of secrets, as discovery.py finds or invents it.
SecretPlace(p, c, x) ==
  \/ \E s \in p.secrets :
       x = Place(IF s.example THEN "example_environment_file" ELSE "environment_file", s.path, "secret",
                 {s.path} \cup c.conventions)
  \/ p.secrets = {} /\ x = Place("example_environment_file", ".env.example", "secret", c.conventions)

\* What discovery.py finds.
LEMMA Candidates ==
  ASSUME NEW p, NEW c, NEW x \in Discover(p, c)
  PROVE  SecretPlace(p, c, x) \/ Unsupported(x) \/ x.kind = "agent_asset"
  <1> DEFINE docType(d) == IF d.design THEN "architecture_document" ELSE "documentation_file"
             from(type, location, kind, e) == x = Place(type, location, kind, {e})
  <1>1. \/ SecretPlace(p, c, x)
        \/ \E d \in p.docs : from(docType(d), d.path, "document", d.path)
        \/ \E d \in p.docs : from("rag_document", d.path, "embedding", d.path)
        \/ \E d \in p.docs : from("internal_wiki_page", <<"wiki", d.path>>, "document", d.path)
        \/ x = Place("browser_ai_workflow", "browser-ai", "agent_asset", {"documentation", "ai"})
        \/ from("database_row", "synthetic-row", "database_record", "database")
        \/ \E f \in p.cicd : from("ci_cd_file", f, "secret", f)
        \/ \E f \in p.infrastructure : from("config_file", f, "secret", f)
        \/ \E f \in p.mcp : from("mcp_config", f, "mcp_config", f)
        \/ x = Place("agent_accessible_folder", "documentation", "agent_asset", {"mcp", "documentation"})
        \/ \E f \in p.folders : from("legacy_script", f, "secret", f)
        \/ \E f \in p.folders : from("spreadsheet_row", f, "spreadsheet_row", f)
        \/ \E f \in p.folders : from("exportable_report", f, "document", f)
    <2> DEFINE some(cond, S) == IF cond THEN S ELSE {}
               secretType(s) == IF s.example THEN "example_environment_file" ELSE "environment_file"
               secrets == {Place(secretType(s), s.path, "secret", {s.path} \cup c.conventions) : s \in p.secrets}
               invented == some(p.secrets = {} /\ c.conventions # {},
                                {Place("example_environment_file", ".env.example", "secret", c.conventions)})
               docs == {Place(docType(d), d.path, "document", {d.path}) : d \in p.docs}
               exposed == some(c.aiRisk >= 500,
                            {Place("rag_document", d.path, "embedding", {d.path}) : d \in p.docs} \cup
                            {Place("internal_wiki_page", <<"wiki", d.path>>, "document", {d.path}) : d \in p.docs})
               browser == some(p.docs # {} /\ c.aiRisk >= 700,
                            {Place("browser_ai_workflow", "browser-ai", "agent_asset", {"documentation", "ai"})})
               row == some(p.databases # {}, {Place("database_row", "synthetic-row", "database_record", {"database"})})
               cicd == {Place("ci_cd_file", f, "secret", {f}) : f \in p.cicd}
               infra == {Place("config_file", f, "secret", {f}) : f \in p.infrastructure}
               mcp == {Place("mcp_config", f, "mcp_config", {f}) : f \in p.mcp}
               folder == some(p.mcp # {} /\ p.docs # {},
                           {Place("agent_accessible_folder", "documentation", "agent_asset", {"mcp", "documentation"})})
               legacy == {Place("legacy_script", f, "secret", {f}) :
                            f \in p.folders \cap {"scripts", "legacy", "migrations"}}
               exports == UNION {{Place("spreadsheet_row", f, "spreadsheet_row", {f}),
                                  Place("exportable_report", f, "document", {f})} :
                                   f \in p.folders \cap {"data", "exports", "reports"}}
    <2>1. Discover(p, c) =
            UNION {secrets, invented, docs, exposed, browser, row, cicd, infra, mcp, folder, legacy, exports}
      BY DEF Discover
    <2>2. x \in secrets \/ x \in invented => SecretPlace(p, c, x)
      BY DEF SecretPlace
    <2>3. x \in docs => \E d \in p.docs : from(docType(d), d.path, "document", d.path)
      OBVIOUS
    <2>4. x \in exposed => \/ \E d \in p.docs : from("rag_document", d.path, "embedding", d.path)
                           \/ \E d \in p.docs : from("internal_wiki_page", <<"wiki", d.path>>, "document", d.path)
      OBVIOUS
    <2>5. /\ x \in browser => x = Place("browser_ai_workflow", "browser-ai", "agent_asset", {"documentation", "ai"})
          /\ x \in row => from("database_row", "synthetic-row", "database_record", "database")
          /\ x \in folder =>
               x = Place("agent_accessible_folder", "documentation", "agent_asset", {"mcp", "documentation"})
      OBVIOUS
    <2>6. /\ x \in cicd => \E f \in p.cicd : from("ci_cd_file", f, "secret", f)
          /\ x \in infra => \E f \in p.infrastructure : from("config_file", f, "secret", f)
          /\ x \in mcp => \E f \in p.mcp : from("mcp_config", f, "mcp_config", f)
          /\ x \in legacy => \E f \in p.folders : from("legacy_script", f, "secret", f)
      OBVIOUS
    <2>7. x \in exports => \/ \E f \in p.folders : from("spreadsheet_row", f, "spreadsheet_row", f)
                           \/ \E f \in p.folders : from("exportable_report", f, "document", f)
      OBVIOUS
    <2> HIDE DEF from, secrets, invented, docs, exposed, browser, row, cicd, infra, mcp, folder, legacy, exports
    <2>8. \/ x \in secrets \/ x \in invented \/ x \in docs \/ x \in exposed \/ x \in browser \/ x \in row
          \/ x \in cicd \/ x \in infra \/ x \in mcp \/ x \in folder \/ x \in legacy \/ x \in exports
      BY <2>1
    <2>9. QED
      BY <2>2, <2>3, <2>4, <2>5, <2>6, <2>7, <2>8
  <1>2. \A type, location, kind, e : from(type, location, kind, e) /\ type \in DOMAIN Signals => Unsupported(x)
    <2> SUFFICES ASSUME NEW type, NEW location, NEW kind, NEW e, x = Place(type, location, kind, {e}),
                        type \in DOMAIN Signals
                 PROVE  Unsupported(x)
      OBVIOUS
    <2>1. Place(type, location, kind, {e}).evidence = 1 /\ Place(type, location, kind, {e}).type = type
      BY FS_Singleton DEF Place
    <2>2. QED
      BY <2>1 DEF Unsupported
  <1>3. {"documentation_file", "architecture_document", "rag_document", "internal_wiki_page", "database_row",
         "ci_cd_file", "config_file", "mcp_config", "legacy_script", "spreadsheet_row", "exportable_report"}
          \subseteq DOMAIN Signals
    BY DEF Signals
  <1>4. \A type, location, S : x = Place(type, location, "agent_asset", S) => x.kind = "agent_asset"
    BY DEF Place
  <1> HIDE DEF from
  <1>5. QED
    BY <1>1, <1>2, <1>3, <1>4

\* The signals that the confidence is made of, at most: those of an example file.
LEMMA SignalBounds == \A type \in DOMAIN Signals : Signals[type][7] \in 0 .. 90 /\ Signals[type][8] \in 0 .. 95
                         /\ Signals[type][7] + Signals[type][8] <= 180
  BY DEF Signals

\* The confidence of the context.
LEMMA ContextBounds ==
  ASSUME NEW p \in Profiles PROVE ContextConfidence(p) \in 0 .. 1000
  <1> DEFINE n == p.findings * (IF p.truncated THEN 75 ELSE 100)
             S == {1000, n}
  <1>1. n \in Nat
    <2>1. CASE p.truncated
      BY <2>1, ProfileAssumption
    <2>2. CASE ~p.truncated
      BY <2>2, ProfileAssumption
    <2>3. QED
      BY <2>1, <2>2
  <1>2. ContextConfidence(p) = Min(S)
    BY DEF ContextConfidence
  <1> HIDE DEF n
  <1>3. \E x \in S : \A y \in S : x =< y
    <2>1. CASE n <= 1000
      BY <1>1, <2>1
    <2>2. CASE ~(n <= 1000)
      BY <1>1, <2>2
    <2>3. QED
      BY <2>1, <2>2
  <1>4. Min(S) \in S /\ Min(S) =< 1000
    BY <1>3 DEF Min
  <1> HIDE DEF S
  <1>5. Min(S) \in Nat
    BY <1>1, <1>4 DEF S
  <1>6. QED
    BY <1>2, <1>4, <1>5

\* One piece of evidence is not enough for the generation.
LEMMA UnsupportedIsWeak ==
  ASSUME NEW x, Unsupported(x), NEW c, c.confidence \in 0 .. 1000
  PROVE  ~(Confidence(x, c) >= 650)
  <1>1. PICK a \in 0 .. 90, b \in 0 .. 95 :
          a = Signals[x.type][7] /\ b = Signals[x.type][8] /\ a + b <= 180
    BY SignalBounds DEF Unsupported
  <1> DEFINE S == {6, 3 + x.evidence}
  <1>2. Min(S) = 4
    <2>1. S = {6, 4}
      BY DEF Unsupported
    <2> HIDE DEF S
    <2>2. \E m \in S : \A y \in S : m =< y
      BY <2>1
    <2>3. Min(S) \in S /\ \A y \in S : Min(S) =< y
      BY <2>2 DEF Min
    <2>4. QED
      BY <2>1, <2>3
  <1>3. Confidence(x, c) = ((10 * a + 10 * b + c.confidence) * Min(S) + 9) \div 18
    BY <1>1 DEF Confidence
  <1>4. PICK k \in 0 .. 1000 : k = c.confidence
    OBVIOUS
  <1>5. PICK n \in Nat : n = 10 * a + 10 * b + k /\ n <= 2800
    <2>1. 10 * a + 10 * b + k <= 2800
      <3>1. a \in Int /\ b \in Int /\ k \in Int /\ a + b <= 180 /\ k <= 1000
        BY <1>1
      <3>2. QED
        BY ONLY <3>1
    <2>2. 10 * a + 10 * b + k \in Nat
      OBVIOUS
    <2>3. QED
      BY <2>1, <2>2
  <1>6. Confidence(x, c) = (n * 4 + 9) \div 18
    BY <1>2, <1>3, <1>4, <1>5
  <1>7. (n * 4 + 9) \div 18 < 650
    BY <1>5
  <1>8. (n * 4 + 9) \div 18 \in Int
    OBVIOUS
  <1>9. QED
    BY <1>6, <1>7, <1>8

\* What plan makes of a profile.
PlanOf(p) == PlanRecommendations(p, BuildContext(p))

\* The recommendations that decoys are generated for.
Generated(p, r) ==
  /\ r \in PlanOf(p) /\ r.confidence >= 650 /\ HasTemplate(r.kind, r.type)

\* They come of files with examples of secrets.
LEMMA GeneratedIsExample ==
  ASSUME NEW p \in Profiles, NEW r, Generated(p, r)
  PROVE  \E x \in Discover(p, BuildContext(p)) :
           /\ SecretPlace(p, BuildContext(p), x) /\ x.type = "example_environment_file"
           /\ r = [type |-> x.type, location |-> x.location, kind |-> x.kind,
                   confidence |-> Confidence(x, BuildContext(p))]
  <1> DEFINE c == BuildContext(p)
  <1>1. c.confidence = ContextConfidence(p)
    BY DEF BuildContext
  <1> HIDE DEF c
  <1>2. PICK x \in Discover(p, c) : PlacementAllowed(x)
          /\ r = [type |-> x.type, location |-> x.location, kind |-> x.kind, confidence |-> Confidence(x, c)]
    BY DEF Generated, PlanOf, PlanRecommendations, c
  <1>3. r.confidence = Confidence(x, c) /\ r.kind = x.kind /\ r.type = x.type
    BY <1>2
  <1>4. ~Unsupported(x)
    BY <1>1, <1>3, ContextBounds, UnsupportedIsWeak DEF Generated
  <1>5. x.kind # "agent_asset"
    BY <1>3 DEF Generated, HasTemplate, Templates
  <1>6. SecretPlace(p, c, x)
    BY <1>4, <1>5, Candidates
  <1>7. x.type \in {"example_environment_file", "environment_file"}
    <2>1. \A type, location, kind, e : Place(type, location, kind, e).type = type
      BY DEF Place
    <2>2. CASE \E s \in p.secrets :
                 x = Place(IF s.example THEN "example_environment_file" ELSE "environment_file", s.path, "secret",
                           {s.path} \cup c.conventions)
      <3>1. PICK s \in p.secrets :
              x = Place(IF s.example THEN "example_environment_file" ELSE "environment_file", s.path, "secret",
                        {s.path} \cup c.conventions)
        BY <2>2
      <3>2. x.type = IF s.example THEN "example_environment_file" ELSE "environment_file"
        BY <2>1, <3>1
      <3>3. QED
        BY <3>2
    <2>3. CASE x = Place("example_environment_file", ".env.example", "secret", c.conventions)
      BY <2>1, <2>3
    <2>4. QED
      BY <1>6, <2>2, <2>3 DEF SecretPlace
  <1>8. x.type = "example_environment_file"
    BY <1>2, <1>7 DEF PlacementAllowed
  <1>9. QED
    BY <1>2, <1>6, <1>8 DEF c

\* At one path there is one, and it is no file that a program reads.
LEMMA GeneratedIsUnique ==
  ASSUME NEW p \in Profiles, NEW r, NEW q, Generated(p, r), Generated(p, q), r.location = q.location
  PROVE  r = q
  <1> DEFINE c == BuildContext(p)
  <1>1. PICK x \in Discover(p, c) : /\ SecretPlace(p, c, x) /\ x.type = "example_environment_file"
          /\ r = [type |-> x.type, location |-> x.location, kind |-> x.kind, confidence |-> Confidence(x, c)]
    BY GeneratedIsExample
  <1>2. PICK y \in Discover(p, c) : /\ SecretPlace(p, c, y) /\ y.type = "example_environment_file"
          /\ q = [type |-> y.type, location |-> y.location, kind |-> y.kind, confidence |-> Confidence(y, c)]
    BY GeneratedIsExample
  <1> HIDE DEF c
  <1>3. x.location = y.location
    BY <1>1, <1>2
  <1>4. x = y
    <2>1. CASE p.secrets = {}
      BY <1>1, <1>2, <2>1 DEF SecretPlace
    <2>2. CASE p.secrets # {}
      <3>1. PICK s \in p.secrets : x = Place(IF s.example THEN "example_environment_file" ELSE "environment_file",
                                             s.path, "secret", {s.path} \cup c.conventions)
        BY <1>1, <2>2 DEF SecretPlace
      <3>2. PICK t \in p.secrets : y = Place(IF t.example THEN "example_environment_file" ELSE "environment_file",
                                             t.path, "secret", {t.path} \cup c.conventions)
        BY <1>2, <2>2 DEF SecretPlace
      <3>3. x.location = s.path /\ y.location = t.path
        BY <3>1, <3>2 DEF Place
      <3>4. s.example = t.example /\ s.path = t.path
        BY <1>3, <3>3, ProfileAssumption
      <3>5. QED
        BY <3>1, <3>2, <3>4
    <2>3. QED
      BY <2>1, <2>2
  <1>5. QED
    BY <1>1, <1>2, <1>4

\* A generated decoy is in an example file.
LEMMA GeneratedIsNotLive ==
  ASSUME NEW p \in Profiles, NEW r, Generated(p, r), NEW s \in p.secrets, s.path = r.location
  PROVE  s.example
  <1> DEFINE c == BuildContext(p)
  <1>1. PICK x \in Discover(p, c) : /\ SecretPlace(p, c, x) /\ x.type = "example_environment_file"
          /\ r = [type |-> x.type, location |-> x.location, kind |-> x.kind, confidence |-> Confidence(x, c)]
    BY GeneratedIsExample
  <1> HIDE DEF c
  <1>2. PICK t \in p.secrets : x = Place(IF t.example THEN "example_environment_file" ELSE "environment_file",
                                         t.path, "secret", {t.path} \cup c.conventions)
    BY <1>1 DEF SecretPlace
  <1>3. x.location = t.path /\ x.type = IF t.example THEN "example_environment_file" ELSE "environment_file"
    BY <1>2 DEF Place
  <1>4. t.example
    BY <1>1, <1>3
  <1>5. t.path = s.path
    BY <1>1, <1>3
  <1>6. QED
    BY <1>4, <1>5, ProfileAssumption

\* The decision on an asset, from the newest artifacts: those that its profile determines.
Verdict(a, p) ==
  Decision(a, BuildContext(p), p, CHOOSE x \in RecommendationAt(PlanOf(p), a.location) : TRUE)

AssetsOf(p) == GenerateAssets(PlanOf(p), BuildContext(p))

ContextRows == [repository : Repositories, data : {BuildContext(p) : p \in Profiles}]
PlacementRows == [repository : Repositories, data : {PlanOf(p) : p \in Profiles}]

\* A profile is written once, so every artifact of a repository is the one that its profile
\* determines, and so is every decision.
PipelineInv ==
  /\ profiles = [r \in Repositories |-> profiles[r]]
  /\ \A r \in Repositories : profiles[r] # DecoyNone => profiles[r] \in Profiles
  /\ contexts \in Seq(ContextRows) /\ placements \in Seq(PlacementRows)
  /\ \A i \in 1 .. Len(contexts) :
       LET p == profiles[contexts[i].repository] IN p # DecoyNone /\ contexts[i].data = BuildContext(p)
  /\ \A i \in 1 .. Len(placements) :
       LET p == profiles[placements[i].repository] IN p # DecoyNone /\ placements[i].data = PlanOf(p)
  /\ decoyPlans = [d \in DecoyPlans |-> decoyPlans[d]]
  /\ \A d \in DecoyPlans : decoyPlans[d] # DecoyNone =>
       /\ decoyPlans[d].repository \in Repositories /\ profiles[decoyPlans[d].repository] # DecoyNone
       /\ decoyPlans[d].assets = AssetsOf(profiles[decoyPlans[d].repository])
  /\ \A x \in reports :
       /\ x.plan \in DecoyPlans /\ decoyPlans[x.plan] # DecoyNone
       /\ \E a \in decoyPlans[x.plan].assets :
            x.decoy = a.id /\ x.decision = Verdict(a, profiles[decoyPlans[x.plan].repository])

\* The newest context of a repository is that of its profile.
LEMMA LatestContext ==
  ASSUME PipelineInv, NEW r \in Repositories, Latest(contexts, r) # DecoyNone
  PROVE  profiles[r] # DecoyNone /\ Latest(contexts, r) = BuildContext(profiles[r])
  <1> DEFINE mine == {i \in DOMAIN contexts : contexts[i].repository = r}
  <1>1. mine \in SUBSET Nat /\ \A i \in mine : i <= Len(contexts)
    BY DEF PipelineInv
  <1>2. mine # {} /\ Latest(contexts, r) = contexts[Max(mine)].data
    BY DEF Latest
  <1>3. Len(contexts) \in Nat
    BY DEF PipelineInv
  <1>4. \A i \in mine : contexts[i].repository = r /\ i \in 1 .. Len(contexts)
    BY DEF PipelineInv
  <1> HIDE DEF mine
  <1>5. Max(mine) \in mine
    BY <1>1, <1>2, <1>3, BoundedHasMax
  <1>6. QED
    BY <1>2, <1>4, <1>5 DEF PipelineInv

\* So is the newest plan.
LEMMA LatestPlacement ==
  ASSUME PipelineInv, NEW r \in Repositories, Latest(placements, r) # DecoyNone
  PROVE  profiles[r] # DecoyNone /\ Latest(placements, r) = PlanOf(profiles[r])
  <1> DEFINE mine == {i \in DOMAIN placements : placements[i].repository = r}
  <1>1. mine \in SUBSET Nat /\ \A i \in mine : i <= Len(placements)
    BY DEF PipelineInv
  <1>2. mine # {} /\ Latest(placements, r) = placements[Max(mine)].data
    BY DEF Latest
  <1>3. Len(placements) \in Nat
    BY DEF PipelineInv
  <1>4. \A i \in mine : placements[i].repository = r /\ i \in 1 .. Len(placements)
    BY DEF PipelineInv
  <1> HIDE DEF mine
  <1>5. Max(mine) \in mine
    BY <1>1, <1>2, <1>3, BoundedHasMax
  <1>6. QED
    BY <1>2, <1>4, <1>5 DEF PipelineInv

\* There are no artifacts at the start.
LEMMA PipelineInit == DecoyInit => PipelineInv
  BY DEF DecoyInit, PipelineInv

\* A scan writes the profile of a repository without artifacts.
LEMMA ScanStep ==
  ASSUME PipelineInv, NEW r \in Repositories, NEW p \in Profiles, ScanRepository(r, p) PROVE PipelineInv'
  <1>1. /\ profiles[r] = DecoyNone /\ profiles' = [profiles EXCEPT ![r] = p]
        /\ UNCHANGED <<contexts, placements, decoyPlans, reports>>
    BY DEF ScanRepository
  <1>2. /\ profiles' = [q \in Repositories |-> profiles'[q]]
        /\ \A q \in Repositories : profiles'[q] = IF q = r THEN p ELSE profiles[q]
    BY <1>1 DEF PipelineInv
  <1>3. \A q \in Repositories : profiles[q] # DecoyNone => profiles'[q] = profiles[q]
    BY <1>1, <1>2
  <1>4. \A q \in Repositories : profiles'[q] # DecoyNone => profiles'[q] \in Profiles
    BY <1>2 DEF PipelineInv
  <1>5. \A i \in 1 .. Len(contexts) : contexts[i].repository \in Repositories
    <2>1. \A i \in 1 .. Len(contexts) : contexts[i] \in ContextRows
      BY DEF PipelineInv
    <2>2. QED
      BY <2>1 DEF ContextRows
  <1>6. \A i \in 1 .. Len(placements) : placements[i].repository \in Repositories
    <2>1. \A i \in 1 .. Len(placements) : placements[i] \in PlacementRows
      BY DEF PipelineInv
    <2>2. QED
      BY <2>1 DEF PlacementRows
  <1>7. \A i \in 1 .. Len(contexts) :
          profiles'[contexts[i].repository] # DecoyNone /\ contexts[i].data = BuildContext(profiles'[contexts[i].repository])
    BY <1>3, <1>5 DEF PipelineInv
  <1>8. \A i \in 1 .. Len(placements) :
          profiles'[placements[i].repository] # DecoyNone /\ placements[i].data = PlanOf(profiles'[placements[i].repository])
    BY <1>3, <1>6 DEF PipelineInv
  <1>9. \A d \in DecoyPlans : decoyPlans[d] # DecoyNone =>
          /\ decoyPlans[d].repository \in Repositories
          /\ profiles'[decoyPlans[d].repository] = profiles[decoyPlans[d].repository]
    BY <1>3 DEF PipelineInv
  <1>10. \A d \in DecoyPlans : decoyPlans[d] # DecoyNone =>
           /\ decoyPlans[d].repository \in Repositories /\ profiles'[decoyPlans[d].repository] # DecoyNone
           /\ decoyPlans[d].assets = AssetsOf(profiles'[decoyPlans[d].repository])
    BY <1>9 DEF PipelineInv
  <1>11. \A x \in reports :
           /\ x.plan \in DecoyPlans /\ decoyPlans[x.plan] # DecoyNone
           /\ \E a \in decoyPlans[x.plan].assets :
                x.decoy = a.id /\ x.decision = Verdict(a, profiles'[decoyPlans[x.plan].repository])
    BY <1>9 DEF PipelineInv
  <1>12. contexts \in Seq(ContextRows) /\ placements \in Seq(PlacementRows)
         /\ decoyPlans = [d \in DecoyPlans |-> decoyPlans[d]]
    BY DEF PipelineInv
  <1>13. QED
    <2>1. contexts' = contexts /\ placements' = placements /\ decoyPlans' = decoyPlans /\ reports' = reports
      BY <1>1
    <2>2. \A i \in 1 .. Len(contexts') :
            LET q == profiles'[contexts'[i].repository] IN q # DecoyNone /\ contexts'[i].data = BuildContext(q)
      BY <1>7, <2>1, Zenon
    <2>3. \A i \in 1 .. Len(placements') :
            LET q == profiles'[placements'[i].repository] IN q # DecoyNone /\ placements'[i].data = PlanOf(q)
      BY <1>8, <2>1, Zenon
    <2>4. \A d \in DecoyPlans : decoyPlans'[d] # DecoyNone =>
            /\ decoyPlans'[d].repository \in Repositories /\ profiles'[decoyPlans'[d].repository] # DecoyNone
            /\ decoyPlans'[d].assets = AssetsOf(profiles'[decoyPlans'[d].repository])
      BY <1>10, <2>1, Zenon
    <2>5. \A x \in reports' :
            /\ x.plan \in DecoyPlans /\ decoyPlans'[x.plan] # DecoyNone
            /\ \E a \in decoyPlans'[x.plan].assets :
                 x.decoy = a.id /\ x.decision = Verdict(a, profiles'[decoyPlans'[x.plan].repository])
      BY <1>11, <2>1, Zenon
    <2>6. contexts' \in Seq(ContextRows) /\ placements' \in Seq(PlacementRows)
          /\ decoyPlans' = [d \in DecoyPlans |-> decoyPlans'[d]]
      BY <1>12, <2>1
    <2>7. QED
      BY <1>2, <1>4, <2>2, <2>3, <2>4, <2>5, <2>6, Zenon DEF PipelineInv

\* plan appends what the profile determines.
LEMMA PlanStep ==
  ASSUME PipelineInv, NEW r \in Repositories, PlanPlacements(r) PROVE PipelineInv'
  <1> DEFINE p == profiles[r]
             crow == [repository |-> r, data |-> BuildContext(p)]
             prow == [repository |-> r, data |-> PlanOf(p)]
  <1>1. /\ p # DecoyNone /\ contexts' = Append(contexts, crow) /\ placements' = Append(placements, prow)
        /\ UNCHANGED <<profiles, decoyPlans, reports>>
    BY DEF PlanPlacements, PlanOf
  <1>2. p \in Profiles
    BY <1>1 DEF PipelineInv
  <1>3. crow \in ContextRows /\ crow.repository = r /\ crow.data = BuildContext(p)
    BY <1>2 DEF ContextRows
  <1>4. prow \in PlacementRows /\ prow.repository = r /\ prow.data = PlanOf(p)
    BY <1>2 DEF PlacementRows
  <1> HIDE DEF crow, prow
  <1>5. /\ contexts' \in Seq(ContextRows) /\ Len(contexts') = Len(contexts) + 1 /\ Len(contexts) \in Nat
        /\ \A i \in 1 .. Len(contexts) : contexts'[i] = contexts[i]
        /\ contexts'[Len(contexts) + 1] = crow
    BY <1>1, <1>3 DEF PipelineInv
  <1>6. /\ placements' \in Seq(PlacementRows) /\ Len(placements') = Len(placements) + 1 /\ Len(placements) \in Nat
        /\ \A i \in 1 .. Len(placements) : placements'[i] = placements[i]
        /\ placements'[Len(placements) + 1] = prow
    BY <1>1, <1>4 DEF PipelineInv
  <1>7. \A i \in 1 .. Len(contexts') :
          profiles[contexts'[i].repository] # DecoyNone
          /\ contexts'[i].data = BuildContext(profiles[contexts'[i].repository])
    <2> TAKE i \in 1 .. Len(contexts')
    <2>1. CASE i \in 1 .. Len(contexts)
      BY <1>5, <2>1 DEF PipelineInv
    <2>2. CASE i = Len(contexts) + 1
      BY <1>1, <1>3, <1>5, <2>2
    <2>3. QED
      BY <1>5, <2>1, <2>2
  <1>8. \A i \in 1 .. Len(placements') :
          profiles[placements'[i].repository] # DecoyNone
          /\ placements'[i].data = PlanOf(profiles[placements'[i].repository])
    <2> TAKE i \in 1 .. Len(placements')
    <2>1. CASE i \in 1 .. Len(placements)
      BY <1>6, <2>1 DEF PipelineInv
    <2>2. CASE i = Len(placements) + 1
      BY <1>1, <1>4, <1>6, <2>2
    <2>3. QED
      BY <1>6, <2>1, <2>2
  <1>9. QED
    BY <1>1, <1>5, <1>6, <1>7, <1>8 DEF PipelineInv

\* generate writes a plan that has no report yet.
LEMMA GenerateStep ==
  ASSUME PipelineInv, NEW r \in Repositories, NEW d \in DecoyPlans, GenerateDecoys(r, d) PROVE PipelineInv'
  <1> DEFINE row == [repository |-> r, assets |-> GenerateAssets(Latest(placements, r), Latest(contexts, r))]
  <1>1. /\ decoyPlans[d] = DecoyNone /\ decoyPlans' = [decoyPlans EXCEPT ![d] = row]
        /\ Latest(contexts, r) # DecoyNone /\ Latest(placements, r) # DecoyNone
        /\ UNCHANGED <<profiles, contexts, placements, reports>>
    BY DEF GenerateDecoys
  <1>2. profiles[r] # DecoyNone /\ row.repository = r /\ row.assets = AssetsOf(profiles[r])
    BY <1>1, LatestContext, LatestPlacement DEF AssetsOf
  <1> HIDE DEF row
  <1>3. /\ decoyPlans' = [e \in DecoyPlans |-> decoyPlans'[e]] /\ decoyPlans'[d] = row
        /\ \A e \in DecoyPlans : e # d => decoyPlans'[e] = decoyPlans[e]
    BY <1>1 DEF PipelineInv
  <1>4. \A x \in reports : x.plan \in DecoyPlans /\ x.plan # d
    BY <1>1 DEF PipelineInv
  <1>5. \A e \in DecoyPlans : decoyPlans'[e] # DecoyNone =>
          /\ decoyPlans'[e].repository \in Repositories /\ profiles[decoyPlans'[e].repository] # DecoyNone
          /\ decoyPlans'[e].assets = AssetsOf(profiles[decoyPlans'[e].repository])
    <2> TAKE e \in DecoyPlans
    <2>1. CASE e = d
      BY <1>2, <1>3, <2>1
    <2>2. CASE e # d
      BY <1>3, <2>2 DEF PipelineInv
    <2>3. QED
      BY <2>1, <2>2
  <1>6. \A x \in reports :
          /\ x.plan \in DecoyPlans /\ decoyPlans'[x.plan] # DecoyNone
          /\ \E a \in decoyPlans'[x.plan].assets :
               x.decoy = a.id /\ x.decision = Verdict(a, profiles[decoyPlans'[x.plan].repository])
    BY <1>3, <1>4 DEF PipelineInv
  <1>7. QED
    BY <1>1, <1>3, <1>5, <1>6 DEF PipelineInv

\* evaluate decides as the profile determines.
LEMMA EvaluateStep ==
  ASSUME PipelineInv, NEW d \in DecoyPlans, EvaluateDecoys(d) PROVE PipelineInv'
  <1> DEFINE r == decoyPlans[d].repository
             c == Latest(contexts, r)
             plan == Latest(placements, r)
             row(a) == [plan |-> d, decoy |-> a.id,
                        decision |-> Decision(a, c, profiles[r], CHOOSE x \in RecommendationAt(plan, a.location) : TRUE)]
  <1>1. /\ decoyPlans[d] # DecoyNone /\ c # DecoyNone /\ plan # DecoyNone
        /\ reports' = reports \cup {row(a) : a \in {b \in decoyPlans[d].assets : RecommendationAt(plan, b.location) # {}}}
        /\ UNCHANGED <<profiles, contexts, placements, decoyPlans>>
    BY DEF EvaluateDecoys
  <1>2. r \in Repositories
    BY <1>1 DEF PipelineInv
  <1>3. c = BuildContext(profiles[r]) /\ plan = PlanOf(profiles[r])
    BY <1>1, <1>2, LatestContext, LatestPlacement
  <1>4. \A a : row(a).plan = d /\ row(a).decoy = a.id /\ row(a).decision = Verdict(a, profiles[r])
    BY <1>3 DEF Verdict
  <1> HIDE DEF row
  <1>5. \A x \in reports' :
          \/ x \in reports
          \/ \E a \in decoyPlans[d].assets : x.plan = d /\ x.decoy = a.id /\ x.decision = Verdict(a, profiles[r])
    BY <1>1, <1>4
  <1>6. \A x \in reports' :
          /\ x.plan \in DecoyPlans /\ decoyPlans[x.plan] # DecoyNone
          /\ \E a \in decoyPlans[x.plan].assets :
               x.decoy = a.id /\ x.decision = Verdict(a, profiles[decoyPlans[x.plan].repository])
    <2> TAKE x \in reports'
    <2>1. CASE x \in reports
      BY <2>1 DEF PipelineInv
    <2>2. CASE x \notin reports
      <3>1. PICK a \in decoyPlans[d].assets :
              x.plan = d /\ x.decoy = a.id /\ x.decision = Verdict(a, profiles[r])
        BY <1>5, <2>2
      <3>2. QED
        BY <1>1, <3>1
    <2>3. QED
      BY <2>1, <2>2
  <1>7. QED
    BY <1>1, <1>6 DEF PipelineInv

\* Every request keeps the invariant.
LEMMA PipelineStep == PipelineInv /\ [DecoyNext]_decoyVars => PipelineInv'
  <1> SUFFICES ASSUME PipelineInv, [DecoyNext]_decoyVars PROVE PipelineInv'
    OBVIOUS
  <1>1. CASE UNCHANGED decoyVars
    BY <1>1 DEF decoyVars, PipelineInv
  <1>2. QED
    BY <1>1, ScanStep, PlanStep, GenerateStep, EvaluateStep DEF DecoyNext

\* An accepted asset collides with no name of its repository.
LEMMA AcceptedNames ==
  ASSUME NEW a, NEW p, Verdict(a, p) = "accept" PROVE a.name \notin p.samples \cup p.names
  <1> DEFINE c == BuildContext(p)
             place == CHOOSE x \in RecommendationAt(PlanOf(p), a.location) : TRUE
  <1>1. c.samples = p.samples
    BY DEF BuildContext
  <1> HIDE DEF c, place
  <1>2. ~(CollisionRisk(a, c, p) >= 800)
    BY Zenon DEF Verdict, Decision, c, place
  <1>3. QED
    BY <1>1, <1>2 DEF CollisionRisk

\* An asset is made of a recommendation that is generated for.
LEMMA AssetIsGenerated ==
  ASSUME NEW p, NEW a \in AssetsOf(p)
  PROVE  \E r : /\ Generated(p, r) /\ a.location = r.location /\ a.id = <<r.location, r.kind>>
                /\ a = [id |-> <<r.location, r.kind>>, kind |-> r.kind, location |-> r.location,
                        name |-> NameOf(r.kind, BuildContext(p)), match |-> r.confidence]
  <1>1. PICK r \in PlanOf(p) :
          /\ r.confidence >= 650 /\ HasTemplate(r.kind, r.type)
          /\ a = [id |-> <<r.location, r.kind>>, kind |-> r.kind, location |-> r.location,
                  name |-> NameOf(r.kind, BuildContext(p)), match |-> r.confidence]
    BY DEF AssetsOf, GenerateAssets
  <1>2. a.location = r.location /\ a.id = <<r.location, r.kind>>
    BY <1>1
  <1>3. QED
    BY <1>1, <1>2 DEF Generated

\* What the monitors register is safe, for every profile and however often the repository is
\* planned and evaluated again: a profile is written once, so all decisions on a decoy agree,
\* and only an example file is certain enough, one decoy for its path.
THEOREM RegisteredIsSafe == DecoySpec => []AcceptedIsSafe
  <1>1. PipelineInv => AcceptedIsSafe
    <2> SUFFICES ASSUME PipelineInv, NEW x \in reports, x.decision = "accept"
                 PROVE  /\ \A y \in reports : y.plan = x.plan /\ y.decoy = x.decoy => y.decision = "accept"
                        /\ \A a \in Evaluated(x.plan) : a.id = x.decoy =>
                             LET p == profiles[decoyPlans[x.plan].repository]
                             IN /\ a.name \notin p.samples \cup p.names
                                /\ \A s \in p.secrets : s.path = a.location => s.example
      BY DEF AcceptedIsSafe
    <2> DEFINE p == profiles[decoyPlans[x.plan].repository]
    <2>1. p \in Profiles /\ decoyPlans[x.plan].assets = AssetsOf(p)
      BY DEF PipelineInv
    <2>2. PICK a \in AssetsOf(p) : x.decoy = a.id /\ x.decision = Verdict(a, p)
      BY <2>1 DEF PipelineInv
    <2> HIDE DEF p
    <2>3. \A b \in AssetsOf(p) : b.id = a.id => b = a
      <3> SUFFICES ASSUME NEW b \in AssetsOf(p), b.id = a.id PROVE b = a
        OBVIOUS
      <3>1. PICK r : /\ Generated(p, r) /\ a.id = <<r.location, r.kind>>
                     /\ a = [id |-> <<r.location, r.kind>>, kind |-> r.kind, location |-> r.location,
                             name |-> NameOf(r.kind, BuildContext(p)), match |-> r.confidence]
        BY AssetIsGenerated
      <3>2. PICK q : /\ Generated(p, q) /\ b.id = <<q.location, q.kind>>
                     /\ b = [id |-> <<q.location, q.kind>>, kind |-> q.kind, location |-> q.location,
                             name |-> NameOf(q.kind, BuildContext(p)), match |-> q.confidence]
        BY AssetIsGenerated
      <3>3. r.location = q.location
        BY <3>1, <3>2
      <3>4. r = q
        BY <2>1, <3>1, <3>2, <3>3, GeneratedIsUnique
      <3>5. QED
        BY <3>1, <3>2, <3>4
    <2>4. \A y \in reports : y.plan = x.plan /\ y.decoy = x.decoy => y.decision = "accept"
      <3> SUFFICES ASSUME NEW y \in reports, y.plan = x.plan, y.decoy = x.decoy PROVE y.decision = "accept"
        OBVIOUS
      <3>0. PICK b \in decoyPlans[y.plan].assets :
              y.decoy = b.id /\ y.decision = Verdict(b, profiles[decoyPlans[y.plan].repository])
        BY DEF PipelineInv
      <3>1. b \in AssetsOf(p) /\ y.decoy = b.id /\ y.decision = Verdict(b, p)
        BY <2>1, <3>0 DEF p
      <3>2. QED
        BY <2>2, <2>3, <3>1
    <2>5. \A b \in Evaluated(x.plan) : b.id = x.decoy => b = a
      BY <2>1, <2>2, <2>3 DEF Evaluated
    <2>6. a.name \notin p.samples \cup p.names
      BY <2>2, AcceptedNames
    <2>7. \A s \in p.secrets : s.path = a.location => s.example
      <3>1. PICK r : Generated(p, r) /\ a.location = r.location
        BY AssetIsGenerated
      <3>2. QED
        BY <2>1, <3>1, GeneratedIsNotLive
    <2>8. QED
      BY <2>4, <2>5, <2>6, <2>7 DEF p
  <1>2. QED
    BY <1>1, PipelineInit, PipelineStep, PTL DEF DecoySpec

=============================================================================
