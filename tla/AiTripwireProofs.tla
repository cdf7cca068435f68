-------------------------- MODULE AiTripwireProofs --------------------------
(***************************************************************************)
(* What an AI tripwire guarantees for any number of handlers, workers,     *)
(* keys and event requests: nothing is published without an approval, what *)
(* is published can be retired unless its transaction was lost, and the    *)
(* answers to one key or one monitor never take back what they reported.   *)
(***************************************************************************)
EXTENDS AiTripwire, FiniteSetTheorems, TLAPS

-----------------------------------------------------------------------------
(* The severity of an answer. *)

\* The types that name an exposure of their own.
Telling == {"trace_in_answer", "config_loaded", "agent_touched"}

Surfaces(types) == {EventSurface(t) : t \in types}

\* The event types come from two surfaces.
LEMMA TwoSurfaces ==
  ASSUME NEW types
  PROVE  /\ Surfaces(types) \subseteq {"rag_document", "mcp_resource"}
         /\ IsFiniteSet(Surfaces(types)) /\ Cardinality(Surfaces(types)) \in Nat
  <1>1. Surfaces(types) \subseteq {"rag_document", "mcp_resource"}
    BY DEF Surfaces, EventSurface
  <1>2. IsFiniteSet({"rag_document", "mcp_resource"})
    <2>1. IsFiniteSet({"rag_document"})
      BY FS_Singleton
    <2>2. IsFiniteSet({"rag_document"} \cup {"mcp_resource"})
      BY <2>1, FS_AddElement
    <2>3. {"rag_document", "mcp_resource"} = {"rag_document"} \cup {"mcp_resource"}
      OBVIOUS
    <2>4. QED
      BY <2>2, <2>3
  <1>3. IsFiniteSet(Surfaces(types))
    BY <1>1, <1>2, FS_Subset
  <1>4. QED
    BY <1>1, <1>3, FS_CardinalityType

\* The severity that a set of types starts from: 4 on two surfaces, 3 with a type that tells
\* what happened, 2 otherwise, whichever type classify happens to take first.
LEMMA BaseOf ==
  ASSUME NEW types, types # {}
  PROVE  BaseSeverity(Classify(types)) =
           IF Cardinality(Surfaces(types)) > 1 THEN 4
           ELSE IF types \cap Telling # {} THEN 3 ELSE 2
  <1>1. CASE Cardinality(Surfaces(types)) > 1
    <2>1. Classify(types) = "multi_surface_ai_exposure"
      BY <1>1 DEF Classify, Surfaces
    <2>2. BaseSeverity("multi_surface_ai_exposure") = 4
      BY DEF BaseSeverity
    <2>3. QED
      BY <1>1, <2>1, <2>2
  <1>2. CASE ~(Cardinality(Surfaces(types)) > 1) /\ types \cap Telling # {}
    <2>1. Classify(types) \in {"rag_answer_leak", "mcp_config_exposure", "ai_agent_decoy_touch"}
      BY <1>2 DEF Classify, Surfaces, Telling
    <2>2. /\ BaseSeverity("rag_answer_leak") = 3 /\ BaseSeverity("mcp_config_exposure") = 3
          /\ BaseSeverity("ai_agent_decoy_touch") = 3
      BY DEF BaseSeverity
    <2>3. QED
      BY <1>2, <2>1, <2>2
  <1>3. CASE ~(Cardinality(Surfaces(types)) > 1) /\ types \cap Telling = {}
    <2>1. PICK t \in types : Classify(types) = Single(t)
      <3>1. (CHOOSE t \in types : TRUE) \in types
        OBVIOUS
      <3>2. Classify(types) = Single(CHOOSE t \in types : TRUE)
        BY <1>3 DEF Classify, Surfaces, Telling
      <3>3. QED
        BY <3>1, <3>2
    <2>2. t \notin Telling
      BY <1>3
    <2>3. Single(t) \in {"rag_retrieval_exposure", "mcp_resource_access"}
      BY <2>2 DEF Single, Telling
    <2>4. BaseSeverity("rag_retrieval_exposure") = 2 /\ BaseSeverity("mcp_resource_access") = 2
      BY DEF BaseSeverity
    <2>5. QED
      BY <1>3, <2>1, <2>3, <2>4
  <1>4. QED
    BY <1>1, <1>2, <1>3

\* More events never lower the severity.
LEMMA SeverityGrows ==
  ASSUME NEW a, NEW b, a \subseteq b, a # {}, IsFiniteSet(b)
  PROVE  Severity(a) <= Severity(b)
  <1> DEFINE types(s) == {r.type : r \in s}
             sources(s) == {r.source : r \in s}
             base(s) == BaseSeverity(Classify(types(s)))
  <1>1. IsFiniteSet(a) /\ Cardinality(a) <= Cardinality(b) /\ Cardinality(a) \in Nat /\ Cardinality(b) \in Nat
    BY FS_Subset, FS_CardinalityType
  <1>2. types(a) \subseteq types(b) /\ types(a) # {} /\ types(b) # {} /\ sources(a) \subseteq sources(b)
    OBVIOUS
  <1>3. Cardinality(sources(a)) <= Cardinality(sources(b)) /\ Cardinality(sources(a)) \in Nat
        /\ Cardinality(sources(b)) \in Nat
    <2>1. IsFiniteSet(sources(b))
      <3> DEFINE src == [r \in b |-> r.source]
      <3>1. src \in Surjection(b, sources(b))
        BY DEF Surjection
      <3>2. QED
        BY <3>1, FS_Surjection
    <2>2. QED
      BY <1>2, <2>1, FS_Subset, FS_CardinalityType
  <1>4. /\ Cardinality(Surfaces(types(a))) <= Cardinality(Surfaces(types(b)))
        /\ Cardinality(Surfaces(types(a))) \in Nat /\ Cardinality(Surfaces(types(b))) \in Nat
    <2>1. Surfaces(types(a)) \subseteq Surfaces(types(b))
      BY <1>2 DEF Surfaces
    <2>2. IsFiniteSet(Surfaces(types(b)))
      BY TwoSurfaces
    <2>3. QED
      BY <2>1, <2>2, TwoSurfaces, FS_Subset
  <1>5. base(a) \in {2, 3, 4} /\ base(b) \in {2, 3, 4} /\ base(a) <= base(b)
    <2>1. types(a) \cap Telling # {} => types(b) \cap Telling # {}
      BY <1>2
    <2> HIDE DEF types
    <2>2. QED
      BY <1>2, <1>4, <2>1, BaseOf
  <1>6. /\ Severity(a) = Min2(4, base(a) + AtLeast(Cardinality(a), 3) + AtLeast(Cardinality(sources(a)), 2)
                                 + AtLeast(Cardinality(Surfaces(types(a))), 2))
        /\ Severity(b) = Min2(4, base(b) + AtLeast(Cardinality(b), 3) + AtLeast(Cardinality(sources(b)), 2)
                                 + AtLeast(Cardinality(Surfaces(types(b))), 2))
    BY DEF Severity, Surfaces
  <1> HIDE DEF types, sources, base
  <1>7. QED
    BY <1>1, <1>3, <1>4, <1>5, <1>6 DEF Min2, AtLeast

-----------------------------------------------------------------------------
(* The answers. *)

\* What an answer was made from: the committed events and its own, all committed once it is.
AnswerInv ==
  /\ DOMAIN ingest = Requests /\ DOMAIN answer = Requests /\ IsFiniteSet(events)
  /\ \A r \in Requests : ingest[r] \in {"idle", "stored", "done"}
  /\ \A r \in Requests : ingest[r] # "idle" => r \in answer[r] /\ IsFiniteSet(answer[r])
  /\ \A r \in Requests : ingest[r] = "stored" => answer[r] \subseteq events \cup {r}
  /\ \A r \in Requests : ingest[r] = "done" => answer[r] \subseteq events
  /\ \A r, s \in Requests : Together(r, s) /\ ingest[r] # "idle" /\ ingest[s] # "idle" =>
       answer[r] \subseteq answer[s] \/ answer[s] \subseteq answer[r]

\* Only the two steps of an event's request touch the answers.
LEMMA OthersLeaveAnswers ==
  ASSUME [Next]_vars PROVE UNCHANGED ingestion \/ \E r \in Requests : Ingest(r) \/ CommitEvent(r)
  <1>1. CASE CreateConnector \/ TestRagConnector \/ TestMcpConnector \/ CustomerWrites
             \/ \E d \in Drafts : CreateTripwire(d)
    BY <1>1 DEF CreateConnector, TestRagConnector, TestMcpConnector, ConnectorStep, CustomerWrites, CreateTripwire
  <1>2. ASSUME NEW h \in Handlers,
               (\E o \in DOMAIN Target, k \in Keys : Load(h, o, k)) \/ Decide(h) \/ WriteStatus(h) \/ Requeue(h)
        PROVE  UNCHANGED ingestion
    BY <1>2 DEF Load, Decide, WriteStatus, Requeue
  <1>3. ASSUME NEW w \in Workers,
               \/ \E t \in JobTypes : Claim(w, t)
               \/ NothingToDo(w) \/ Deploy(w) \/ DeployFails(w) \/ Verify(w)
               \/ Retire(w) \/ RetireFails(w) \/ Flush(w)
        PROVE  UNCHANGED ingestion
    BY <1>3 DEF Claim, NothingToDo, Deploy, DeployFails, Verify, Retire, RetireFails, Flush, SetStatus
  <1>4. ASSUME NEW x \in Actors, Crash(x) \/ DeadlockVictim(x) PROVE UNCHANGED ingestion
    BY <1>4 DEF Crash, DeadlockVictim, Rollback
  <1>5. CASE UNCHANGED vars
    BY <1>5 DEF vars
  <1>6. QED
    BY <1>1, <1>2, <1>3, <1>4, <1>5 DEF Next

\* The initial state.
LEMMA AnswerInit == Init => AnswerInv
  BY FS_EmptySet DEF Init, AnswerInv

\* Every step keeps it: a request that shares a key or a monitor waits until the other one
\* has committed.
LEMMA AnswerStep == AnswerInv /\ [Next]_vars => AnswerInv'
  <1> SUFFICES ASSUME AnswerInv, [Next]_vars PROVE AnswerInv'
    OBVIOUS
  <1>1. CASE UNCHANGED ingestion
    BY <1>1 DEF ingestion, AnswerInv
  <1>2. ASSUME NEW r \in Requests, Ingest(r) PROVE AnswerInv'
    <2>1. /\ ingest[r] = "idle" /\ \A s \in Requests : Together(r, s) => ingest[s] # "stored"
          /\ ingest' = [ingest EXCEPT ![r] = "stored"]
          /\ answer' = [answer EXCEPT ![r] = events \cup {r}] /\ events' = events
      BY <1>2 DEF Ingest
    <2>2. IsFiniteSet(events \cup {r})
      BY FS_AddElement DEF AnswerInv
    <2>3. ingest'[r] = "stored" /\ answer'[r] = events \cup {r}
      BY <2>1 DEF AnswerInv
    <2>4. \A s \in Requests : s # r => ingest'[s] = ingest[s] /\ answer'[s] = answer[s]
      BY <2>1 DEF AnswerInv
    <2>5. \A s \in Requests : s # r /\ Together(r, s) /\ ingest[s] # "idle" => answer[s] \subseteq events
      BY <2>1 DEF AnswerInv
    <2>6. \A s, q \in Requests : Together(s, q) <=> Together(q, s)
      BY DEF Together
    <2>7. \A s, q \in Requests : Together(s, q) /\ ingest'[s] # "idle" /\ ingest'[q] # "idle" =>
            answer'[s] \subseteq answer'[q] \/ answer'[q] \subseteq answer'[s]
      <3> SUFFICES ASSUME NEW s \in Requests, NEW q \in Requests, Together(s, q),
                          ingest'[s] # "idle", ingest'[q] # "idle"
          PROVE answer'[s] \subseteq answer'[q] \/ answer'[q] \subseteq answer'[s]
        OBVIOUS
      <3>1. CASE s # r /\ q # r
        BY <2>4, <3>1 DEF AnswerInv
      <3>2. CASE s = r /\ q # r
        BY <2>3, <2>4, <2>5, <3>2
      <3>3. CASE s # r /\ q = r
        BY <2>3, <2>4, <2>5, <2>6, <3>3
      <3>4. CASE s = r /\ q = r
        BY <3>4
      <3>5. QED
        BY <3>1, <3>2, <3>3, <3>4
    <2>8. DOMAIN ingest' = Requests /\ DOMAIN answer' = Requests
      BY <2>1 DEF AnswerInv
    <2>9. QED
      BY <2>1, <2>2, <2>3, <2>4, <2>7, <2>8 DEF AnswerInv
  <1>3. ASSUME NEW r \in Requests, CommitEvent(r) PROVE AnswerInv'
    <2>1. /\ ingest[r] = "stored" /\ ingest' = [ingest EXCEPT ![r] = "done"]
          /\ answer' = answer /\ events' = events \cup {r}
      BY <1>3 DEF CommitEvent
    <2>2. IsFiniteSet(events \cup {r})
      BY FS_AddElement DEF AnswerInv
    <2>3. ingest'[r] = "done" /\ \A s \in Requests : s # r => ingest'[s] = ingest[s]
      BY <2>1 DEF AnswerInv
    <2>4. \A s \in Requests : ingest'[s] # "idle" <=> ingest[s] # "idle"
      BY <2>1, <2>3
    <2>5. QED
      BY <2>1, <2>2, <2>3, <2>4 DEF AnswerInv
  <1>4. QED
    BY <1>1, <1>2, <1>3, OthersLeaveAnswers

\* A later answer to the same key or monitor counts the events of an earlier one, and its
\* severity is not lower: authentication holds the key's and the credential's row until the
\* commit, and the severity grows with the events.
THEOREM AnswersOnlyGrow == Spec => []AnswersGrow
  <1>1. AnswerInv => AnswersGrow
    <2> SUFFICES ASSUME AnswerInv, NEW r \in Requests, NEW s \in Requests, Together(r, s),
                        ingest[r] # "idle", ingest[s] # "idle"
        PROVE  \/ answer[r] \subseteq answer[s] /\ Severity(answer[r]) <= Severity(answer[s])
               \/ answer[s] \subseteq answer[r] /\ Severity(answer[s]) <= Severity(answer[r])
      BY DEF AnswersGrow
    <2>1. /\ IsFiniteSet(answer[r]) /\ IsFiniteSet(answer[s]) /\ answer[r] # {} /\ answer[s] # {}
          /\ answer[r] \subseteq answer[s] \/ answer[s] \subseteq answer[r]
      BY DEF AnswerInv
    <2>2. QED
      BY <2>1, SeverityGrows
  <1>2. Spec => Init /\ [][Next]_vars
    BY PTL DEF Spec
  <1>3. QED
    BY <1>1, <1>2, AnswerInit, AnswerStep, PTL

-----------------------------------------------------------------------------
(* The deployment: shapes, types and the invariants. *)

OutRows == [status : Statuses \cup {"none"}, published : BOOLEAN]

\* The part of TypeOK that the arguments need, and what a transaction executes.
Shapes ==
  /\ pc \in [Actors -> {"idle", "write", "queue", "act", "verify", "flush"}]
  /\ op \in [Actors -> DOMAIN Target \cup JobTypes \cup {"none"}]
  /\ DOMAIN key = Handlers /\ DOMAIN seen = Workers
  /\ out \in [Workers -> OutRows]
  /\ {assetId, orphaned} \subseteq BOOLEAN
  /\ \A h \in Handlers : pc[h] # "idle" => op[h] \in DOMAIN Target
  /\ \A h \in Handlers : pc[h] = "queue" => op[h] \in DOMAIN JobOf
  /\ \A w \in Workers : pc[w] \in {"idle", "act"} => ~out[w].published

\* The statuses that are reached only after an approval.
Licensed == Statuses \ {"draft", "awaiting_approval", "rejected", "cancelled"}

Approved == approver \in Keys \ {Requester}

\* A licensed status, in the row or in somebody's hands, stands for an approval.
ApprovalInv ==
  /\ status \in Licensed => Approved
  /\ \A h \in Handlers : pc[h] # "idle" /\ op[h] = "approve" => key[h] \in Keys \ {Requester}
  /\ \A h \in Handlers : op[h] \in DOMAIN JobOf => Approved
  /\ \A w \in Workers : seen[w] \in Licensed \/ out[w].status \in Licensed \/ pc[w] = "verify" => Approved
  /\ PublishedIsApproved

\* The statuses of a deployment whose asset is recorded, and what a worker may conclude.
Recorded == {"deployed", "deployed_unmonitored", "verification_failed", "drift_detected", "expired", "retiring"}
Verdicts == {"none", "failed", "deployed", "verification_failed", "drift_detected", "retired"}

\* A status that stands for an asset comes with its identifier.
RecordedInv ==
  /\ status \in Recorded => assetId
  /\ \A h \in Handlers : op[h] = "retire" => assetId
  /\ \A w \in Workers : seen[w] = "retiring" \/ out[w].status = "drift_detected" => assetId
  /\ \A w \in Workers : out[w].status \in Verdicts
  /\ \A w \in Workers : pc[w] = "flush" /\ out[w].published =>
       out[w].status \in {"deployed", "verification_failed"} \/ orphaned
  /\ AssetIsRecorded

TripwireInv == Shapes /\ ApprovalInv /\ RecordedInv

\* The names of the state machine.
LEMMA StatusNames ==
  /\ Statuses = {"draft", "awaiting_approval", "approved", "deploying", "deployed", "deployed_unmonitored",
                 "verification_failed", "failed", "drift_detected", "retiring", "expired",
                 "rejected", "cancelled", "retired"}
  /\ JobTypes = {"execute", "retire"} /\ Expected["execute"] = "deploying" /\ Expected["retire"] = "retiring"
  BY DEF Statuses, Transitions, JobTypes, Expected

\* The endpoints, what they ask for and what they enqueue.
LEMMA EndpointNames ==
  /\ DOMAIN Target = {"submit", "approve", "reject", "deploy", "retire"}
  /\ DOMAIN JobOf = {"deploy", "retire"}
  /\ Target["submit"] = "awaiting_approval" /\ Target["approve"] = "approved"
  /\ Target["reject"] = "rejected" /\ Target["deploy"] = "deploying" /\ Target["retire"] = "retiring"
  BY DEF Target, JobOf

\* What the endpoints start from.
LEMMA StartsFrom ==
  /\ \A s : CanTransition(s, "deploying") => s \in Licensed
  /\ \A s : CanTransition(s, "retiring") => s \in Licensed /\ s \in Recorded
  <1> SUFFICES ASSUME NEW s, NEW to \in {"deploying", "retiring"}, CanTransition(s, to)
      PROVE  s \in Licensed /\ (to = "retiring" => s \in Recorded)
    OBVIOUS
  <1>1. s \in Statuses /\ to \in Transitions[s]
    BY DEF CanTransition
  <1>2. s \notin {"draft", "awaiting_approval", "rejected", "cancelled"}
    BY <1>1 DEF Transitions
  <1>3. to = "retiring" => s \notin {"approved", "deploying", "failed", "retiring", "retired"}
    BY <1>1 DEF Transitions
  <1>4. QED
    BY <1>1, <1>2, <1>3, StatusNames DEF Licensed, Recorded

\* A step of x changes nobody else's transaction.
Alone(x) ==
  /\ \A y \in Actors : y # x => pc'[y] = pc[y] /\ op'[y] = op[y]
  /\ \A h \in Handlers : h # x => key'[h] = key[h]
  /\ \A w \in Workers : w # x => seen'[w] = seen[w] /\ out'[w] = out[w]
  /\ DOMAIN key' = Handlers /\ DOMAIN seen' = Workers
  /\ pc' \in [Actors -> {"idle", "write", "queue", "act", "verify", "flush"}]
  /\ op' \in [Actors -> DOMAIN Target \cup JobTypes \cup {"none"}]
  /\ out' \in [Workers -> OutRows]

\* The transaction of x is over.
Gone(x) ==
  /\ pc'[x] = "idle" /\ op'[x] = "none"
  /\ x \in Workers => seen'[x] = "none" /\ out'[x].status = "none" /\ ~out'[x].published

\* The end of a transaction.
LEMMA EndShape ==
  ASSUME Shapes, NEW x \in Actors, EndTransaction(x) PROVE Alone(x) /\ Gone(x)
  <1>1. NoWrite \in OutRows /\ NoWrite.status = "none" /\ NoWrite.published = FALSE
    BY DEF NoWrite, OutRows
  <1>2. Alone(x)
    BY <1>1 DEF EndTransaction, Goto, Alone, Shapes
  <1>3. pc'[x] = "idle" /\ op'[x] = "none"
    BY DEF EndTransaction, Goto, Shapes
  <1>4. x \in Workers => seen'[x] = "none" /\ out'[x] = NoWrite
    BY DEF EndTransaction
  <1>5. QED
    BY <1>1, <1>2, <1>3, <1>4 DEF Gone

\* The handlers.
LEMMA HandlerShape ==
  ASSUME Shapes, NEW h \in Handlers
  PROVE  /\ \A o \in DOMAIN Target, k \in Keys : Load(h, o, k) =>
              /\ Alone(h) /\ pc'[h] = "write" /\ op'[h] = o /\ key'[h] = k
              /\ CanTransition(status, Target[o]) /\ (o = "approve" => k # Requester)
              /\ UNCHANGED <<status, approver, assetId, asset, orphaned>>
         /\ WriteStatus(h) =>
              /\ Alone(h) /\ pc[h] = "write" /\ pc'[h] = "queue" /\ op'[h] = op[h] /\ key'[h] = key[h]
              /\ op[h] \in DOMAIN JobOf /\ UNCHANGED <<status, approver, assetId, asset, orphaned>>
         /\ Decide(h) \/ Requeue(h) =>
              /\ Alone(h) /\ Gone(h) /\ pc[h] # "idle" /\ op[h] \in DOMAIN Target /\ status' = Target[op[h]]
              /\ approver' = IF op[h] = "approve" THEN key[h] ELSE approver
              /\ UNCHANGED <<assetId, asset, orphaned>>
  <1>0. h \in Actors /\ h \notin Workers
    BY ActorAssumption DEF Actors
  <1>1. ASSUME NEW o \in DOMAIN Target, NEW k \in Keys, Load(h, o, k)
        PROVE  /\ Alone(h) /\ pc'[h] = "write" /\ op'[h] = o /\ key'[h] = k
               /\ CanTransition(status, Target[o]) /\ (o = "approve" => k # Requester)
               /\ UNCHANGED <<status, approver, assetId, asset, orphaned>>
    BY <1>0, <1>1 DEF Load, Goto, Alone, Shapes, db, deployment
  <1>2. ASSUME WriteStatus(h)
        PROVE  /\ Alone(h) /\ pc[h] = "write" /\ pc'[h] = "queue" /\ op'[h] = op[h] /\ key'[h] = key[h]
               /\ op[h] \in DOMAIN JobOf /\ UNCHANGED <<status, approver, assetId, asset, orphaned>>
    BY <1>0, <1>2 DEF WriteStatus, Goto, Alone, Shapes, db, deployment, counters
  <1>3. ASSUME Decide(h) \/ Requeue(h)
        PROVE  /\ Alone(h) /\ Gone(h) /\ pc[h] # "idle" /\ op[h] \in DOMAIN Target /\ status' = Target[op[h]]
               /\ approver' = IF op[h] = "approve" THEN key[h] ELSE approver
               /\ UNCHANGED <<assetId, asset, orphaned>>
    <2>1. EndTransaction(h) /\ pc[h] # "idle" /\ status' = Target[op[h]] /\ UNCHANGED <<assetId, asset, orphaned>>
      BY <1>3 DEF Decide, Requeue, counters
    <2>2. op[h] \in DOMAIN Target /\ (pc[h] = "queue" => op[h] # "approve")
      BY <2>1, EndpointNames DEF Shapes
    <2>3. approver' = IF op[h] = "approve" THEN key[h] ELSE approver
      BY <1>3, <2>2 DEF Decide, Requeue
    <2>4. QED
      BY <1>0, <2>1, <2>2, <2>3, EndShape
  <1>4. QED
    BY <1>1, <1>2, <1>3

\* A worker that goes on with its job.
GoesOn(w) == Alone(w) /\ op'[w] = op[w] /\ seen'[w] = seen[w] /\ UNCHANGED <<status, approver, assetId>>

\* It has decided on a status.
LEMMA SetStatusShape ==
  ASSUME Shapes, NEW w \in Workers, NEW s \in Statuses, SetStatus(w, s)
  PROVE  GoesOn(w) /\ pc'[w] = "flush" /\ out'[w].status = s /\ out'[w].published = out[w].published
  <1> DEFINE new == [out[w] EXCEPT !.status = s]
  <1>1. w \in Actors /\ out' = [out EXCEPT ![w] = new] /\ out[w] \in OutRows
    BY DEF Actors, SetStatus, Shapes
  <1>2. new \in OutRows /\ new.status = s /\ new.published = out[w].published
    BY <1>1 DEF OutRows
  <1> HIDE DEF new
  <1>3. GoesOn(w) /\ pc'[w] = "flush"
    BY <1>1, <1>2 DEF SetStatus, Goto, GoesOn, Alone, Shapes, db, deployment
  <1>4. QED
    BY <1>1, <1>2, <1>3 DEF Shapes

\* It has published the asset.
LEMMA DeployShape ==
  ASSUME Shapes, NEW w \in Workers, Deploy(w)
  PROVE  /\ GoesOn(w) /\ pc'[w] = "verify" /\ out'[w].status = out[w].status /\ out'[w].published
         /\ asset' = "ours" /\ orphaned' = orphaned /\ seen[w] = "deploying"
  <1> DEFINE new == [out[w] EXCEPT !.published = TRUE]
  <1>1. w \in Actors /\ out' = [out EXCEPT ![w] = new] /\ out[w] \in OutRows
    BY DEF Actors, Deploy, Shapes
  <1>2. new \in OutRows /\ new.status = out[w].status /\ new.published
    BY <1>1 DEF OutRows
  <1> HIDE DEF new
  <1>3. GoesOn(w) /\ pc'[w] = "verify" /\ asset' = "ours" /\ orphaned' = orphaned
    BY <1>1, <1>2 DEF Deploy, Goto, GoesOn, Alone, Shapes, db, deployment, counters
  <1>4. QED
    BY <1>1, <1>2, <1>3, StatusNames DEF Shapes, Deploy, Acts

\* It has claimed a job.
LEMMA ClaimShape ==
  ASSUME Shapes, NEW w \in Workers, NEW t \in JobTypes, Claim(w, t)
  PROVE  /\ Alone(w) /\ pc[w] = "idle" /\ pc'[w] = "act" /\ op'[w] = t /\ seen'[w] = status /\ out'[w] = out[w]
         /\ UNCHANGED <<status, approver, assetId, asset, orphaned>>
  <1>1. w \in Actors
    BY DEF Actors
  <1>2. QED
    BY <1>1 DEF Claim, Goto, Alone, Shapes, db, deployment, counters

\* The initial state.
LEMMA TripwireInit == Init => TripwireInv
  <1> SUFFICES ASSUME Init PROVE TripwireInv
    OBVIOUS
  <1>1. NoWrite \in OutRows /\ NoWrite.status = "none" /\ NoWrite.published = FALSE
    BY DEF NoWrite, OutRows
  <1>2. Handlers \cup Workers = Actors
    BY DEF Actors
  <1>3. Shapes
    BY <1>1, <1>2 DEF Init, Shapes
  <1>4. ApprovalInv
    BY <1>1, <1>2, StatusNames, EndpointNames DEF Init, ApprovalInv, Licensed, PublishedIsApproved
  <1>5. RecordedInv
    BY <1>1, <1>2, StatusNames DEF Init, RecordedInv, Recorded, Verdicts, AssetIsRecorded
  <1>6. QED
    BY <1>3, <1>4, <1>5 DEF TripwireInv

\* The handlers.
LEMMA TripwireHandler ==
  ASSUME TripwireInv, NEW h \in Handlers,
         (\E o \in DOMAIN Target, k \in Keys : Load(h, o, k)) \/ WriteStatus(h) \/ Decide(h) \/ Requeue(h)
  PROVE  TripwireInv'
  <1>0. Handlers \cap Workers = {} /\ Handlers \cup Workers = Actors /\ Shapes
    BY ActorAssumption DEF Actors, TripwireInv
  <1>1. Alone(h) /\ UNCHANGED <<assetId, asset, orphaned>>
    BY <1>0, HandlerShape
  <1>2. \A w \in Workers : pc'[w] = pc[w] /\ op'[w] = op[w] /\ seen'[w] = seen[w] /\ out'[w] = out[w]
    BY <1>0, <1>1 DEF Alone
  <1>3. \A g \in Handlers : g # h => pc'[g] = pc[g] /\ op'[g] = op[g] /\ key'[g] = key[g]
    BY <1>0, <1>1 DEF Alone
  <1>4. ASSUME NEW o \in DOMAIN Target, NEW k \in Keys, Load(h, o, k) PROVE TripwireInv'
    <2>1. /\ pc'[h] = "write" /\ op'[h] = o /\ key'[h] = k
          /\ CanTransition(status, Target[o]) /\ (o = "approve" => k # Requester)
          /\ UNCHANGED <<status, approver>>
      BY <1>0, <1>4, HandlerShape
    <2>2. (o \in DOMAIN JobOf => Approved) /\ (o = "retire" => assetId)
      BY <2>1, StartsFrom, EndpointNames DEF TripwireInv, ApprovalInv, RecordedInv
    <2>3. Shapes'
      BY <1>1, <1>2, <1>3, <2>1 DEF TripwireInv, Shapes, Alone
    <2>4. ApprovalInv'
      BY <1>1, <1>2, <1>3, <2>1, <2>2 DEF TripwireInv, ApprovalInv, Approved, PublishedIsApproved
    <2>5. RecordedInv'
      BY <1>1, <1>2, <1>3, <2>1, <2>2 DEF TripwireInv, RecordedInv, AssetIsRecorded
    <2>6. QED
      BY <2>3, <2>4, <2>5 DEF TripwireInv
  <1>5. CASE WriteStatus(h)
    <2>1. /\ pc[h] = "write" /\ pc'[h] = "queue" /\ op'[h] = op[h] /\ key'[h] = key[h] /\ op[h] \in DOMAIN JobOf
          /\ UNCHANGED <<status, approver>>
      BY <1>0, <1>5, HandlerShape
    <2>2. Shapes'
      BY <1>1, <1>2, <1>3, <2>1 DEF TripwireInv, Shapes, Alone
    <2>3. ApprovalInv' /\ RecordedInv'
      BY <1>1, <1>2, <1>3, <2>1 DEF TripwireInv, ApprovalInv, Approved, PublishedIsApproved, RecordedInv,
         AssetIsRecorded
    <2>4. QED
      BY <2>2, <2>3 DEF TripwireInv
  <1>6. CASE Decide(h) \/ Requeue(h)
    <2>1. /\ pc'[h] = "idle" /\ op'[h] = "none" /\ pc[h] # "idle" /\ op[h] \in DOMAIN Target
          /\ status' = Target[op[h]] /\ approver' = IF op[h] = "approve" THEN key[h] ELSE approver
      BY <1>0, <1>6, HandlerShape DEF Gone
    <2>2. Approved => Approved'
      BY <2>1 DEF TripwireInv, ApprovalInv, Approved
    <2>3. status' \in Licensed => Approved'
      <3>1. op[h] = "approve" => Approved'
        BY <2>1 DEF TripwireInv, ApprovalInv, Approved
      <3>2. op[h] \in DOMAIN JobOf => Approved'
        BY <2>2 DEF TripwireInv, ApprovalInv
      <3>3. op[h] \in {"submit", "reject"} => status' \notin Licensed
        BY <2>1, EndpointNames DEF Licensed
      <3>4. QED
        BY <2>1, <3>1, <3>2, <3>3, EndpointNames
    <2>4. status' \in Recorded => op[h] = "retire"
      BY <2>1, EndpointNames DEF Recorded
    <2>5. Shapes'
      BY <1>1, <1>2, <1>3, <2>1 DEF TripwireInv, Shapes, Alone
    <2>6. ApprovalInv'
      <3>1. "none" \notin DOMAIN JobOf
        BY EndpointNames
      <3>2. PublishedIsApproved'
        BY <1>1, <2>2 DEF TripwireInv, ApprovalInv, PublishedIsApproved, Approved
      <3>3. QED
        BY <1>2, <1>3, <2>1, <2>2, <2>3, <3>1, <3>2 DEF TripwireInv, ApprovalInv
    <2>7. RecordedInv'
      BY <1>1, <1>2, <1>3, <2>1, <2>4 DEF TripwireInv, RecordedInv, AssetIsRecorded, Recorded
    <2>8. QED
      BY <2>5, <2>6, <2>7 DEF TripwireInv
  <1>7. QED
    BY <1>4, <1>5, <1>6

\* A worker that goes on: it keeps the approval, has something to show for what it published,
\* and concludes what it may.
LEMMA TripwireGoesOn ==
  ASSUME TripwireInv, NEW w \in Workers, GoesOn(w), Approved,
         pc'[w] \in {"verify", "flush"}, out'[w].status \in Verdicts,
         out'[w].status = "drift_detected" => assetId,
         orphaned' \in BOOLEAN, orphaned => orphaned',
         out[w].published => out'[w].published,
         pc'[w] = "flush" /\ out'[w].published =>
           out'[w].status \in {"deployed", "verification_failed"} \/ orphaned',
         asset' # "absent" => asset # "absent" \/ orphaned' \/ out'[w].published
  PROVE  TripwireInv'
  <1>0. Handlers \cap Workers = {} /\ Handlers \cup Workers = Actors /\ Shapes
    BY ActorAssumption DEF Actors, TripwireInv
  <1>1. Alone(w) /\ op'[w] = op[w] /\ seen'[w] = seen[w] /\ UNCHANGED <<status, approver, assetId>>
    BY DEF GoesOn
  <1>2. \A h \in Handlers : pc'[h] = pc[h] /\ op'[h] = op[h] /\ key'[h] = key[h]
    BY <1>0, <1>1 DEF Alone
  <1>3. \A v \in Workers : v # w => pc'[v] = pc[v] /\ op'[v] = op[v] /\ seen'[v] = seen[v] /\ out'[v] = out[v]
    BY <1>0, <1>1 DEF Alone
  <1>4. Shapes'
    BY <1>1, <1>2, <1>3 DEF TripwireInv, Shapes, Alone
  <1>5. ApprovalInv'
    BY <1>1, <1>2, <1>3 DEF TripwireInv, ApprovalInv, Approved, PublishedIsApproved
  <1>6. RecordedInv'
    <2>1. (\E v \in Workers : out[v].published) => \E v \in Workers : out'[v].published
      BY <1>3
    <2>2. AssetIsRecorded'
      BY <1>1, <2>1 DEF TripwireInv, RecordedInv, AssetIsRecorded
    <2>3. QED
      BY <1>1, <1>2, <1>3, <2>2 DEF TripwireInv, RecordedInv
  <1>7. QED
    BY <1>4, <1>5, <1>6 DEF TripwireInv

\* A transaction that ends without writing the deployment's row.
LEMMA TripwireLost ==
  ASSUME TripwireInv, NEW x \in Actors, Alone(x), Gone(x), UNCHANGED <<status, approver, assetId, asset>>,
         orphaned' \in BOOLEAN, orphaned => orphaned', x \in Workers /\ out[x].published => orphaned'
  PROVE  TripwireInv'
  <1>0. Handlers \cup Workers = Actors
    BY DEF Actors
  <1>1. Shapes'
    BY <1>0 DEF TripwireInv, Shapes, Alone, Gone
  <1>2. ApprovalInv'
    <2>1. "none" \notin Licensed /\ "none" \notin DOMAIN JobOf
      BY StatusNames, EndpointNames DEF Licensed
    <2>2. QED
      BY <1>0, <2>1 DEF TripwireInv, ApprovalInv, Approved, PublishedIsApproved, Alone, Gone
  <1>3. RecordedInv'
    <2>1. (\E v \in Workers : out[v].published) => orphaned' \/ \E v \in Workers : out'[v].published
      BY DEF Alone
    <2>2. AssetIsRecorded'
      BY <2>1 DEF TripwireInv, RecordedInv, AssetIsRecorded
    <2>3. QED
      BY <1>0, <2>2 DEF TripwireInv, RecordedInv, Alone, Gone, Verdicts
  <1>4. QED
    BY <1>1, <1>2, <1>3 DEF TripwireInv

\* The commit of a worker.
LEMMA TripwireFlush ==
  ASSUME TripwireInv, NEW w \in Workers, Flush(w) PROVE TripwireInv'
  <1>0. Handlers \cap Workers = {} /\ Handlers \cup Workers = Actors /\ w \in Actors /\ Shapes
    BY ActorAssumption DEF Actors, TripwireInv
  <1>1. /\ Alone(w) /\ Gone(w) /\ pc[w] = "flush" /\ status' = out[w].status
        /\ UNCHANGED <<approver, asset, orphaned>>
    BY <1>0, EndShape DEF Flush, counters
  <1>2. assetId' = (assetId \/ out[w].status \in {"deployed", "verification_failed"})
    BY DEF Flush
  <1>3. assetId' \in BOOLEAN /\ (assetId => assetId')
        /\ (out[w].status \in {"deployed", "verification_failed"} => assetId')
    BY <1>2
  <1>4. \A h \in Handlers : pc'[h] = pc[h] /\ op'[h] = op[h] /\ key'[h] = key[h]
    BY <1>0, <1>1 DEF Alone
  <1>5. \A v \in Workers : v # w => pc'[v] = pc[v] /\ op'[v] = op[v] /\ seen'[v] = seen[v] /\ out'[v] = out[v]
    BY <1>0, <1>1 DEF Alone
  <1>6. /\ pc'[w] = "idle" /\ op'[w] = "none" /\ seen'[w] = "none" /\ out'[w].status = "none"
        /\ ~out'[w].published
    BY <1>1 DEF Gone
  <1>7. Shapes'
    BY <1>1, <1>3, <1>4, <1>5, <1>6 DEF TripwireInv, Shapes, Alone
  <1>8. ApprovalInv'
    <2>1. "none" \notin Licensed
      BY StatusNames DEF Licensed
    <2>2. QED
      BY <1>1, <1>4, <1>5, <1>6, <2>1 DEF TripwireInv, ApprovalInv, Approved, PublishedIsApproved
  <1>9. RecordedInv'
    <2>1. status' \in Recorded => assetId'
      BY <1>1, <1>3 DEF TripwireInv, RecordedInv, Recorded, Verdicts
    <2>2. (\E v \in Workers : out[v].published) => assetId' \/ orphaned \/ \E v \in Workers : out'[v].published
      <3>1. out[w].published => assetId' \/ orphaned
        BY <1>1, <1>3 DEF TripwireInv, RecordedInv
      <3>2. QED
        BY <1>5, <3>1
    <2>3. AssetIsRecorded'
      <3>1. asset' # "absent" => assetId' \/ orphaned' \/ \E v \in Workers : out'[v].published
        BY <1>1, <1>3, <2>2 DEF TripwireInv, RecordedInv, AssetIsRecorded
      <3>2. QED
        BY <2>1, <3>1 DEF AssetIsRecorded, Recorded
    <2>4. QED
      BY <1>1, <1>3, <1>4, <1>5, <1>6, <2>1, <2>3 DEF TripwireInv, RecordedInv, Verdicts
  <1>10. QED
    BY <1>7, <1>8, <1>9 DEF TripwireInv

\* A worker claims a job: what it loads is the status of the row.
LEMMA TripwireClaim ==
  ASSUME TripwireInv, NEW w \in Workers, NEW t \in JobTypes, Claim(w, t) PROVE TripwireInv'
  <1>0. Handlers \cap Workers = {} /\ Handlers \cup Workers = Actors /\ Shapes
    BY ActorAssumption DEF Actors, TripwireInv
  <1>1. /\ Alone(w) /\ pc[w] = "idle" /\ pc'[w] = "act" /\ seen'[w] = status /\ out'[w] = out[w]
        /\ UNCHANGED <<status, approver, assetId, asset, orphaned>>
    BY <1>0, ClaimShape
  <1>2. \A h \in Handlers : pc'[h] = pc[h] /\ op'[h] = op[h] /\ key'[h] = key[h]
    BY <1>0, <1>1 DEF Alone
  <1>3. \A v \in Workers : v # w => pc'[v] = pc[v] /\ seen'[v] = seen[v]
    BY <1>0, <1>1 DEF Alone
  <1>4. \A v \in Workers : out'[v] = out[v]
    BY <1>0, <1>1 DEF Alone
  <1>5. Shapes'
    BY <1>1, <1>2, <1>3, <1>4 DEF TripwireInv, Shapes, Alone
  <1>6. ApprovalInv'
    BY <1>1, <1>2, <1>3, <1>4 DEF TripwireInv, ApprovalInv, Approved, PublishedIsApproved
  <1>7. RecordedInv'
    BY <1>1, <1>2, <1>3, <1>4 DEF TripwireInv, RecordedInv, Recorded, AssetIsRecorded
  <1>8. QED
    BY <1>5, <1>6, <1>7 DEF TripwireInv

\* What a worker does to the external system.
LEMMA TripwireActs ==
  ASSUME TripwireInv, NEW w \in Workers,
         Deploy(w) \/ DeployFails(w) \/ Verify(w) \/ Retire(w) \/ RetireFails(w)
  PROVE  TripwireInv'
  <1>0. /\ Shapes /\ orphaned \in BOOLEAN /\ (pc[w] = "act" => ~out[w].published)
        /\ out[w].status \in Verdicts /\ (pc[w] = "verify" => Approved)
        /\ (seen[w] \in {"deploying", "retiring"} => Approved) /\ (seen[w] = "retiring" => assetId)
        /\ (out[w].status = "drift_detected" => assetId)
    BY StatusNames DEF TripwireInv, Shapes, ApprovalInv, RecordedInv, Licensed
  <1>1. \A t \in JobTypes : Acts(w, t) => pc[w] = "act" /\ Approved /\ (t = "retire" => assetId)
    BY <1>0, StatusNames DEF Acts
  <1>2. CASE Deploy(w)
    BY <1>0, <1>2, DeployShape, TripwireGoesOn
  <1>3. CASE DeployFails(w)
    <2>1. SetStatus(w, "failed") /\ Approved
      BY <1>0, <1>1, <1>3, StatusNames DEF DeployFails
    <2>2. GoesOn(w) /\ pc'[w] = "flush" /\ out'[w].status = "failed" /\ out'[w].published = out[w].published
      BY <1>0, <2>1, SetStatusShape, StatusNames
    <2>3. /\ orphaned' \in BOOLEAN /\ (orphaned => orphaned') /\ (out[w].published => orphaned')
          /\ (asset' # "absent" => asset # "absent" \/ orphaned')
      <3>1. CASE Acts(w, "execute") /\ asset' \in {asset, "ours"} /\ orphaned' = (orphaned \/ asset' # asset)
        BY <1>0, <1>1, <3>1, StatusNames
      <3>2. CASE orphaned' = TRUE /\ UNCHANGED asset
        BY <3>2
      <3>3. QED
        BY <1>3, <3>1, <3>2 DEF DeployFails
    <2>4. "failed" \in Verdicts
      BY DEF Verdicts
    <2>5. QED
      BY <2>1, <2>2, <2>3, <2>4, TripwireGoesOn
  <1>4. CASE Verify(w)
    <2>1. PICK s \in {"deployed", "verification_failed"} : SetStatus(w, s)
      BY <1>4 DEF Verify
    <2>2. GoesOn(w) /\ pc'[w] = "flush" /\ out'[w].status = s /\ out'[w].published = out[w].published
      BY <1>0, <2>1, SetStatusShape, StatusNames
    <2>3. UNCHANGED <<asset, orphaned>> /\ Approved
      BY <1>0, <1>4 DEF Verify
    <2>4. s \in Verdicts
      BY DEF Verdicts
    <2>5. QED
      BY <1>0, <2>2, <2>3, <2>4, TripwireGoesOn
  <1>5. CASE Retire(w) \/ RetireFails(w)
    <2>1. PICK s \in {"retired", "drift_detected", "failed"} : SetStatus(w, s)
      BY <1>5 DEF Retire, RetireFails
    <2>2. GoesOn(w) /\ pc'[w] = "flush" /\ out'[w].status = s /\ out'[w].published = out[w].published
      BY <1>0, <2>1, SetStatusShape, StatusNames
    <2>3. /\ Approved /\ assetId /\ ~out[w].published /\ orphaned' = orphaned
          /\ (asset' # "absent" => asset # "absent")
      BY <1>0, <1>1, <1>5, StatusNames DEF Retire, RetireFails
    <2>4. s \in Verdicts
      BY DEF Verdicts
    <2>5. QED
      BY <1>0, <2>2, <2>3, <2>4, TripwireGoesOn
  <1>6. QED
    BY <1>2, <1>3, <1>4, <1>5

\* Transactions that end without a write: nothing to do, an exception, a crash, a deadlock.
LEMMA TripwireEnds ==
  ASSUME TripwireInv, NEW x \in Actors, (x \in Workers /\ NothingToDo(x)) \/ Crash(x) \/ DeadlockVictim(x)
  PROVE  TripwireInv'
  <1>0. Shapes /\ orphaned \in BOOLEAN
    BY DEF TripwireInv, Shapes
  <1>1. CASE x \in Workers /\ NothingToDo(x)
    <2>1. EndTransaction(x) /\ pc[x] = "act" /\ UNCHANGED <<status, approver, assetId, asset, orphaned>>
      BY <1>1 DEF NothingToDo, deployment, counters
    <2>2. ~out[x].published
      BY <1>0, <1>1, <2>1 DEF Shapes
    <2>3. QED
      BY <1>0, <2>1, <2>2, EndShape, TripwireLost
  <1>2. CASE Crash(x) \/ DeadlockVictim(x)
    <2>1. /\ EndTransaction(x) /\ orphaned' = (orphaned \/ (x \in Workers /\ out[x].published))
          /\ UNCHANGED <<status, approver, assetId, asset>>
      BY <1>2 DEF Crash, DeadlockVictim, Rollback, db, deployment
    <2>2. orphaned' \in BOOLEAN /\ (orphaned => orphaned') /\ (x \in Workers /\ out[x].published => orphaned')
      BY <1>0, <2>1
    <2>3. QED
      BY <1>0, <2>1, <2>2, EndShape, TripwireLost
  <1>3. QED
    BY <1>1, <1>2

\* Steps outside the transactions: connectors and drafts, the customer, and events.
LEMMA TripwireOutside ==
  ASSUME TripwireInv, UNCHANGED <<tx, approver, assetId, orphaned>>,
         status' = status \/ status' = "draft", asset # "absent" \/ asset' = asset
  PROVE  TripwireInv'
  <1>1. UNCHANGED <<pc, op, key, seen, out>>
    BY DEF tx
  <1>2. "draft" \notin Licensed /\ "draft" \notin Recorded /\ "retiring" \in Recorded
    BY DEF Licensed, Recorded
  <1>3. Shapes'
    BY <1>1 DEF TripwireInv, Shapes
  <1>4. ApprovalInv'
    BY <1>1, <1>2 DEF TripwireInv, ApprovalInv, Approved, PublishedIsApproved
  <1>5. RecordedInv'
    BY <1>1, <1>2 DEF TripwireInv, RecordedInv, AssetIsRecorded
  <1>6. QED
    BY <1>3, <1>4, <1>5 DEF TripwireInv

\* Every step keeps the invariant.
LEMMA TripwireStep == TripwireInv /\ [Next]_vars => TripwireInv'
  <1> SUFFICES ASSUME TripwireInv, [Next]_vars PROVE TripwireInv'
    OBVIOUS
  <1>1. CASE CreateConnector \/ TestRagConnector \/ TestMcpConnector
    <2>1. UNCHANGED <<tx, status, approver, assetId, orphaned, asset>>
      BY <1>1 DEF CreateConnector, TestRagConnector, TestMcpConnector, ConnectorStep, deployment, counters
    <2>2. QED
      BY <2>1, TripwireOutside
  <1>2. ASSUME NEW d \in Drafts, CreateTripwire(d) PROVE TripwireInv'
    <2>1. UNCHANGED <<tx, approver, assetId, orphaned, asset>> /\ status' = "draft"
      BY <1>2 DEF CreateTripwire, counters
    <2>2. QED
      BY <2>1, TripwireOutside
  <1>3. CASE CustomerWrites
    <2>1. UNCHANGED <<tx, status, approver, assetId, orphaned>> /\ asset # "absent"
      BY <1>3 DEF CustomerWrites, db, deployment, counters
    <2>2. QED
      BY <2>1, TripwireOutside
  <1>4. ASSUME NEW r \in Requests, Ingest(r) \/ CommitEvent(r) PROVE TripwireInv'
    <2>1. UNCHANGED <<tx, status, approver, assetId, orphaned, asset>>
      BY <1>4 DEF Ingest, CommitEvent, db, deployment, counters
    <2>2. QED
      BY <2>1, TripwireOutside
  <1>5. CASE UNCHANGED vars
    <2>1. UNCHANGED <<tx, status, approver, assetId, orphaned, asset>>
      BY <1>5 DEF vars, db, deployment, counters
    <2>2. QED
      BY <2>1, TripwireOutside
  <1>6. QED
    BY <1>1, <1>2, <1>3, <1>4, <1>5, TripwireHandler, TripwireClaim, TripwireActs, TripwireFlush, TripwireEnds
       DEF Next, Actors

\* Separation of duties: nothing is published that somebody other than the requester has not
\* approved, however requests overlap; the approver is kept for good once a status needs it.
THEOREM PublicationIsApproved == Spec => []PublishedIsApproved
  <1>1. TripwireInv => PublishedIsApproved
    BY DEF TripwireInv, ApprovalInv
  <1>2. Spec => Init /\ [][Next]_vars
    BY PTL DEF Spec
  <1>3. QED
    BY <1>1, <1>2, TripwireInit, TripwireStep, PTL

\* What is published can be retired: an asset in the external system is recorded with the
\* deployment, is being published, or is the leftover of a lost answer or transaction; and no
\* retirement starts without the identifier.
THEOREM AssetsAreRecorded == Spec => []AssetIsRecorded
  <1>1. TripwireInv => AssetIsRecorded
    BY DEF TripwireInv, RecordedInv
  <1>2. Spec => Init /\ [][Next]_vars
    BY PTL DEF Spec
  <1>3. QED
    BY <1>1, <1>2, TripwireInit, TripwireStep, PTL

=============================================================================
