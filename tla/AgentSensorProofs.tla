------------------------- MODULE AgentSensorProofs --------------------------
(***************************************************************************)
(* What the agent sensor guarantees for any number of tokens, sensors,     *)
(* requests and events and any limit of the wrapper's queue: a token       *)
(* enrols one sensor, at most one event follows the end of a session, no   *)
(* event that an agent has emitted is lost silently, and the sensitive     *)
(* accesses of a session are counted across its requests.                  *)
(***************************************************************************)
EXTENDS AgentSensor, FiniteSetTheorems, WellFoundedInduction, TLAPS

-----------------------------------------------------------------------------
(* The invariants. *)

SensorRows == [token : Tokens, status : {"active", "revoked"}, key : {"active", "revoked"}]

\* A sensor stands for a consumed token, and no two for the same one.
EnrolInv ==
  /\ tokens \in [Tokens -> [consumed : BOOLEAN, expired : BOOLEAN]]
  /\ DOMAIN sensors = Sensors
  /\ \A s \in Enrolled : sensors[s] \in SensorRows /\ tokens[sensors[s].token].consumed
  /\ \A s, u \in Enrolled : sensors[s].token = sensors[u].token => s = u

\* The rows that requests work on.
RequestShapes ==
  /\ DOMAIN requests = Requests
  /\ \A r \in Requests : DOMAIN requests[r] = {"pc", "event", "scope"}
  /\ DOMAIN session = {"status", "sensor", "scope", "summary"}
  /\ session.status \in {"none", "active", "completed"}

\* One request at a time is between its check of the session and its insert, and none is
\* once an event has come late.
LateInv ==
  /\ RequestShapes
  /\ late \in {0, 1}
  /\ session.status # "completed" => late = 0
  /\ \A r, q \in Holders : r = q
  /\ late = 1 => Holders = {}

ClientRows ==
  [pc : {"idle", "ready", "flush", "emit"}, sensor : Sensors \cup {None}, new : EventIds \cup {None},
   left : Nat, on : Requests \cup {None}]

\* The event that the wrapper's call is posting.
Current == IF client.pc = "flush" THEN Head(queue) ELSE client.new

\* The wrapper: what its call is about, and the request that it waits for.
CallInv ==
  /\ queue \in Seq(EventIds) /\ emitted \subseteq EventIds /\ client \in ClientRows
  /\ events \in Seq(ToSet(events))
  /\ client.pc \in {"idle", "ready"} => client.new = None /\ client.on = None
  /\ client.pc = "flush" => client.left \in 1..Len(queue)
  /\ client.pc = "emit" => client.new \in EventIds
  /\ client.on # None => requests[client.on].pc # "free" /\ requests[client.on].event = Current

ReportInv == RequestShapes /\ CallInv /\ AccountedFor

-----------------------------------------------------------------------------
(* Enrolment. *)

\* Only enrolment, expiry and revocation touch tokens and sensors.
LEMMA OthersLeaveSensors ==
  ASSUME [Next]_vars
  PROVE  \/ UNCHANGED <<tokens, sensors>>
         \/ \E p \in Enrollers : Consume(p)
         \/ \E t \in Tokens : Expire(t)
         \/ \E s \in Sensors : Revoke(s)
  <1>1. UNCHANGED serverVars => UNCHANGED <<tokens, sensors>>
    BY DEF serverVars
  <1>2. CASE (\E p \in Enrollers, t \in Tokens : FindToken(p, t)) \/ (\E s \in Sensors : StartSession(s))
             \/ ReadEvents \/ CompleteSession \/ \E p \in DecoyPaths : DecoyChanges(p)
    BY <1>2 DEF FindToken, StartSession, ReadEvents, CompleteSession, DecoyChanges
  <1>3. CASE (\E e \in EventIds : EmitEvent(e)) \/ Finish \/ GiveUp \/ Exit \/ \E r \in Requests : Post(r)
    BY <1>1, <1>3 DEF EmitEvent, Finish, GiveUp, Exit, Post
  <1>4. ASSUME NEW r \in Requests, Ingest(r) PROVE UNCHANGED <<tokens, sensors>>
    <2>1. CASE Authenticate(r) \/ LoadSession(r) \/ Abort(r)
      BY <1>1, <2>1 DEF Authenticate, LoadSession, Abort
    <2>2. CASE Store(r)
      BY <2>2 DEF Store
    <2>3. QED
      BY <1>4, <2>1, <2>2 DEF Ingest
  <1>5. CASE UNCHANGED vars
    BY <1>1, <1>5 DEF vars
  <1>6. QED
    BY <1>2, <1>3, <1>4, <1>5 DEF Next

\* The initial state.
LEMMA EnrolInit == Init => EnrolInv
  BY DEF Init, EnrolInv, Enrolled

\* Every step keeps it: the conditional UPDATE lets one request consume a token.
LEMMA EnrolStep == EnrolInv /\ [Next]_vars => EnrolInv'
  <1> SUFFICES ASSUME EnrolInv, [Next]_vars PROVE EnrolInv'
    OBVIOUS
  <1>1. CASE UNCHANGED <<tokens, sensors>>
    BY <1>1 DEF EnrolInv, Enrolled
  <1>2. ASSUME NEW p \in Enrollers, Consume(p), ~UNCHANGED <<tokens, sensors>> PROVE EnrolInv'
    <2> DEFINE t == enrolling[p]
               row == [token |-> t, status |-> "active", key |-> "active"]
    <2>1. /\ t \in Tokens /\ ~tokens[t].consumed /\ tokens' = [tokens EXCEPT ![t].consumed = TRUE]
          /\ \E s \in Sensors \ Enrolled : sensors' = [sensors EXCEPT ![s] = row]
      BY <1>2 DEF Consume
    <2> HIDE DEF t
    <2>2. row \in SensorRows /\ row.token = t
      BY <2>1 DEF SensorRows
    <2> HIDE DEF row
    <2>3. PICK s \in Sensors \ Enrolled : sensors' = [sensors EXCEPT ![s] = row]
      BY <2>1
    <2>4. /\ tokens' \in [Tokens -> [consumed : BOOLEAN, expired : BOOLEAN]]
          /\ tokens'[t].consumed /\ \A u \in Tokens : tokens[u].consumed => tokens'[u].consumed
      BY <2>1 DEF EnrolInv
    <2>5. DOMAIN sensors' = Sensors /\ sensors'[s] = row /\ \A u \in Sensors : u # s => sensors'[u] = sensors[u]
      BY <2>3 DEF EnrolInv
    <2>6. \A u \in Enrolled' : u = s \/ u \in Enrolled
      BY <2>5 DEF Enrolled
    <2>7. \A u \in Enrolled : u # s /\ sensors[u].token # t /\ sensors'[u] = sensors[u]
      BY <2>1, <2>3, <2>5 DEF EnrolInv, Enrolled
    <2>8. \A u \in Enrolled' : sensors'[u] \in SensorRows /\ tokens'[sensors'[u].token].consumed
      <3>1. \A u \in Enrolled : sensors[u].token \in Tokens
        BY DEF EnrolInv, SensorRows
      <3>2. QED
        BY <2>2, <2>4, <2>5, <2>6, <2>7, <3>1 DEF EnrolInv
    <2>9. \A u, v \in Enrolled' : sensors'[u].token = sensors'[v].token => u = v
      BY <2>2, <2>5, <2>6, <2>7 DEF EnrolInv
    <2>10. QED
      BY <2>4, <2>5, <2>8, <2>9 DEF EnrolInv
  <1>3. ASSUME NEW t \in Tokens, Expire(t) PROVE EnrolInv'
    <2>1. tokens' = [tokens EXCEPT ![t].expired = TRUE] /\ sensors' = sensors
      BY <1>3 DEF Expire
    <2>2. /\ tokens' \in [Tokens -> [consumed : BOOLEAN, expired : BOOLEAN]]
          /\ \A u \in Tokens : tokens[u].consumed => tokens'[u].consumed
      BY <2>1 DEF EnrolInv
    <2>3. \A s \in Enrolled : sensors[s].token \in Tokens
      BY DEF EnrolInv, SensorRows
    <2>4. QED
      BY <2>1, <2>2, <2>3 DEF EnrolInv, Enrolled
  <1>4. ASSUME NEW s \in Sensors, Revoke(s) PROVE EnrolInv'
    <2> DEFINE row == [sensors[s] EXCEPT !.status = "revoked", !.key = "revoked"]
    <2>1. s \in Enrolled /\ sensors' = [sensors EXCEPT ![s] = row] /\ tokens' = tokens
      BY <1>4 DEF Revoke, EnrolInv
    <2>2. row \in SensorRows /\ row.token = sensors[s].token
      BY <2>1 DEF EnrolInv, SensorRows
    <2> HIDE DEF row
    <2>3. DOMAIN sensors' = Sensors /\ sensors'[s] = row /\ \A u \in Sensors : u # s => sensors'[u] = sensors[u]
      BY <2>1 DEF EnrolInv
    <2>4. Enrolled' \subseteq Enrolled /\ \A u \in Enrolled : sensors'[u].token = sensors[u].token
      BY <2>1, <2>2, <2>3 DEF Enrolled
    <2>5. QED
      BY <2>1, <2>2, <2>3, <2>4 DEF EnrolInv, Enrolled
  <1>5. QED
    BY <1>1, <1>2, <1>3, <1>4, OthersLeaveSensors

\* An enrolment token yields one sensor, however many requests present it at once.
THEOREM OneSensorPerToken == Spec => []EnrolledOnce
  <1>1. EnrolInv => EnrolledOnce
    <2> SUFFICES ASSUME EnrolInv, NEW t \in Tokens
        PROVE  Cardinality({s \in Enrolled : sensors[s].token = t}) <= 1
      BY DEF EnrolledOnce
    <2> DEFINE of == {s \in Enrolled : sensors[s].token = t}
    <2>1. CASE of = {}
      <3>1. Cardinality(of) = 0
        BY <2>1, FS_EmptySet
      <3>2. QED
        BY <3>1
    <2>2. ASSUME NEW s \in of PROVE Cardinality(of) <= 1
      <3>1. of = {s}
        BY DEF EnrolInv
      <3>2. Cardinality(of) = 1
        BY <3>1, FS_Singleton
      <3>3. QED
        BY <3>2
    <2>3. QED
      BY <2>1, <2>2
  <1>2. QED
    BY <1>1, EnrolInit, EnrolStep, PTL DEF Spec

-----------------------------------------------------------------------------
(* Requests and the session. *)

\* The row of a request that is over.
LEMMA FreeShape ==
  DOMAIN Free = {"pc", "event", "scope"} /\ Free.pc = "free" /\ Free.event = None
  BY DEF Free

\* The row of request r becomes row.
Becomes(r, row) ==
  /\ requests' = [requests EXCEPT ![r] = row]
  /\ DOMAIN row = {"pc", "event", "scope"}

\* What a step does to the rows of requests.
LEMMA BecomesShape ==
  ASSUME RequestShapes, NEW r \in Requests, NEW row, Becomes(r, row)
  PROVE  /\ requests'[r] = row /\ \A q \in Requests : q # r => requests'[q] = requests[q]
         /\ DOMAIN requests' = Requests /\ \A q \in Requests : DOMAIN requests'[q] = {"pc", "event", "scope"}
  BY DEF Becomes, RequestShapes

\* The steps of a request on the server: it is answered and its row is free, it moves on, or it
\* finds the session active and loads it.
LEMMA IngestShape ==
  ASSUME RequestShapes, NEW r \in Requests
  PROVE  /\ Authenticate(r) =>
              /\ requests[r].pc = "sent" /\ UNCHANGED <<serverVars, late>>
              /\ \/ \E row : Becomes(r, row) /\ row.pc = "auth" /\ row.event = requests[r].event
                           /\ UNCHANGED clientVars
                 \/ Answer(r, "error") /\ Becomes(r, Free)
         /\ LoadSession(r) =>
              /\ requests[r].pc = "auth" /\ UNCHANGED <<serverVars, late>>
              /\ \/ \E row : Becomes(r, row) /\ row.pc = "loaded" /\ row.event = requests[r].event
                           /\ row.scope = session.scope /\ Holders = {} /\ session.status = "active" /\ UNCHANGED clientVars
                 \/ Answer(r, "error") /\ Becomes(r, Free)
                 \/ Answer(r, "conflict") /\ Becomes(r, Free) /\ session.status = "completed"
         /\ Store(r) =>
              /\ requests[r].pc = "loaded" /\ Answer(r, "ok") /\ Becomes(r, Free)
              /\ UNCHANGED session
              /\ \/ (\E i \in DOMAIN events : events[i].id = requests[r].event) /\ UNCHANGED <<events, late>>
                 \/ /\ \E record : events' = Append(events, record) /\ record.id = requests[r].event
                    /\ late' = IF session.status = "completed" THEN late + 1 ELSE late
  <1>0. \A status : Answer(r, status) => Becomes(r, Free)
    BY FreeShape DEF Answer, Becomes
  <1>1. ASSUME Authenticate(r)
        PROVE  /\ requests[r].pc = "sent" /\ UNCHANGED <<serverVars, late>>
               /\ \/ \E row : Becomes(r, row) /\ row.pc = "auth" /\ row.event = requests[r].event
                            /\ UNCHANGED clientVars
                  \/ Answer(r, "error") /\ Becomes(r, Free)
    <2> DEFINE row == [requests[r] EXCEPT !.pc = "auth"]
    <2>1. DOMAIN row = {"pc", "event", "scope"} /\ row.pc = "auth" /\ row.event = requests[r].event
      BY DEF RequestShapes
    <2>2. CASE requests' = [requests EXCEPT ![r].pc = "auth"] /\ UNCHANGED clientVars
      <3>1. Becomes(r, row) /\ UNCHANGED clientVars
        BY <2>1, <2>2 DEF Becomes
      <3>2. requests[r].pc = "sent" /\ UNCHANGED <<serverVars, late>>
        BY <1>1 DEF Authenticate
      <3> HIDE DEF row
      <3>3. QED
        BY <2>1, <3>1, <3>2
    <2>3. QED
      BY <1>0, <1>1, <2>2 DEF Authenticate
  <1>2. ASSUME LoadSession(r)
        PROVE  /\ requests[r].pc = "auth" /\ UNCHANGED <<serverVars, late>>
               /\ \/ \E row : Becomes(r, row) /\ row.pc = "loaded" /\ row.event = requests[r].event
                            /\ row.scope = session.scope /\ Holders = {} /\ session.status = "active" /\ UNCHANGED clientVars
                  \/ Answer(r, "error") /\ Becomes(r, Free)
                  \/ Answer(r, "conflict") /\ Becomes(r, Free) /\ session.status = "completed"
    <2> DEFINE row == [requests[r] EXCEPT !.pc = "loaded", !.scope = session.scope]
    <2>1. /\ DOMAIN row = {"pc", "event", "scope"} /\ row.pc = "loaded" /\ row.event = requests[r].event
          /\ row.scope = session.scope
      BY DEF RequestShapes
    <2>2. requests[r].pc = "auth" /\ Holders = {} /\ UNCHANGED <<serverVars, late>>
      BY <1>2 DEF LoadSession
    <2>3. CASE session.status = "none" \/ session.sensor # client.sensor \/ sensors[client.sensor].status # "active"
      <3>1. Answer(r, "error")
        BY <1>2, <2>3 DEF LoadSession
      <3>2. QED
        BY <1>0, <2>2, <3>1
    <2>4. CASE ~(session.status = "none" \/ session.sensor # client.sensor
                   \/ sensors[client.sensor].status # "active")
      <3>1. CASE session.status # "active"
        <4>1. Answer(r, "conflict")
          BY <1>2, <2>4, <3>1 DEF LoadSession
        <4>2. session.status = "completed"
          BY <2>4, <3>1 DEF RequestShapes
        <4>3. QED
          BY <1>0, <2>2, <4>1, <4>2
      <3>2. CASE session.status = "active"
        <4>1. requests' = [requests EXCEPT ![r].pc = "loaded", ![r].scope = session.scope] /\ UNCHANGED clientVars
          BY <1>2, <2>4, <3>2 DEF LoadSession
        <4>2. Becomes(r, row)
          BY <2>1, <4>1 DEF Becomes, RequestShapes
        <4> HIDE DEF row
        <4>3. QED
          BY <2>1, <2>2, <3>2, <4>1, <4>2
      <3>3. QED
        BY <3>1, <3>2
    <2>5. QED
      BY <2>3, <2>4
  <1>3. ASSUME Store(r)
        PROVE  /\ requests[r].pc = "loaded" /\ Answer(r, "ok") /\ Becomes(r, Free)
               /\ UNCHANGED session
               /\ \/ (\E i \in DOMAIN events : events[i].id = requests[r].event) /\ UNCHANGED <<events, late>>
                  \/ /\ \E record : events' = Append(events, record) /\ record.id = requests[r].event
                     /\ late' = IF session.status = "completed" THEN late + 1 ELSE late
    <2> DEFINE e == requests[r].event
               ev == Minimized(e)
               decision == Decide(ev, requests[r].scope)
               duplicate == \E i \in DOMAIN events : events[i].id = e
               record == [id |-> e, type |-> ev.type, path |-> ev.path, tool |-> ev.tool,
                          resource |-> ev.resource, decoy |-> decision.decoy, class |-> decision.class,
                          violation |-> decision.violation]
    <2>1. /\ requests[r].pc = "loaded" /\ Answer(r, "ok") /\ UNCHANGED session
          /\ IF duplicate THEN UNCHANGED <<events, late>>
             ELSE /\ events' = Append(events, record)
                  /\ late' = IF session.status = "completed" THEN late + 1 ELSE late
      BY <1>3 DEF Store
    <2> HIDE DEF ev, decision
    <2>2. record.id = e
      OBVIOUS
    <2> HIDE DEF record
    <2>3. QED
      BY <1>0, <2>1, <2>2
  <1>4. QED
    BY <1>1, <1>2, <1>3

-----------------------------------------------------------------------------
(* The wrapper: what an answer does to its queue. *)

\* An event is stored, or the session over, so that nobody waits for it; now and after a step.
Safe(e) == (\E i \in DOMAIN events : events[i].id = e) \/ session.status = "completed"
SafeAfter(e) == (\E i \in DOMAIN events' : events'[i].id = e) \/ session'.status = "completed"

\* The head of a queue and the rest.
LEMMA ToSetTail ==
  ASSUME NEW S, NEW q \in Seq(S), q # <<>>
  PROVE  /\ ToSet(q) = {Head(q)} \cup ToSet(Tail(q)) /\ Tail(q) \in Seq(S) /\ Head(q) \in S
         /\ Len(q) \in Nat \ {0} /\ Len(Tail(q)) = Len(q) - 1
  <1>1. Tail(q) \in Seq(S) /\ Head(q) = q[1] /\ Head(q) \in S /\ Len(q) \in Nat \ {0} /\ Len(Tail(q)) = Len(q) - 1
    OBVIOUS
  <1>2. \A i \in 1..Len(Tail(q)) : Tail(q)[i] = q[i + 1]
    OBVIOUS
  <1>3. ToSet(Tail(q)) \subseteq ToSet(q) /\ Head(q) \in ToSet(q)
    <2>1. Head(q) \in ToSet(q)
      BY <1>1 DEF ToSet
    <2>2. ASSUME NEW x \in ToSet(Tail(q)) PROVE x \in ToSet(q)
      <3>1. PICK i \in 1..Len(Tail(q)) : x = Tail(q)[i]
        BY <1>1 DEF ToSet
      <3>2. i + 1 \in 1..Len(q) /\ x = q[i + 1]
        BY <1>1, <1>2, <3>1
      <3>3. \E j \in DOMAIN q : q[j] = x
        BY <3>2
      <3>4. QED
        BY <3>3 DEF ToSet
    <2>3. QED
      BY <2>1, <2>2
  <1>4. ASSUME NEW x \in ToSet(q) PROVE x = Head(q) \/ x \in ToSet(Tail(q))
    <2>1. PICK i \in 1..Len(q) : x = q[i]
      BY DEF ToSet
    <2>2. CASE i = 1
      BY <1>1, <2>1, <2>2
    <2>3. CASE i # 1
      <3>1. i - 1 \in 1..Len(Tail(q)) /\ Tail(q)[i - 1] = x
        BY <1>1, <1>2, <2>1, <2>3
      <3>2. DOMAIN Tail(q) = 1..Len(Tail(q))
        BY <1>1
      <3>3. \E j \in DOMAIN Tail(q) : Tail(q)[j] = x
        BY <3>1, <3>2
      <3>4. QED
        BY <3>3 DEF ToSet
    <2>4. QED
      BY <2>2, <2>3
  <1>5. QED
    BY <1>1, <1>3, <1>4

\* A queue with one more.
LEMMA ToSetAppend ==
  ASSUME NEW S, NEW q \in Seq(S), NEW x
  PROVE  ToSet(Append(q, x)) = ToSet(q) \cup {x} /\ Append(q, x) \in Seq(S \cup {x})
  <1> DEFINE T == S \cup {x}
             a == Append(q, x)
  <1>1. q \in Seq(T) /\ x \in T
    OBVIOUS
  <1> HIDE DEF T
  <1>2. a \in Seq(T) /\ Len(a) = Len(q) + 1 /\ a[Len(q) + 1] = x /\ \A i \in 1..Len(q) : a[i] = q[i]
    BY <1>1
  <1>3. Len(q) \in Nat /\ DOMAIN q = 1..Len(q) /\ DOMAIN a = 1..(Len(q) + 1)
    BY <1>1, <1>2
  <1> HIDE DEF a
  <1>4. ToSet(q) \subseteq ToSet(a) /\ x \in ToSet(a)
    BY <1>2, <1>3 DEF ToSet
  <1>5. ASSUME NEW y \in ToSet(a) PROVE y \in ToSet(q) \cup {x}
    <2>1. PICK i \in 1..(Len(q) + 1) : y = a[i]
      BY <1>3 DEF ToSet
    <2>2. i = Len(q) + 1 \/ i \in 1..Len(q)
      BY <1>3
    <2>3. QED
      BY <1>2, <1>3, <2>1, <2>2 DEF ToSet
  <1>6. QED
    BY <1>2, <1>4, <1>5 DEF a, T

\* The stored events only grow.
LEMMA EventsGrow ==
  ASSUME events \in Seq(ToSet(events)), NEW record, events' = Append(events, record)
  PROVE  /\ events' \in Seq(ToSet(events'))
         /\ \E i \in DOMAIN events' : events'[i].id = record.id
         /\ \A e : (\E i \in DOMAIN events : events[i].id = e) => \E i \in DOMAIN events' : events'[i].id = e
  <1>1. ToSet(events') = ToSet(events) \cup {record} /\ events' \in Seq(ToSet(events) \cup {record})
    BY ToSetAppend
  <1>2. \A e : (\E i \in DOMAIN events : events[i].id = e) <=> \E x \in ToSet(events) : x.id = e
    BY DEF ToSet
  <1>3. \A e : (\E i \in DOMAIN events' : events'[i].id = e) <=> \E x \in ToSet(events') : x.id = e
    BY DEF ToSet
  <1>4. QED
    BY <1>1, <1>2, <1>3

\* The calls of the wrapper, without the request that it waits for.
CallShape ==
  /\ queue \in Seq(EventIds) /\ client \in ClientRows
  /\ client.pc \in {"idle", "ready"} => client.new = None
  /\ client.pc = "flush" => client.left \in 1..Len(queue)
  /\ client.pc = "emit" => client.new \in EventIds

\* An answer or a failure reaches the wrapper: what it does not take for delivered stays in the
\* queue, is queued, or makes room for it.
LEMMA ReturnKeeps ==
  ASSUME CallInv, AccountedFor, client.on # None, NEW answer, Return(answer), emitted' = emitted,
         Delivered(answer) => SafeAfter(Current), \A e : Safe(e) => SafeAfter(e)
  PROVE  CallShape' /\ client'.on = None /\ AccountedFor'
  <1>0. /\ client.pc \in {"flush", "emit"} /\ client.left \in Nat /\ client.new \in EventIds \cup {None}
        /\ queue \in Seq(EventIds) /\ client \in ClientRows /\ None \notin EventIds
        /\ (client.pc = "emit" => client.new \in EventIds)
    BY NoneAssumption DEF CallInv, ClientRows
  <1>1. \A e \in emitted : Safe(e) \/ e \in ToSet(queue) \/ e = client.new \/ e \in dropped
    BY DEF AccountedFor, Safe
  <1>2. (\A e \in emitted : SafeAfter(e) \/ e \in ToSet(queue') \/ e = client'.new \/ e \in dropped') => AccountedFor'
    BY DEF AccountedFor, SafeAfter
  <1>3. CASE client.pc = "flush"
    <2> DEFINE goesOn == Delivered(answer) /\ client.left > 1
               step == IF goesOn THEN "flush" ELSE IF client.new = None THEN "ready" ELSE "emit"
               left == IF goesOn THEN client.left - 1 ELSE 0
    <2>1. /\ queue' = IF Delivered(answer) THEN Tail(queue) ELSE queue
          /\ client' = [client EXCEPT !.pc = step, !.left = left, !.on = None] /\ dropped' = dropped
      BY <1>3 DEF Return, AfterFlush
    <2>2. client.left \in 1..Len(queue) /\ queue # <<>> /\ Len(queue) \in Nat
      BY <1>0, <1>3 DEF CallInv
    <2>3. step \in {"flush", "ready", "emit"} /\ left \in Nat
      BY <1>0
    <2>4. /\ client' \in ClientRows /\ client'.pc = step /\ client'.left = left /\ client'.on = None
          /\ client'.new = client.new
      <3> HIDE DEF step, left
      <3>1. QED
        BY <1>0, <2>1, <2>3 DEF ClientRows
    <2>5. /\ queue' \in Seq(EventIds) /\ ToSet(queue) = {Head(queue)} \cup ToSet(Tail(queue))
          /\ Len(Tail(queue)) = Len(queue) - 1
      BY <1>0, <2>1, <2>2, ToSetTail
    <2>6. step = "flush" => left \in 1..Len(queue')
      BY <2>1, <2>2, <2>5
    <2>7. CallShape'
      <3>1. step = "ready" => client.new = None
        OBVIOUS
      <3>2. step = "emit" => client.new \in EventIds
        BY <1>0
      <3>3. step # "idle"
        OBVIOUS
      <3> HIDE DEF step, left
      <3>4. QED
        BY <2>4, <2>5, <2>6, <3>1, <3>2, <3>3 DEF CallShape
    <2>8. \A e \in emitted : SafeAfter(e) \/ e \in ToSet(queue') \/ e = client'.new \/ e \in dropped'
      <3>1. Delivered(answer) => SafeAfter(Head(queue))
        BY <1>3 DEF Current
      <3>2. QED
        BY <1>1, <2>1, <2>4, <2>5, <3>1
    <2>9. QED
      BY <1>2, <2>4, <2>7, <2>8
  <1>4. CASE client.pc = "emit"
    <2>1. /\ IF Delivered(answer) THEN UNCHANGED <<queue, dropped>> ELSE Enqueue(client.new)
          /\ client' = [client EXCEPT !.pc = "ready", !.new = None, !.left = 0, !.on = None]
      BY <1>4 DEF Return, Ready
    <2>2. /\ client' \in ClientRows /\ client'.pc = "ready" /\ client'.new = None /\ client'.on = None
      BY <1>0, <2>1 DEF ClientRows
    <2>3. CASE Delivered(answer) \/ client.new \in ToSet(queue)
      <3>1. queue' = queue /\ dropped' = dropped
        BY <2>1, <2>3 DEF Enqueue
      <3>2. SafeAfter(client.new) \/ client.new \in ToSet(queue)
        BY <1>4, <2>3 DEF Current
      <3>3. \A e \in emitted : SafeAfter(e) \/ e \in ToSet(queue') \/ e = client'.new \/ e \in dropped'
        BY <1>1, <3>1, <3>2
      <3>4. QED
        BY <1>0, <1>2, <2>2, <3>1, <3>3 DEF CallShape
    <2>4. CASE ~Delivered(answer) /\ client.new \notin ToSet(queue)
      <3> DEFINE full == Len(queue) = QueueLimit
                 kept == IF full THEN Tail(queue) ELSE queue
      <3>1. queue' = Append(kept, client.new) /\ dropped' = IF full THEN dropped \cup {Head(queue)} ELSE dropped
        BY <2>1, <2>4 DEF Enqueue
      <3>2. full => queue # <<>>
        BY <1>0, BoundAssumption
      <3>3. kept \in Seq(EventIds) /\ (full => ToSet(queue) = {Head(queue)} \cup ToSet(kept))
            /\ (~full => kept = queue)
        BY <1>0, <3>2, ToSetTail
      <3>4. queue' \in Seq(EventIds) /\ ToSet(queue') = ToSet(kept) \cup {client.new}
        <4>1. EventIds \cup {client.new} = EventIds
          BY <1>0, <1>4
        <4> HIDE DEF kept
        <4>2. ToSet(queue') = ToSet(kept) \cup {client.new} /\ queue' \in Seq(EventIds \cup {client.new})
          BY <3>1, <3>3, ToSetAppend
        <4>3. QED
          BY <4>1, <4>2
      <3>5. \A e \in emitted : SafeAfter(e) \/ e \in ToSet(queue') \/ e = client'.new \/ e \in dropped'
        <4> HIDE DEF kept, full
        <4>1. QED
          BY <1>1, <3>1, <3>3, <3>4
      <3>6. QED
        BY <1>2, <2>2, <3>4, <3>5 DEF CallShape
    <2>5. QED
      BY <2>3, <2>4
  <1>5. QED
    BY <1>0, <1>3, <1>4

-----------------------------------------------------------------------------
(* Nothing is lost silently. *)

\* The initial state.
LEMMA ReportInit == Init => ReportInv
  <1> SUFFICES ASSUME Init PROVE ReportInv
    OBVIOUS
  <1>1. RequestShapes
    BY FreeShape DEF Init, RequestShapes, NoSession
  <1>2. Idle \in ClientRows /\ Idle.pc = "idle" /\ Idle.new = None /\ Idle.on = None
    BY DEF Idle, ClientRows
  <1>3. CallInv
    BY <1>2 DEF Init, CallInv
  <1>4. QED
    BY <1>1, <1>3 DEF Init, ReportInv, AccountedFor

\* The answers that the wrapper takes for delivery.
LEMMA DeliveredAnswers ==
  Delivered("ok") /\ Delivered("conflict") /\ ~Delivered("error") /\ ~Delivered("none")
  BY DEF Delivered

\* Steps that leave the wrapper, the requests and the stored events alone.
LEMMA ReportQuiet ==
  ASSUME ReportInv, UNCHANGED <<events, requests, client, queue, emitted, dropped>>,
         DOMAIN session' = {"status", "sensor", "scope", "summary"},
         session'.status \in {"none", "active", "completed"},
         session.status = "completed" => session'.status = "completed"
  PROVE  ReportInv'
  <1>1. RequestShapes'
    BY DEF ReportInv, RequestShapes
  <1>2. CallInv'
    BY DEF ReportInv, CallInv, Current
  <1>3. AccountedFor'
    BY DEF ReportInv, AccountedFor
  <1>4. QED
    BY <1>1, <1>2, <1>3 DEF ReportInv

\* The steps of enrolment, of the session and of decoys.
LEMMA ReportServer ==
  ASSUME ReportInv,
         \/ \E p \in Enrollers, t \in Tokens : FindToken(p, t)
         \/ \E p \in Enrollers : Consume(p)
         \/ \E t \in Tokens : Expire(t)
         \/ \E s \in Sensors : Revoke(s)
         \/ ReadEvents \/ CompleteSession
         \/ \E p \in DecoyPaths : DecoyChanges(p)
         \/ UNCHANGED vars
  PROVE  ReportInv'
  <1>1. UNCHANGED <<events, requests, client, queue, emitted, dropped>>
    BY DEF FindToken, Consume, Expire, Revoke, ReadEvents, CompleteSession, DecoyChanges, vars, serverVars, clientVars
  <1>2. CASE CompleteSession
    <2> DEFINE summary == Summary(closing, Cardinality(violations))
    <2>1. session' = [session EXCEPT !.status = "completed", !.scope = None, !.summary = summary]
      BY <1>2 DEF CompleteSession
    <2> HIDE DEF summary
    <2>2. DOMAIN session' = {"status", "sensor", "scope", "summary"} /\ session'.status = "completed"
      BY <2>1 DEF ReportInv, RequestShapes
    <2>3. QED
      BY <1>1, <2>2, ReportQuiet
  <1>3. CASE ~CompleteSession
    <2>1. session' = session
      BY <1>3 DEF FindToken, Consume, Expire, Revoke, ReadEvents, DecoyChanges, vars, serverVars
    <2>2. QED
      BY <1>1, <2>1, ReportQuiet DEF ReportInv, RequestShapes
  <1>4. QED
    BY <1>2, <1>3

\* The session is created, or its creation is lost.
LEMMA ReportStart ==
  ASSUME ReportInv, NEW s \in Sensors, StartSession(s) PROVE ReportInv'
  <1>1. /\ session = NoSession /\ client = Idle /\ client' = [Idle EXCEPT !.pc = "ready", !.sensor = s]
        /\ UNCHANGED <<events, requests, queue, emitted, dropped>>
        /\ \/ session' = session
           \/ \E scope \in Scopes : session' = [status |-> "active", sensor |-> s, scope |-> scope, summary |-> None]
    BY DEF StartSession
  <1>2. DOMAIN session' = {"status", "sensor", "scope", "summary"} /\ session'.status \in {"none", "active"}
    BY <1>1 DEF NoSession
  <1>3. client' \in ClientRows /\ client'.pc = "ready" /\ client'.new = None /\ client'.on = None
    BY <1>1 DEF Idle, ClientRows
  <1>4. client.new = None /\ session.status = "none"
    BY <1>1 DEF Idle, NoSession
  <1>5. RequestShapes'
    BY <1>1, <1>2 DEF ReportInv, RequestShapes
  <1>6. CallInv'
    BY <1>1, <1>3 DEF ReportInv, CallInv
  <1>7. AccountedFor'
    BY <1>1, <1>3, <1>4 DEF ReportInv, AccountedFor
  <1>8. QED
    BY <1>5, <1>6, <1>7 DEF ReportInv

\* The wrapper is called, posts, or its process ends.
LEMMA ReportCalls ==
  ASSUME ReportInv,
         (\E e \in EventIds : EmitEvent(e)) \/ Finish \/ Exit \/ \E r \in Requests : Post(r)
  PROVE  ReportInv'
  <1>0. /\ client \in ClientRows /\ queue \in Seq(EventIds) /\ Len(queue) \in Nat /\ None \notin EventIds
        /\ None \notin Requests /\ emitted \subseteq EventIds
    BY NoneAssumption DEF ReportInv, CallInv
  <1>1. ASSUME NEW e \in EventIds \cup {None}, client.pc = "ready", Call(e), e = None => Len(queue) > 0,
               emitted' = emitted \cup ({e} \ {None}), UNCHANGED <<session, events, requests, queue, dropped>>
        PROVE  ReportInv'
    <2> DEFINE step == IF Len(queue) > 0 THEN "flush" ELSE "emit"
    <2>1. client' = [client EXCEPT !.pc = step, !.new = e, !.left = Len(queue)]
      BY <1>1 DEF Call
    <2>2. step \in {"flush", "emit"} /\ (step = "flush" => Len(queue) \in 1..Len(queue)) /\ (step = "emit" => e # None)
      BY <1>0, <1>1
    <2> HIDE DEF step
    <2>3. /\ client' \in ClientRows /\ client'.pc = step /\ client'.new = e /\ client'.left = Len(queue)
          /\ client'.on = client.on
      BY <1>0, <2>1, <2>2 DEF ClientRows
    <2>4. client.new = None /\ client.on = None
      BY <1>1 DEF ReportInv, CallInv
    <2>5. RequestShapes'
      BY <1>1 DEF ReportInv, RequestShapes
    <2>6. CallInv'
      BY <1>0, <1>1, <2>2, <2>3, <2>4 DEF ReportInv, CallInv
    <2>7. AccountedFor'
      <3>1. \A x \in emitted' : x = client'.new \/ (x \in emitted /\ x # None)
        BY <1>0, <1>1, <2>3
      <3>2. QED
        BY <1>1, <2>4, <3>1 DEF ReportInv, AccountedFor
    <2>8. QED
      BY <2>5, <2>6, <2>7 DEF ReportInv
  <1>2. ASSUME NEW e \in EventIds, EmitEvent(e) PROVE ReportInv'
    <2>1. /\ client.pc = "ready" /\ Call(e) /\ emitted' = emitted \cup {e}
          /\ UNCHANGED <<session, events, requests, queue, dropped>>
      BY <1>2 DEF EmitEvent, serverVars
    <2>2. {e} \ {None} = {e} /\ e # None
      BY <1>0
    <2>3. QED
      BY <1>1, <2>1, <2>2
  <1>3. CASE Finish
    <2>1. /\ client.pc = "ready" /\ Call(None) /\ Len(queue) > 0
          /\ UNCHANGED <<session, events, requests, queue, dropped, emitted>>
      BY <1>3 DEF Finish, serverVars
    <2>2. emitted' = emitted \cup ({None} \ {None})
      BY <2>1
    <2>3. QED
      BY <1>1, <2>1, <2>2
  <1>4. CASE Exit
    <2>1. /\ client.pc = "ready" /\ queue' = <<>> /\ dropped' = dropped \cup ToSet(queue)
          /\ UNCHANGED <<session, events, requests, client, emitted>>
      BY <1>4 DEF Exit, serverVars
    <2>2. RequestShapes'
      BY <2>1 DEF ReportInv, RequestShapes
    <2>3. client.on = None
      BY <2>1 DEF ReportInv, CallInv
    <2>4. CallInv'
      BY <2>1, <2>3 DEF ReportInv, CallInv
    <2>5. AccountedFor'
      BY <2>1 DEF ReportInv, AccountedFor
    <2>6. QED
      BY <2>2, <2>4, <2>5 DEF ReportInv
  <1>5. ASSUME NEW r \in Requests, Post(r) PROVE ReportInv'
    <2> DEFINE row == [Free EXCEPT !.pc = "sent", !.event = Current]
    <2>1. /\ client.pc \in {"flush", "emit"} /\ client' = [client EXCEPT !.on = r]
          /\ requests' = [requests EXCEPT ![r] = row]
          /\ UNCHANGED <<session, events, queue, emitted, dropped>>
      BY <1>5 DEF Post, Current, serverVars
    <2>2. DOMAIN row = {"pc", "event", "scope"} /\ row.pc = "sent" /\ row.event = Current
      BY DEF Free
    <2> HIDE DEF row
    <2>3. Becomes(r, row)
      BY <2>1, <2>2 DEF Becomes
    <2>4. requests'[r] = row /\ RequestShapes'
      BY <2>1, <2>3, BecomesShape DEF ReportInv, RequestShapes
    <2>5. /\ client' \in ClientRows /\ client'.pc = client.pc /\ client'.new = client.new
          /\ client'.left = client.left /\ client'.on = r
      BY <1>0, <2>1 DEF ClientRows
    <2>6. Current' = Current
      BY <2>1, <2>5 DEF Current
    <2>7. CallInv'
      BY <2>1, <2>2, <2>4, <2>5, <2>6 DEF ReportInv, CallInv
    <2>8. AccountedFor'
      BY <2>1, <2>5 DEF ReportInv, AccountedFor
    <2>9. QED
      BY <2>4, <2>7, <2>8 DEF ReportInv
  <1>6. QED
    BY <1>2, <1>3, <1>4, <1>5

\* A request ends, and its answer reaches the wrapper if it still waits for it.
LEMMA ReportAnswer ==
  ASSUME ReportInv, NEW r \in Requests, Becomes(r, Free), requests[r].pc # "free", NEW answer,
         IF client.on = r THEN Return(answer) ELSE UNCHANGED <<client, queue, dropped>>,
         emitted' = emitted, session' = session, events' \in Seq(ToSet(events')),
         Delivered(answer) => SafeAfter(requests[r].event), \A e : Safe(e) => SafeAfter(e)
  PROVE  ReportInv'
  <1>1. RequestShapes' /\ \A q \in Requests : q # r => requests'[q] = requests[q]
    BY BecomesShape DEF ReportInv, RequestShapes
  <1>2. client.on \in Requests \cup {None} /\ None \notin Requests /\ emitted \subseteq EventIds
    BY NoneAssumption DEF ReportInv, CallInv, ClientRows
  <1>3. CASE client.on = r
    <2>1. requests[r].event = Current /\ client.on # None
      BY <1>2, <1>3 DEF ReportInv, CallInv
    <2>2. CallShape' /\ client'.on = None /\ AccountedFor'
      BY <1>3, <2>1, ReturnKeeps DEF ReportInv
    <2>3. CallInv'
      BY <1>2, <2>2 DEF CallShape, CallInv
    <2>4. QED
      BY <1>1, <2>2, <2>3 DEF ReportInv
  <1>4. CASE client.on # r
    <2>1. UNCHANGED <<client, queue, dropped>>
      BY <1>4
    <2>2. client.on # None => requests'[client.on] = requests[client.on]
      BY <1>1, <1>2, <1>4
    <2>3. CallInv'
      BY <1>2, <2>1, <2>2 DEF ReportInv, CallInv, Current
    <2>4. AccountedFor'
      BY <2>1 DEF ReportInv, AccountedFor, Safe, SafeAfter
    <2>5. QED
      BY <1>1, <2>3, <2>4 DEF ReportInv
  <1>5. QED
    BY <1>3, <1>4

\* A request moves on.
LEMMA ReportMoves ==
  ASSUME ReportInv, NEW r \in Requests, NEW row, Becomes(r, row), row.pc # "free", row.event = requests[r].event,
         UNCHANGED <<session, events, clientVars>>
  PROVE  ReportInv'
  <1>1. requests'[r] = row /\ RequestShapes' /\ \A q \in Requests : q # r => requests'[q] = requests[q]
    BY BecomesShape DEF ReportInv, RequestShapes
  <1>2. client.on \in Requests \cup {None} /\ None \notin Requests /\ UNCHANGED <<client, queue, emitted, dropped>>
    BY NoneAssumption DEF ReportInv, CallInv, ClientRows, clientVars
  <1>3. client.on # None => requests'[client.on].pc # "free" /\ requests'[client.on].event = Current
    BY <1>1, <1>2 DEF ReportInv, CallInv
  <1>4. CallInv'
    BY <1>2, <1>3 DEF ReportInv, CallInv, Current
  <1>5. AccountedFor'
    BY <1>2 DEF ReportInv, AccountedFor
  <1>6. QED
    BY <1>1, <1>4, <1>5 DEF ReportInv

\* The steps of a request on the server: an event is stored before its request is answered so,
\* and a conflict is the answer of a session that is over.
LEMMA ReportIngest ==
  ASSUME ReportInv, NEW r \in Requests, Ingest(r) PROVE ReportInv'
  <1>0. RequestShapes /\ events \in Seq(ToSet(events))
    BY DEF ReportInv, CallInv
  <1>1. UNCHANGED serverVars =>
          /\ UNCHANGED <<session, events>> /\ events' \in Seq(ToSet(events')) /\ \A e : Safe(e) => SafeAfter(e)
    BY <1>0 DEF serverVars, Safe, SafeAfter
  <1>2. ASSUME NEW answer, Answer(r, answer)
        PROVE  /\ emitted' = emitted
               /\ IF client.on = r THEN Return(answer) ELSE UNCHANGED <<client, queue, dropped>>
    BY <1>2 DEF Answer
  <1>3. CASE Authenticate(r) \/ LoadSession(r)
    <2>1. UNCHANGED serverVars /\ requests[r].pc # "free"
      BY <1>0, <1>3, IngestShape
    <2>2. \/ \E row : Becomes(r, row) /\ row.pc # "free" /\ row.event = requests[r].event /\ UNCHANGED clientVars
          \/ Answer(r, "error") /\ Becomes(r, Free)
          \/ Answer(r, "conflict") /\ Becomes(r, Free) /\ session.status = "completed"
      BY <1>0, <1>3, IngestShape
    <2>3. CASE \E row : Becomes(r, row) /\ row.pc # "free" /\ row.event = requests[r].event /\ UNCHANGED clientVars
      BY <1>1, <2>1, <2>3, ReportMoves
    <2>4. CASE Answer(r, "error") /\ Becomes(r, Free)
      <3>1. ~Delivered("error") /\ emitted' = emitted
            /\ IF client.on = r THEN Return("error") ELSE UNCHANGED <<client, queue, dropped>>
        BY <1>2, <2>4, DeliveredAnswers
      <3>2. QED
        BY <1>1, <2>1, <2>4, <3>1, ReportAnswer
    <2>5. CASE Answer(r, "conflict") /\ Becomes(r, Free) /\ session.status = "completed"
      <3>1. emitted' = emitted
            /\ IF client.on = r THEN Return("conflict") ELSE UNCHANGED <<client, queue, dropped>>
        BY <1>2, <2>5
      <3>2. SafeAfter(requests[r].event)
        BY <1>1, <2>1, <2>5 DEF SafeAfter
      <3>3. QED
        BY <1>1, <2>1, <2>5, <3>1, <3>2, ReportAnswer
    <2>6. QED
      BY <2>2, <2>3, <2>4, <2>5
  <1>4. CASE Store(r)
    <2>1. requests[r].pc # "free" /\ Answer(r, "ok") /\ Becomes(r, Free) /\ session' = session
      BY <1>0, <1>4, IngestShape
    <2>2. /\ events' \in Seq(ToSet(events')) /\ \E i \in DOMAIN events' : events'[i].id = requests[r].event
          /\ \A e : (\E i \in DOMAIN events : events[i].id = e) => \E i \in DOMAIN events' : events'[i].id = e
      <3>1. CASE (\E i \in DOMAIN events : events[i].id = requests[r].event) /\ UNCHANGED events
        BY <1>0, <3>1
      <3>2. ASSUME NEW record, events' = Append(events, record), record.id = requests[r].event
            PROVE  /\ events' \in Seq(ToSet(events')) /\ \E i \in DOMAIN events' : events'[i].id = requests[r].event
                   /\ \A e : (\E i \in DOMAIN events : events[i].id = e) => \E i \in DOMAIN events' : events'[i].id = e
        BY <1>0, <3>2, EventsGrow
      <3>3. QED
        BY <1>0, <1>4, <3>1, <3>2, IngestShape
    <2>3. SafeAfter(requests[r].event) /\ \A e : Safe(e) => SafeAfter(e)
      BY <2>1, <2>2 DEF Safe, SafeAfter
    <2>4. emitted' = emitted /\ IF client.on = r THEN Return("ok") ELSE UNCHANGED <<client, queue, dropped>>
      BY <1>2, <2>1
    <2>5. QED
      BY <2>1, <2>2, <2>3, <2>4, ReportAnswer
  <1>5. CASE Abort(r)
    <2>1. /\ Becomes(r, Free) /\ requests[r].pc # "free" /\ emitted' = emitted /\ UNCHANGED serverVars
          /\ IF client.on = r THEN Return("error") ELSE UNCHANGED <<client, queue, dropped>>
      BY <1>5, FreeShape DEF Abort, Holders, Becomes
    <2>2. QED
      BY <1>1, <2>1, DeliveredAnswers, ReportAnswer
  <1>6. QED
    BY <1>3, <1>4, <1>5 DEF Ingest

\* The transport gives up.
LEMMA ReportGiveUp ==
  ASSUME ReportInv, GiveUp PROVE ReportInv'
  <1>1. client.on # None /\ Return("none") /\ emitted' = emitted /\ UNCHANGED serverVars
        /\ (requests' = requests \/ requests' = [requests EXCEPT ![client.on] = Free])
    BY DEF GiveUp
  <1>2. client.on \in Requests /\ emitted \subseteq EventIds
    BY <1>1 DEF ReportInv, CallInv, ClientRows
  <1>3. UNCHANGED <<session, events>>
    BY <1>1 DEF serverVars
  <1>4. RequestShapes'
    <2>1. CASE requests' = requests
      BY <1>3, <2>1 DEF ReportInv, RequestShapes
    <2>2. CASE requests' = [requests EXCEPT ![client.on] = Free]
      <3>1. Becomes(client.on, Free)
        BY <2>2, FreeShape DEF Becomes
      <3>2. QED
        BY <1>2, <1>3, <3>1, BecomesShape DEF ReportInv, RequestShapes
    <2>3. QED
      BY <1>1, <2>1, <2>2
  <1>5. \A e : Safe(e) => SafeAfter(e)
    BY <1>3 DEF Safe, SafeAfter
  <1>6. CallShape' /\ client'.on = None /\ AccountedFor'
    BY <1>1, <1>5, DeliveredAnswers, ReturnKeeps DEF ReportInv
  <1>7. CallInv'
    BY <1>1, <1>2, <1>3, <1>6 DEF ReportInv, CallShape, CallInv
  <1>8. QED
    BY <1>4, <1>6, <1>7 DEF ReportInv

\* Every step keeps the invariant.
LEMMA ReportStep == ReportInv /\ [Next]_vars => ReportInv'
  BY ReportServer, ReportStart, ReportCalls, ReportIngest, ReportGiveUp DEF Next

\* No event is lost silently: what the agent has emitted is stored, queued or being reported,
\* unless the queue overflowed, its process ended or the session was completed.
THEOREM EventsAreAccountedFor == Spec => []AccountedFor
  <1>1. ReportInv => AccountedFor
    BY DEF ReportInv
  <1>2. QED
    BY <1>1, ReportInit, ReportStep, PTL DEF Spec

-----------------------------------------------------------------------------
(* Events after the end of the session. *)

\* The initial state.
LEMMA LateInit == Init => LateInv
  <1> SUFFICES ASSUME Init PROVE LateInv
    OBVIOUS
  <1>1. RequestShapes
    BY ReportInit DEF ReportInv
  <1>2. Holders = {} /\ late = 0
    BY FreeShape DEF Init, Holders
  <1>3. QED
    BY <1>1, <1>2 DEF LateInv

\* Steps in which no request loads the session and no event is late.
LEMMA LateQuiet ==
  ASSUME LateInv, RequestShapes', Holders' \subseteq Holders, late' = late,
         session'.status # "completed" => session.status # "completed"
  PROVE  LateInv'
  BY DEF LateInv

\* A request whose row becomes one that is not loaded.
LEMMA FewerHolders ==
  ASSUME RequestShapes, NEW r \in Requests, NEW row, Becomes(r, row), row.pc # "loaded"
  PROVE  Holders' = Holders \ {r}
  BY BecomesShape DEF Holders

\* Every step keeps it: the lock of the key's row keeps a second request from loading the
\* session, and after its end none does.
LEMMA LateStep == ReportInv /\ LateInv /\ [Next]_vars => LateInv'
  <1> SUFFICES ASSUME ReportInv, LateInv, [Next]_vars PROVE LateInv'
    OBVIOUS
  <1>0. RequestShapes /\ RequestShapes'
    BY ReportStep DEF ReportInv
  <1>1. ASSUME UNCHANGED <<requests, late>>, session'.status # "completed" => session.status # "completed"
        PROVE  LateInv'
    <2>1. Holders' = Holders
      BY <1>1 DEF Holders
    <2>2. QED
      BY <1>0, <1>1, <2>1, LateQuiet
  <1>2. ASSUME NEW r \in Requests, NEW row, Becomes(r, row), row.pc # "loaded", UNCHANGED <<session, late>>
        PROVE  LateInv'
    <2>1. Holders' \subseteq Holders
      BY <1>0, <1>2, FewerHolders
    <2>2. QED
      BY <1>0, <1>2, <2>1, LateQuiet
  <1>3. CASE \/ \E p \in Enrollers, t \in Tokens : FindToken(p, t)
             \/ \E p \in Enrollers : Consume(p)
             \/ \E t \in Tokens : Expire(t)
             \/ \E s \in Sensors : Revoke(s)
             \/ ReadEvents \/ (\E p \in DecoyPaths : DecoyChanges(p))
             \/ (\E e \in EventIds : EmitEvent(e)) \/ Finish \/ Exit
             \/ UNCHANGED vars
    <2>1. UNCHANGED <<requests, late, session>>
      BY <1>3 DEF FindToken, Consume, Expire, Revoke, ReadEvents, DecoyChanges, EmitEvent, Finish, Exit, vars, serverVars
    <2>2. QED
      BY <1>1, <2>1
  <1>4. ASSUME NEW s \in Sensors, StartSession(s) PROVE LateInv'
    <2>1. session = NoSession /\ UNCHANGED <<requests, late>>
      BY <1>4 DEF StartSession
    <2>2. session.status # "completed"
      BY <2>1 DEF NoSession
    <2>3. QED
      BY <1>1, <2>1, <2>2
  <1>5. CASE CompleteSession
    <2> DEFINE summary == Summary(closing, Cardinality(violations))
    <2>1. session' = [session EXCEPT !.status = "completed", !.scope = None, !.summary = summary]
          /\ UNCHANGED <<requests, late>>
      BY <1>5 DEF CompleteSession
    <2> HIDE DEF summary
    <2>2. session'.status = "completed"
      BY <1>0, <2>1 DEF RequestShapes
    <2>3. QED
      BY <1>1, <2>1, <2>2
  <1>6. CASE GiveUp
    <2>1. /\ client.on # None /\ UNCHANGED <<session, late>>
          /\ (requests' = requests \/ requests' = [requests EXCEPT ![client.on] = Free])
      BY <1>6 DEF GiveUp, serverVars
    <2>2. client.on \in Requests
      BY <2>1 DEF ReportInv, CallInv, ClientRows
    <2>3. CASE requests' = requests
      BY <1>1, <2>1, <2>3
    <2>4. CASE requests' = [requests EXCEPT ![client.on] = Free]
      <3>1. Becomes(client.on, Free) /\ Free.pc # "loaded"
        BY <2>4, FreeShape DEF Becomes
      <3>2. QED
        BY <1>2, <2>1, <2>2, <3>1
    <2>5. QED
      BY <2>1, <2>3, <2>4
  <1>7. ASSUME NEW r \in Requests, Post(r) PROVE LateInv'
    <2> DEFINE row == [Free EXCEPT !.pc = "sent", !.event = Current]
    <2>1. requests' = [requests EXCEPT ![r] = row] /\ UNCHANGED <<session, late>>
      BY <1>7 DEF Post, Current, serverVars
    <2>2. DOMAIN row = {"pc", "event", "scope"} /\ row.pc = "sent"
      BY DEF Free
    <2> HIDE DEF row
    <2>3. Becomes(r, row)
      BY <2>1, <2>2 DEF Becomes
    <2>4. QED
      BY <1>2, <2>1, <2>2, <2>3
  <1>8. ASSUME NEW r \in Requests, Authenticate(r) \/ Abort(r) PROVE LateInv'
    <2>1. (\E row : Becomes(r, row) /\ row.pc # "loaded") /\ UNCHANGED serverVars /\ late' = late
      <3>1. CASE Authenticate(r)
        BY <1>0, <3>1, IngestShape, FreeShape
      <3>2. CASE Abort(r)
        BY <3>2, FreeShape DEF Abort, Becomes
      <3>3. QED
        BY <1>8, <3>1, <3>2
    <2>2. session' = session
      BY <2>1 DEF serverVars
    <2>3. QED
      BY <1>2, <2>1, <2>2
  <1>9. ASSUME NEW r \in Requests, LoadSession(r) PROVE LateInv'
    <2>1. UNCHANGED serverVars /\ late' = late
      BY <1>0, <1>9, IngestShape
    <2>2. session' = session
      BY <2>1 DEF serverVars
    <2>3. CASE Becomes(r, Free)
      BY <1>2, <2>1, <2>2, <2>3, FreeShape
    <2>4. ASSUME NEW row, Becomes(r, row), Holders = {}, session.status = "active" PROVE LateInv'
      <3>1. Holders' \subseteq {r}
        BY <1>0, <2>4, BecomesShape DEF Holders
      <3>2. late = 0
        BY <2>4 DEF LateInv
      <3>3. QED
        BY <1>0, <2>1, <2>2, <3>1, <3>2 DEF LateInv
    <2>5. QED
      BY <1>0, <1>9, <2>3, <2>4, IngestShape
  <1>10. ASSUME NEW r \in Requests, Store(r) PROVE LateInv'
    <2>1. /\ requests[r].pc = "loaded" /\ Becomes(r, Free) /\ session' = session
          /\ late' = late \/ late' = IF session.status = "completed" THEN late + 1 ELSE late
      BY <1>0, <1>10, IngestShape
    <2>2. r \in Holders /\ Holders' = Holders \ {r}
      BY <1>0, <2>1, FewerHolders, FreeShape DEF Holders
    <2>3. Holders' = {} /\ late = 0
      BY <2>2 DEF LateInv
    <2>4. late' \in {0, 1} /\ (session'.status # "completed" => late' = 0)
      BY <2>1, <2>3
    <2>5. QED
      BY <1>0, <2>3, <2>4 DEF LateInv
  <1>11. QED
    BY <1>3, <1>4, <1>5, <1>6, <1>7, <1>8, <1>9, <1>10 DEF Next, Ingest

\* The lock that authentication takes leaves at most one request of a sensor between its check
\* that the session is active and its insert, and so at most one event after the session's end.
THEOREM OneEventMayBeLate == Spec => []AtMostOneLate
  <1>1. LateInv => AtMostOneLate
    BY DEF LateInv, AtMostOneLate
  <1>2. QED
    BY <1>1, ReportInit, ReportStep, LateInit, LateStep, PTL DEF Spec

-----------------------------------------------------------------------------
(* The rules, and what they count. *)

\* The first of the rules that hold.
FirstRule(ev, policy, active, agg) ==
  LET rules == Rules(ev, Class(ev, policy, active), policy, agg)
  IN Min({i \in DOMAIN rules : rules[i].holds})

\* A set of numbers has a least one.
LEMMA LeastNumber ==
  ASSUME NEW S, S \subseteq Nat, S # {} PROVE Min(S) \in S /\ \A i \in S : Min(S) <= i
  <1>1. PICK m \in S : \A k \in S : ~(<<k, m>> \in OpToRel(<, Nat))
    BY NatLessThanWellFounded, WFMin
  <1>2. \A k \in S : ~(k < m)
    BY <1>1 DEF OpToRel
  <1>3. \A k \in S : m <= k
    BY <1>2
  <1>4. QED
    BY <1>1, <1>3 DEF Min

\* What the rules report, and when the one on sensitive accesses holds.
LEMMA RuleTable ==
  ASSUME NEW ev, NEW class, NEW policy, NEW agg, NEW rules, rules = Rules(ev, class, policy, agg)
  PROVE  /\ DOMAIN rules = 1 .. 15
         /\ \A i \in 1 .. 15 : i # 10 => rules[i].violation # "sensitive_file_access"
         /\ rules[10].violation = "sensitive_file_access" => ~(agg.sensitive >= 1)
         /\ rules[10].holds <=> IsSensitive(class, policy) /\ agg.sensitive + 1 > policy.maxSensitive
         /\ rules[1].holds <=> ev.decoy # None \/ class = "decoy"
         /\ rules[15].holds
  <1>1. DOMAIN rules = 1 .. 15
    BY DEF Rules
  <1>2. rules[15].holds
    BY DEF Rules
  <1>3. rules[10].violation = IF agg.sensitive >= 1 THEN "repeated_sensitive_exploration" ELSE "sensitive_file_access"
    BY DEF Rules
  <1>4. rules[10].holds <=> IsSensitive(class, policy) /\ agg.sensitive + 1 > policy.maxSensitive
    BY DEF Rules
  <1>5. rules[1].holds <=> ev.decoy # None \/ class = "decoy"
    BY DEF Rules
  <1>6. /\ rules[1].violation # "sensitive_file_access" /\ rules[2].violation # "sensitive_file_access"
        /\ rules[3].violation # "sensitive_file_access" /\ rules[4].violation # "sensitive_file_access"
        /\ rules[5].violation # "sensitive_file_access" /\ rules[6].violation # "sensitive_file_access"
        /\ rules[7].violation # "sensitive_file_access" /\ rules[8].violation # "sensitive_file_access"
        /\ rules[9].violation # "sensitive_file_access" /\ rules[11].violation # "sensitive_file_access"
        /\ rules[12].violation # "sensitive_file_access" /\ rules[13].violation # "sensitive_file_access"
        /\ rules[14].violation # "sensitive_file_access"
    BY DEF Rules
  <1>7. rules[15].violation = None /\ None # "sensitive_file_access"
    BY NoneAssumption DEF Rules
  <1>8. QED
    BY <1>1, <1>2, <1>3, <1>4, <1>5, <1>6, <1>7

\* Up to the rule on sensitive accesses the counters do not matter.
LEMMA EarlierRules ==
  ASSUME NEW ev, NEW rec, rec.type = ev.type, rec.path = ev.path, rec.tool = ev.tool,
         rec.resource = ev.resource, rec.decoy = ev.decoy,
         NEW class, NEW policy, NEW agg, NEW other, NEW i \in 1 .. 9
  PROVE  Rules(ev, class, policy, agg)[i].holds <=> Rules(rec, class, policy, other)[i].holds
  <1> DEFINE a == Rules(ev, class, policy, agg)
             b == Rules(rec, class, policy, other)
  <1>1. (a[1].holds <=> b[1].holds) /\ (a[2].holds <=> b[2].holds) /\ (a[3].holds <=> b[3].holds)
    BY DEF Rules
  <1>2. (a[4].holds <=> b[4].holds) /\ (a[5].holds <=> b[5].holds) /\ (a[6].holds <=> b[6].holds)
    BY DEF Rules
  <1>3. (a[7].holds <=> b[7].holds) /\ (a[8].holds <=> b[8].holds) /\ (a[9].holds <=> b[9].holds)
    BY DEF Rules
  <1>4. QED
    BY <1>1, <1>2, <1>3

\* The first rule is one of them, it holds, and none before it does.
LEMMA FirstRuleHolds ==
  ASSUME NEW ev, NEW policy, NEW active, NEW agg,
         NEW rules, rules = Rules(ev, Class(ev, policy, active), policy, agg),
         NEW n, n = FirstRule(ev, policy, active, agg)
  PROVE  n \in 1 .. 15 /\ rules[n].holds /\ \A i \in 1 .. 15 : rules[i].holds => n <= i
  <1> DEFINE S == {i \in DOMAIN rules : rules[i].holds}
  <1>1. DOMAIN rules = 1 .. 15 /\ rules[15].holds
    BY RuleTable
  <1>2. n = Min(S) /\ S \subseteq Nat /\ S # {}
    BY <1>1 DEF FirstRule
  <1>3. Min(S) \in S /\ \A i \in S : Min(S) <= i
    <2> HIDE DEF S
    <2> QED
      BY <1>2, LeastNumber
  <1>4. QED
    BY <1>1, <1>2, <1>3

\* evaluate: what is reported as the first sensitive access, and what is counted as one.
LEMMA EvaluateFacts ==
  ASSUME NEW ev, NEW policy, NEW active, NEW agg, agg.sensitive \in Nat,
         NEW n, n = FirstRule(ev, policy, active, agg),
         NEW result, result = Evaluate(ev, policy, active, agg)
  PROVE  /\ result.agg.sensitive =
              agg.sensitive + IF n >= 10 /\ IsSensitive(Class(ev, policy, active), policy) THEN 1 ELSE 0
         /\ result.decision.violation = "sensitive_file_access" =>
              /\ n = 10 /\ agg.sensitive = 0 /\ ev.decoy = None /\ result.decision.decoy = None
              /\ IsSensitive(Class(ev, policy, active), policy)
  <1> DEFINE class == Class(ev, policy, active)
             rules == Rules(ev, class, policy, agg)
  <1>1. result.agg.sensitive = agg.sensitive + IF n >= 10 /\ IsSensitive(class, policy) THEN 1 ELSE 0
    BY DEF Evaluate, FirstRule, SensitiveRule
  <1>2. /\ result.decision.violation = rules[n].violation
        /\ n # 1 => result.decision.decoy = None
    BY DEF Evaluate, FirstRule
  <1>3. n \in 1 .. 15 /\ rules[n].holds /\ \A i \in 1 .. 15 : rules[i].holds => n <= i
    <2> HIDE DEF rules
    <2> QED
      BY FirstRuleHolds DEF rules
  <1>4. /\ \A i \in 1 .. 15 : i # 10 => rules[i].violation # "sensitive_file_access"
        /\ rules[10].violation = "sensitive_file_access" => ~(agg.sensitive >= 1)
        /\ rules[10].holds => IsSensitive(class, policy)
        /\ ev.decoy # None => rules[1].holds
    BY RuleTable
  <1> HIDE DEF rules, class
  <1>5. ASSUME result.decision.violation = "sensitive_file_access"
        PROVE  n = 10 /\ agg.sensitive = 0 /\ ev.decoy = None /\ result.decision.decoy = None /\ IsSensitive(class, policy)
    <2>1. n = 10
      BY <1>2, <1>3, <1>4, <1>5
    <2>2. ~rules[1].holds
      BY <1>3, <2>1
    <2>3. agg.sensitive = 0
      <3>1. ~(agg.sensitive >= 1)
        BY <1>2, <1>4, <1>5, <2>1
      <3>2. QED
        BY <3>1
    <2>4. QED
      BY <1>2, <1>3, <1>4, <2>1, <2>2, <2>3
  <1>6. QED
    BY <1>1, <1>5 DEF class

\* A stored event that every later evaluation counts as a sensitive access, as long as its path is
\* no decoy.
Counted(rec, policy) ==
  /\ rec.decoy = None /\ IsSensitive(Class(rec, policy, {}), policy)
  /\ FirstRule(rec, policy, {}, EmptyAggregate) = SensitiveRule

\* The class of a path that is no decoy does not depend on the decoys.
LEMMA SameClass ==
  ASSUME NEW ev, NEW policy, NEW active,
         ev.path \notin active \/ IsSensitive(Class(ev, policy, active), policy)
  PROVE  Class(ev, policy, active) = Class(ev, policy, {})
  BY DEF Class, ClassifyPath, IsSensitive, SensitiveClasses

\* The first rule on an event of the same class, once no earlier rule holds.
LEMMA SensitiveFirst ==
  ASSUME NEW ev, NEW rec, rec.type = ev.type, rec.path = ev.path, rec.tool = ev.tool,
         rec.resource = ev.resource, rec.decoy = ev.decoy,
         NEW policy, policy.maxSensitive = 0, NEW active, NEW today, NEW agg, NEW other,
         other.sensitive \in Nat, FirstRule(ev, policy, active, agg) = 10,
         Class(ev, policy, active) = Class(rec, policy, today),
         IsSensitive(Class(ev, policy, active), policy)
  PROVE  FirstRule(rec, policy, today, other) = 10
  <1> DEFINE class == Class(ev, policy, active)
             a == Rules(ev, class, policy, agg)
             b == Rules(rec, class, policy, other)
             n == FirstRule(rec, policy, today, other)
  <1>1. \A i \in 1 .. 15 : a[i].holds => 10 <= i
    BY FirstRuleHolds
  <1>2. n \in 1 .. 15 /\ b[n].holds /\ \A i \in 1 .. 15 : b[i].holds => n <= i
    BY FirstRuleHolds
  <1>3. \A i \in 1 .. 9 : a[i].holds <=> b[i].holds
    BY EarlierRules
  <1>4. b[10].holds
    <2>1. other.sensitive + 1 > policy.maxSensitive
      OBVIOUS
    <2>2. QED
      BY <2>1, RuleTable
  <1> HIDE DEF a, b, n, class
  <1>5. \A i \in 1 .. 9 : ~b[i].holds
    BY <1>1, <1>3
  <1>6. n <= 10 /\ ~(n \in 1 .. 9)
    BY <1>2, <1>4, <1>5
  <1>7. QED
    BY <1>2, <1>6 DEF n

\* The first sensitive access is counted from then on ...
LEMMA FirstIsCounted ==
  ASSUME NEW ev, NEW policy, policy.maxSensitive = 0, NEW active, NEW agg, agg.sensitive \in Nat,
         NEW decision, decision = Evaluate(ev, policy, active, agg).decision,
         decision.violation = "sensitive_file_access",
         NEW rec, rec.type = ev.type, rec.path = ev.path, rec.tool = ev.tool,
         rec.resource = ev.resource, rec.decoy = decision.decoy
  PROVE  agg.sensitive = 0 /\ Counted(rec, policy)
  <1>1. /\ FirstRule(ev, policy, active, agg) = 10 /\ agg.sensitive = 0 /\ ev.decoy = None /\ decision.decoy = None
        /\ IsSensitive(Class(ev, policy, active), policy)
    BY EvaluateFacts
  <1>2. Class(ev, policy, active) = Class(ev, policy, {}) /\ Class(ev, policy, {}) = Class(rec, policy, {})
    <2>1. Class(ev, policy, {}) = Class(rec, policy, {})
      BY DEF Class
    <2>2. QED
      BY <1>1, <2>1, SameClass
  <1>3. EmptyAggregate.sensitive = 0
    BY DEF EmptyAggregate
  <1>4. FirstRule(rec, policy, {}, EmptyAggregate) = 10
    BY <1>1, <1>2, <1>3, SensitiveFirst
  <1>5. QED
    BY <1>1, <1>2, <1>4 DEF Counted, SensitiveRule

\* ... while its path is no decoy.
LEMMA CountedCounts ==
  ASSUME NEW rec, NEW policy, policy.maxSensitive = 0, Counted(rec, policy), NEW active, rec.path \notin active,
         NEW agg, agg.sensitive \in Nat
  PROVE  Evaluate(rec, policy, active, agg).agg.sensitive = agg.sensitive + 1
  <1>1. Class(rec, policy, active) = Class(rec, policy, {}) /\ IsSensitive(Class(rec, policy, {}), policy)
    BY SameClass DEF Counted
  <1>2. FirstRule(rec, policy, active, agg) = 10
    BY <1>1, SensitiveFirst DEF Counted, SensitiveRule
  <1>3. QED
    BY <1>1, <1>2, EvaluateFacts

\* Induction up to a bound.
LEMMA UpTo ==
  ASSUME NEW n \in Nat, NEW S, 0 \in S, \A k \in Nat : k \in S /\ k < n => k + 1 \in S
  PROVE  n \in S
  <1> DEFINE T == (0 .. n) \ S
  <1> SUFFICES ASSUME T # {} PROVE FALSE
    OBVIOUS
  <1>1. PICK m \in T : \A k \in T : ~(<<k, m>> \in OpToRel(<, Nat))
    <2>1. T \subseteq Nat /\ T # {}
      OBVIOUS
    <2> HIDE DEF T
    <2>2. QED
      BY <2>1, NatLessThanWellFounded, WFMin
  <1>2. \A k \in T : ~(k < m)
    <2>1. T \subseteq Nat
      OBVIOUS
    <2> HIDE DEF T
    <2>2. QED
      BY <1>1, <2>1 DEF OpToRel
  <1>3. m # 0 /\ m - 1 \in Nat /\ m - 1 < n /\ m - 1 < m /\ m - 1 + 1 = m
    OBVIOUS
  <1>4. m - 1 \in S
    <2>1. m - 1 \in 0 .. n
      BY <1>3
    <2>2. m - 1 \in T => FALSE
      BY <1>2, <1>3
    <2>3. QED
      BY <2>1, <2>2
  <1>5. QED
    BY <1>3, <1>4

\* The counters after one more event.
AfterEvent(q, policy, active, f, i) ==
  IF i = 0 THEN EmptyAggregate ELSE Evaluate(q[i], policy, active, f[i - 1]).agg

\* The recursion of _rebuild_aggregate has a solution.
LEMMA AggregateExists ==
  ASSUME NEW q, Len(q) \in Nat, NEW policy, NEW active
  PROVE  \E f : f = [i \in 0 .. Len(q) |-> AfterEvent(q, policy, active, f, i)]
  <1> DEFINE D(n) == 0 .. n
             Good(n, f) == f = [i \in D(n) |-> AfterEvent(q, policy, active, f, i)]
             S == {n \in Nat : \E f : Good(n, f)}
  <1>1. 0 \in S
    <2>1. Good(0, [i \in D(0) |-> EmptyAggregate])
      BY DEF AfterEvent
    <2>2. QED
      BY <2>1
  <1>2. ASSUME NEW k \in Nat, k \in S PROVE k + 1 \in S
    <2>1. PICK f : Good(k, f)
      BY <1>2
    <2> DEFINE g == [i \in D(k + 1) |-> IF i = k + 1 THEN AfterEvent(q, policy, active, f, k + 1) ELSE f[i]]
    <2>2. \A i \in D(k) : g[i] = f[i] /\ i \in D(k + 1)
      OBVIOUS
    <2>3. \A i \in D(k + 1) : i # 0 => i - 1 \in D(k)
      OBVIOUS
    <2>4. \A i \in D(k + 1) : AfterEvent(q, policy, active, g, i) = AfterEvent(q, policy, active, f, i)
      BY <2>2, <2>3 DEF AfterEvent
    <2>5. \A i \in D(k) : f[i] = AfterEvent(q, policy, active, f, i)
      BY <2>1
    <2>6. \A i \in D(k + 1) : g[i] = AfterEvent(q, policy, active, g, i)
      BY <2>4, <2>5
    <2>7. Good(k + 1, g)
      <3>1. PICK h : h = g
        OBVIOUS
      <3>2. h = [i \in D(k + 1) |-> h[i]] /\ \A i \in D(k + 1) : h[i] = AfterEvent(q, policy, active, h, i)
        BY <2>6, <3>1
      <3> HIDE DEF D
      <3>3. h = [i \in D(k + 1) |-> AfterEvent(q, policy, active, h, i)]
        BY ONLY <3>2
      <3>4. QED
        BY <3>1, <3>3
    <2> HIDE DEF Good, g
    <2>8. QED
      BY <2>7
  <1> HIDE DEF S
  <1>3. Len(q) \in S
    BY <1>1, <1>2, UpTo
  <1>4. QED
    BY <1>3 DEF S

\* _rebuild_aggregate counts at least one sensitive access if there is one.
LEMMA AggregateCounts ==
  ASSUME NEW q, Len(q) \in Nat, NEW policy, policy.maxSensitive = 0, NEW active,
         NEW total, total = RebuildAggregate(q, policy, active)
  PROVE  /\ total.sensitive \in Nat
         /\ \A k \in 1 .. Len(q) : Counted(q[k], policy) /\ q[k].path \notin active => total.sensitive >= 1
  <1> DEFINE after == CHOOSE f : f = [i \in 0 .. Len(q) |-> AfterEvent(q, policy, active, f, i)]
  <1>1. total = after[Len(q)]
    BY DEF RebuildAggregate, AfterEvent
  <1>2. after = [i \in 0 .. Len(q) |-> AfterEvent(q, policy, active, after, i)]
    BY AggregateExists
  <1> HIDE DEF after
  <1>3. \A i \in 0 .. Len(q) : after[i] = AfterEvent(q, policy, active, after, i)
    BY <1>2
  <1> DEFINE C(k) == Counted(q[k], policy) /\ q[k].path \notin active
             Good(i) == after[i].sensitive \in Nat /\ \A k \in 1 .. i : C(k) => after[i].sensitive >= 1
             T == {i \in Nat : i <= Len(q) => Good(i)}
  <1>4. 0 \in T
    <2>1. after[0] = EmptyAggregate
      BY <1>3 DEF AfterEvent
    <2>2. after[0].sensitive = 0
      BY <2>1 DEF EmptyAggregate
    <2>3. Good(0)
      BY <2>2
    <2> HIDE DEF Good
    <2>4. QED
      BY <2>3
  <1>5. ASSUME NEW k \in Nat, k \in T, k < Len(q) PROVE Good(k + 1)
    <2> HIDE DEF C
    <2>1. Good(k) /\ k + 1 \in 0 .. Len(q) /\ k + 1 # 0 /\ k + 1 - 1 = k
      BY <1>5
    <2>2. after[k + 1] = Evaluate(q[k + 1], policy, active, after[k]).agg
      BY <1>3, <2>1 DEF AfterEvent
    <2>3. PICK agg : agg = after[k]
      OBVIOUS
    <2>4. agg.sensitive \in Nat /\ \A j \in 1 .. k : C(j) => agg.sensitive >= 1
      BY <2>1, <2>3
    <2> DEFINE next == Evaluate(q[k + 1], policy, active, agg).agg.sensitive
    <2>5. next = agg.sensitive \/ next = agg.sensitive + 1
      <3>1. next = agg.sensitive + IF FirstRule(q[k + 1], policy, active, agg) >= 10
                                        /\ IsSensitive(Class(q[k + 1], policy, active), policy) THEN 1 ELSE 0
        BY <2>4, EvaluateFacts
      <3>2. QED
        BY <2>4, <3>1
    <2>6. C(k + 1) => next = agg.sensitive + 1
      BY <2>4, CountedCounts DEF C
    <2> HIDE DEF next
    <2>7. next \in Nat /\ next >= agg.sensitive /\ (C(k + 1) => next >= 1)
      BY <2>4, <2>5, <2>6
    <2>8. \A j \in 1 .. k + 1 : C(j) => next >= 1
      <3> TAKE j \in 1 .. k + 1
      <3>1. CASE j = k + 1
        BY <2>7, <3>1
      <3>2. CASE j # k + 1
        <4>1. j \in 1 .. k
          BY <3>2
        <4>2. C(j) => agg.sensitive >= 1
          BY <2>4, <4>1
        <4>3. QED
          BY <2>4, <2>7, <4>2
      <3>3. QED
        BY <3>1, <3>2
    <2>9. after[k + 1].sensitive = next
      BY <2>2, <2>3 DEF next
    <2>10. QED
      BY <2>7, <2>8, <2>9
  <1>6. Good(Len(q))
    <2> HIDE DEF Good
    <2>1. \A k \in Nat : k \in T /\ k < Len(q) => k + 1 \in T
      BY <1>5
    <2> HIDE DEF T
    <2>2. Len(q) \in T
      BY <1>4, <2>1, UpTo
    <2>3. QED
      BY <2>2 DEF T
  <1>7. QED
    BY <1>1, <1>6

-----------------------------------------------------------------------------
(* Sensitive accesses are counted across requests. *)

FirstSensitive(i) == events[i].violation = "sensitive_file_access"

\* Paths where there is, or was, a decoy.
Deployed == {p \in DecoyPaths : decoys[p] # "none"}

\* Every request has loaded the scope that the session was created with, and the accesses that
\* were reported under it are counted.
UnderScope(scope) ==
  /\ session.status = "active" => session.scope = scope
  /\ \A r \in Holders : requests[r].scope = scope
  /\ \A i \in 1 .. Len(events) : FirstSensitive(i) => Counted(events[i], ScopePolicy(scope))

\* The inductive invariant behind SensitiveReadsCounted.
CountInv ==
  /\ DOMAIN decoys = DecoyPaths
  /\ session.status = "none" => events = <<>> /\ Holders = {}
  /\ \E scope \in Scopes \cup {None} : UnderScope(scope)
  /\ SensitiveReadsCounted

\* The property, with the length of the events in place of their domain.
LEMMA CountedForm ==
  ASSUME events \in Seq(ToSet(events))
  PROVE  /\ DOMAIN events = 1 .. Len(events) /\ Len(events) \in Nat
         /\ SensitiveReadsCounted <=>
              ((\A i \in 1 .. Len(events) : ~(events[i].decoy = None /\ events[i].path \in Deployed)) =>
                 \A i, j \in 1 .. Len(events) : i < j /\ FirstSensitive(i) /\ FirstSensitive(j) => i > EventLimit)
  <1>1. DOMAIN events = 1 .. Len(events) /\ Len(events) \in Nat
    OBVIOUS
  <1>2. QED
    BY <1>1 DEF SensitiveReadsCounted, FirstSensitive, Deployed

\* It holds at the start.
LEMMA CountInit == Init => CountInv
  <1> SUFFICES ASSUME Init PROVE CountInv
    OBVIOUS
  <1>1. Holders = {} /\ DOMAIN decoys = DecoyPaths /\ events = <<>>
    BY FreeShape DEF Init, Holders
  <1>2. session.status = "none"
    BY DEF Init, NoSession
  <1>3. UnderScope(None)
    BY <1>1, <1>2 DEF UnderScope
  <1>4. SensitiveReadsCounted
    BY <1>1 DEF SensitiveReadsCounted
  <1>5. QED
    BY <1>1, <1>2, <1>3, <1>4 DEF CountInv

\* Steps that store nothing and let no request load the session.
LEMMA CountQuiet ==
  ASSUME ReportInv, CountInv, events' = events, DOMAIN decoys' = DecoyPaths, Deployed \subseteq Deployed',
         \A r \in Holders' : r \in Holders /\ requests'[r].scope = requests[r].scope,
         session'.status = "active" => session.status = "active" /\ session'.scope = session.scope,
         session'.status = "none" => session.status = "none"
  PROVE  CountInv'
  <1>1. events \in Seq(ToSet(events)) /\ events' \in Seq(ToSet(events'))
    BY DEF ReportInv, CallInv
  <1>2. PICK scope \in Scopes \cup {None} : UnderScope(scope)
    BY DEF CountInv
  <1>3. UnderScope(scope)'
    BY <1>2 DEF UnderScope, FirstSensitive
  <1>4. SensitiveReadsCounted'
    <2>1. SensitiveReadsCounted
      BY DEF CountInv
    <2>2. /\ SensitiveReadsCounted <=>
              ((\A i \in 1 .. Len(events) : ~(events[i].decoy = None /\ events[i].path \in Deployed)) =>
                 \A i, j \in 1 .. Len(events) : i < j /\ FirstSensitive(i) /\ FirstSensitive(j) => i > EventLimit)
      BY <1>1, CountedForm
    <2>3. \A i : FirstSensitive(i)' <=> FirstSensitive(i)
      BY DEF FirstSensitive
    <2>4. SensitiveReadsCounted' <=>
              ((\A i \in 1 .. Len(events') : ~(events'[i].decoy = None /\ events'[i].path \in Deployed')) =>
                 \A i, j \in 1 .. Len(events') : i < j /\ FirstSensitive(i)' /\ FirstSensitive(j)' => i > EventLimit)
      BY <1>1 DEF SensitiveReadsCounted, FirstSensitive, Deployed
    <2> DEFINE P == \A i \in 1 .. Len(events) : ~(events[i].decoy = None /\ events[i].path \in Deployed)
               Q == \A i, j \in 1 .. Len(events) : i < j /\ FirstSensitive(i) /\ FirstSensitive(j) => i > EventLimit
    <2>5. (\A i \in 1 .. Len(events') : ~(events'[i].decoy = None /\ events'[i].path \in Deployed')) => P
      OBVIOUS
    <2>6. Q => \A i, j \in 1 .. Len(events') : i < j /\ FirstSensitive(i)' /\ FirstSensitive(j)' => i > EventLimit
      BY <2>3
    <2>7. P => Q
      BY <2>1, <2>2
    <2> HIDE DEF P, Q
    <2>8. QED
      BY <2>4, <2>5, <2>6, <2>7
  <1>5. QED
    BY <1>3, <1>4 DEF CountInv

\* events_for_session: the oldest events, up to the limit.
LEMMA OldestEvents ==
  ASSUME events \in Seq(ToSet(events)), NEW q, q = EventsForSession
  PROVE  /\ Len(q) \in Nat
         /\ \A i \in 1 .. Len(events) : i <= EventLimit => i \in 1 .. Len(q) /\ q[i] = events[i]
  <1>1. EventLimit \in Nat /\ Len(events) \in Nat
    BY BoundAssumption
  <1>2. PICK m : m = Min({EventLimit, Len(events)})
    OBVIOUS
  <1>3. m \in {EventLimit, Len(events)} /\ m <= EventLimit /\ m <= Len(events)
    <2>1. {EventLimit, Len(events)} \subseteq Nat
      BY <1>1
    <2>2. Min({EventLimit, Len(events)}) \in {EventLimit, Len(events)}
          /\ \A i \in {EventLimit, Len(events)} : Min({EventLimit, Len(events)}) <= i
      BY <2>1, LeastNumber
    <2>3. QED
      BY <1>2, <2>2
  <1>4. m \in Nat /\ q = SubSeq(events, 1, m)
    BY <1>1, <1>2, <1>3 DEF EventsForSession
  <1>5. Len(q) = m /\ \A i \in 1 .. m : q[i] = events[i]
    BY <1>1, <1>3, <1>4
  <1>6. QED
    BY <1>1, <1>3, <1>4, <1>5

\* A stored event: when it is reported as the first sensitive access, no other was counted.
LEMMA CountAppends ==
  ASSUME ReportInv, CountInv, NEW r \in Requests, r \in Holders, NEW ev, NEW record,
         events' = Append(events, record),
         record.type = ev.type, record.path = ev.path, record.tool = ev.tool, record.resource = ev.resource,
         record.decoy = Decide(ev, requests[r].scope).decoy,
         record.violation = Decide(ev, requests[r].scope).violation,
         UNCHANGED <<session, decoys>>, Holders' \subseteq Holders,
         \A q \in Holders' : requests'[q].scope = requests[q].scope
  PROVE  CountInv'
  <1>1. PICK scope \in Scopes \cup {None} : UnderScope(scope)
    BY DEF CountInv
  <1> DEFINE policy == ScopePolicy(scope)
             total == RebuildAggregate(EventsForSession, policy, ActiveDecoys)
             decision == Evaluate(ev, policy, ActiveDecoys, total).decision
             n == Len(events)
  <1>2. requests[r].scope = scope /\ policy.maxSensitive = 0
    BY <1>1 DEF UnderScope, ScopePolicy
  <1>3. record.decoy = decision.decoy /\ record.violation = decision.violation
    BY <1>2 DEF Decide
  <1>4. events \in Seq(ToSet(events)) /\ n \in Nat
    BY DEF ReportInv, CallInv
  <1>5. /\ events' \in Seq(ToSet(events) \cup {record}) /\ Len(events') = n + 1
        /\ \A i \in 1 .. n : events'[i] = events[i]
        /\ events'[n + 1] = record
    <2>1. events \in Seq(ToSet(events) \cup {record})
      BY <1>4
    <2>2. QED
      BY <1>4, <2>1
  <1> HIDE DEF policy
  <1>6. /\ total.sensitive \in Nat
        /\ \A i \in 1 .. n : i <= EventLimit /\ Counted(events[i], policy) /\ events[i].path \notin ActiveDecoys =>
             total.sensitive >= 1
    <2>1. PICK q : q = EventsForSession
      OBVIOUS
    <2>2. /\ Len(q) \in Nat
          /\ \A i \in 1 .. n : i <= EventLimit => i \in 1 .. Len(q) /\ q[i] = events[i]
      BY <1>4, <2>1, OldestEvents
    <2>3. /\ total.sensitive \in Nat
          /\ \A k \in 1 .. Len(q) : Counted(q[k], policy) /\ q[k].path \notin ActiveDecoys => total.sensitive >= 1
      BY <1>2, <2>1, <2>2, AggregateCounts
    <2> HIDE DEF total
    <2>4. QED
      BY <2>2, <2>3
  <1> HIDE DEF total
  <1>7. record.violation = "sensitive_file_access" => total.sensitive = 0 /\ Counted(record, policy)
    BY <1>2, <1>3, <1>6, FirstIsCounted
  <1> HIDE DEF decision
  <1>8. \A i \in 1 .. n : FirstSensitive(i) => Counted(events[i], policy)
    BY <1>1 DEF UnderScope, policy
  <1>9. UnderScope(scope)'
    <2>1. \A i \in 1 .. n + 1 : events'[i].violation = "sensitive_file_access" => Counted(events'[i], policy)
      <3> TAKE i \in 1 .. n + 1
      <3>1. CASE i = n + 1
        BY <1>5, <1>7, <3>1
      <3>2. CASE i # n + 1
        <4>1. i \in 1 .. n
          BY <1>4, <3>2
        <4>2. QED
          BY <1>5, <1>8, <4>1 DEF FirstSensitive
      <3>3. QED
        BY <3>1, <3>2
    <2>2. QED
      BY <1>1, <1>5, <2>1 DEF UnderScope, FirstSensitive, policy
  <1>10. SensitiveReadsCounted'
    <2>1. DOMAIN events' = 1 .. n + 1
      BY <1>5
    <2> SUFFICES ASSUME \A i \in 1 .. n + 1 : ~(events'[i].decoy = None /\ events'[i].path \in Deployed),
                        NEW i \in 1 .. n + 1, NEW j \in 1 .. n + 1, i < j,
                        events'[i].violation = "sensitive_file_access",
                        events'[j].violation = "sensitive_file_access"
                 PROVE  i > EventLimit
      BY <2>1 DEF SensitiveReadsCounted, Deployed
    <2>2. i \in 1 .. n /\ events'[i] = events[i] /\ FirstSensitive(i)
      BY <1>4, <1>5 DEF FirstSensitive
    <2>3. CASE j \in 1 .. n
      <3>1. \A k \in 1 .. n : ~(events[k].decoy = None /\ events[k].path \in Deployed)
        BY <1>4, <1>5
      <3>2. FirstSensitive(j)
        BY <1>5, <2>3 DEF FirstSensitive
      <3>3. SensitiveReadsCounted
        BY DEF CountInv
      <3>4. \A k, l \in 1 .. n : k < l /\ FirstSensitive(k) /\ FirstSensitive(l) => k > EventLimit
        BY <1>4, <3>1, <3>3, CountedForm
      <3>5. QED
        BY <2>2, <2>3, <3>2, <3>4
    <2>4. CASE j = n + 1
      <3>1. total.sensitive = 0
        BY <1>5, <1>7, <2>4
      <3>2. Counted(events[i], policy) /\ events[i].decoy = None
        BY <1>8, <2>2 DEF Counted
      <3>3. events[i].path \notin ActiveDecoys
        BY <1>5, <2>2, <3>2 DEF Deployed, ActiveDecoys
      <3>4. ~(i <= EventLimit)
        BY <1>6, <2>2, <3>1, <3>2, <3>3
      <3>5. QED
        BY <2>2, <3>4, BoundAssumption
    <2>5. j \in 1 .. n \/ j = n + 1
      <3> HIDE DEF n
      <3>1. n \in Nat /\ j \in 1 .. n + 1
        BY <1>4
      <3>2. QED
        BY ONLY <3>1
    <2>6. QED
      BY <2>3, <2>4, <2>5
  <1>11. session'.status # "none"
    BY DEF CountInv
  <1>12. DOMAIN decoys' = DecoyPaths
    BY DEF CountInv
  <1>13. QED
    BY <1>9, <1>10, <1>11, <1>12 DEF CountInv

\* Every step keeps it.
LEMMA CountStep == ReportInv /\ CountInv /\ [Next]_vars => CountInv'
  <1> SUFFICES ASSUME ReportInv, CountInv, [Next]_vars PROVE CountInv'
    OBVIOUS
  <1>0. RequestShapes /\ DOMAIN decoys = DecoyPaths
    BY DEF ReportInv, CountInv
  <1>1. ASSUME UNCHANGED <<requests, events, session, decoys>> PROVE CountInv'
    <2>1. Holders' = Holders /\ Deployed' = Deployed
      BY <1>1 DEF Holders, Deployed
    <2>2. QED
      BY <1>0, <1>1, <2>1, CountQuiet
  <1>2. ASSUME NEW r \in Requests, NEW row, Becomes(r, row), row.pc # "loaded" PROVE
          Holders' = Holders \ {r} /\ \A q \in Holders' : requests'[q].scope = requests[q].scope
    <2>1. Holders' = Holders \ {r} /\ Holders \subseteq Requests
      BY <1>0, <1>2, FewerHolders DEF Holders
    <2>2. QED
      BY <1>0, <1>2, <2>1, BecomesShape
  <1>3. ASSUME NEW r \in Requests, NEW row, Becomes(r, row), row.pc # "loaded", UNCHANGED <<events, session, decoys>>
        PROVE  CountInv'
    <2>1. Holders' = Holders \ {r} /\ \A q \in Holders' : requests'[q].scope = requests[q].scope
      BY <1>2, <1>3
    <2>2. Deployed' = Deployed
      BY <1>3 DEF Deployed
    <2>3. QED
      BY <1>0, <1>3, <2>1, <2>2, CountQuiet
  <1>4. CASE \/ \E p \in Enrollers, t \in Tokens : FindToken(p, t)
             \/ \E p \in Enrollers : Consume(p)
             \/ \E t \in Tokens : Expire(t)
             \/ \E s \in Sensors : Revoke(s)
             \/ ReadEvents
             \/ (\E e \in EventIds : EmitEvent(e)) \/ Finish \/ Exit
             \/ UNCHANGED vars
    <2>1. UNCHANGED <<requests, events, session, decoys>>
      BY <1>4 DEF FindToken, Consume, Expire, Revoke, ReadEvents, EmitEvent, Finish, Exit, vars, serverVars
    <2>2. QED
      BY <1>1, <2>1
  <1>5. ASSUME NEW p \in DecoyPaths, DecoyChanges(p) PROVE CountInv'
    <2>1. /\ UNCHANGED <<requests, events, session>>
          /\ (decoys' = [decoys EXCEPT ![p] = "active"] \/ decoys' = [decoys EXCEPT ![p] = "retired"])
      BY <1>5 DEF DecoyChanges
    <2>2. DOMAIN decoys' = DecoyPaths /\ Deployed \subseteq Deployed'
      BY <1>0, <2>1 DEF Deployed
    <2>3. Holders' = Holders
      BY <2>1 DEF Holders
    <2>4. QED
      BY <2>1, <2>2, <2>3, CountQuiet
  <1>6. ASSUME NEW s \in Sensors, StartSession(s) PROVE CountInv'
    <2>1. /\ session = NoSession /\ UNCHANGED <<events, requests, decoys>>
          /\ \/ session' = session
             \/ \E scope \in Scopes : session' = [status |-> "active", sensor |-> s, scope |-> scope, summary |-> None]
      BY <1>6 DEF StartSession
    <2>2. CASE session' = session
      BY <1>1, <2>1, <2>2
    <2>3. ASSUME NEW scope \in Scopes,
                 session' = [status |-> "active", sensor |-> s, scope |-> scope, summary |-> None]
          PROVE  CountInv'
      <3>1. events = <<>> /\ Holders = {}
        BY <2>1 DEF CountInv, NoSession
      <3>2. events' = <<>> /\ Holders' = {}
        BY <2>1, <3>1 DEF Holders
      <3>3. session'.status = "active" /\ session'.scope = scope
        BY <2>3
      <3>4. UnderScope(scope)'
        BY <3>2, <3>3 DEF UnderScope
      <3>5. SensitiveReadsCounted'
        BY <3>2 DEF SensitiveReadsCounted
      <3>6. QED
        BY <1>0, <2>1, <3>3, <3>4, <3>5 DEF CountInv
    <2>4. QED
      BY <2>1, <2>2, <2>3
  <1>7. CASE CompleteSession
    <2> DEFINE summary == Summary(closing, Cardinality(violations))
    <2>1. session' = [session EXCEPT !.status = "completed", !.scope = None, !.summary = summary]
          /\ UNCHANGED <<requests, events, decoys>>
      BY <1>7 DEF CompleteSession
    <2> HIDE DEF summary
    <2>2. session'.status = "completed"
      BY <1>0, <2>1 DEF RequestShapes
    <2>3. Holders' = Holders /\ Deployed' = Deployed
      BY <2>1 DEF Holders, Deployed
    <2>4. QED
      BY <1>0, <2>1, <2>2, <2>3, CountQuiet
  <1>8. CASE GiveUp
    <2>1. /\ client.on # None /\ UNCHANGED <<session, events, decoys>>
          /\ (requests' = requests \/ requests' = [requests EXCEPT ![client.on] = Free])
      BY <1>8 DEF GiveUp, serverVars
    <2>2. client.on \in Requests
      BY <2>1 DEF ReportInv, CallInv, ClientRows
    <2>3. CASE requests' = requests
      BY <1>1, <2>1, <2>3
    <2>4. CASE requests' = [requests EXCEPT ![client.on] = Free]
      <3>1. Becomes(client.on, Free) /\ Free.pc # "loaded"
        BY <2>4, FreeShape DEF Becomes
      <3>2. QED
        BY <1>3, <2>1, <2>2, <3>1
    <2>5. QED
      BY <2>1, <2>3, <2>4
  <1>9. ASSUME NEW r \in Requests, Post(r) PROVE CountInv'
    <2> DEFINE row == [Free EXCEPT !.pc = "sent", !.event = Current]
    <2>1. requests' = [requests EXCEPT ![r] = row] /\ UNCHANGED <<session, events, decoys>>
      BY <1>9 DEF Post, Current, serverVars
    <2>2. DOMAIN row = {"pc", "event", "scope"} /\ row.pc = "sent"
      BY DEF Free
    <2> HIDE DEF row
    <2>3. Becomes(r, row)
      BY <2>1, <2>2 DEF Becomes
    <2>4. QED
      BY <1>3, <2>1, <2>2, <2>3
  <1>10. ASSUME NEW r \in Requests, Authenticate(r) \/ Abort(r) PROVE CountInv'
    <2>1. (\E row : Becomes(r, row) /\ row.pc # "loaded") /\ UNCHANGED serverVars
      <3>1. CASE Authenticate(r)
        BY <1>0, <3>1, IngestShape, FreeShape
      <3>2. CASE Abort(r)
        BY <3>2, FreeShape DEF Abort, Becomes
      <3>3. QED
        BY <1>10, <3>1, <3>2
    <2>2. UNCHANGED <<events, session, decoys>>
      BY <2>1 DEF serverVars
    <2>3. QED
      BY <1>3, <2>1, <2>2
  <1>11. ASSUME NEW r \in Requests, LoadSession(r) PROVE CountInv'
    <2>1. UNCHANGED <<events, session, decoys>>
      <3>1. UNCHANGED serverVars
        BY <1>0, <1>11, IngestShape
      <3>2. QED
        BY <3>1 DEF serverVars
    <2>2. CASE Becomes(r, Free)
      BY <1>3, <2>1, <2>2, FreeShape
    <2>3. ASSUME NEW row, Becomes(r, row), row.scope = session.scope, Holders = {}, session.status = "active"
          PROVE  CountInv'
      <3>1. Holders' \subseteq {r} /\ requests'[r] = row
        BY <1>0, <2>3, BecomesShape DEF Holders
      <3>2. PICK scope \in Scopes \cup {None} : UnderScope(scope)
        BY DEF CountInv
      <3>3. UnderScope(scope)'
        BY <2>1, <2>3, <3>1, <3>2 DEF UnderScope, FirstSensitive
      <3>4. SensitiveReadsCounted'
        BY <2>1 DEF CountInv, SensitiveReadsCounted
      <3>5. QED
        BY <1>0, <2>1, <2>3, <3>3, <3>4 DEF CountInv
    <2>4. QED
      BY <1>0, <1>11, <2>2, <2>3, IngestShape
  <1>12. ASSUME NEW r \in Requests, Store(r) PROVE CountInv'
    <2> DEFINE e == requests[r].event
               ev == Minimized(e)
               decision == Decide(ev, requests[r].scope)
               duplicate == \E i \in DOMAIN events : events[i].id = e
               record == [id |-> e, type |-> ev.type, path |-> ev.path, tool |-> ev.tool,
                          resource |-> ev.resource, decoy |-> decision.decoy, class |-> decision.class,
                          violation |-> decision.violation]
    <2>1. /\ requests[r].pc = "loaded" /\ UNCHANGED <<session, decoys>>
          /\ IF duplicate THEN UNCHANGED events ELSE events' = Append(events, record)
      BY <1>12 DEF Store
    <2>2. Becomes(r, Free) /\ Free.pc # "loaded"
      BY <1>0, <1>12, IngestShape, FreeShape
    <2> HIDE DEF ev, decision
    <2>3. /\ record.type = ev.type /\ record.path = ev.path /\ record.tool = ev.tool
          /\ record.resource = ev.resource /\ record.decoy = decision.decoy /\ record.violation = decision.violation
      OBVIOUS
    <2> HIDE DEF record
    <2>4. CASE duplicate
      BY <1>3, <2>1, <2>2, <2>4
    <2>5. CASE ~duplicate
      <3>1. r \in Holders /\ Holders' \subseteq Holders /\ \A q \in Holders' : requests'[q].scope = requests[q].scope
        BY <1>2, <2>1, <2>2 DEF Holders
      <3>2. events' = Append(events, record)
        BY <2>1, <2>5
      <3>3. QED
        BY <2>1, <2>3, <3>1, <3>2, CountAppends DEF decision
    <2>6. QED
      BY <2>4, <2>5
  <1>13. QED
    BY <1>4, <1>5, <1>6, <1>7, <1>8, <1>9, <1>10, <1>11, <1>12 DEF Next, Ingest

\* Only the first sensitive access of a session is reported as such, across all its requests, as
\* long as it is among the events that _rebuild_aggregate reads and its path has not become a decoy.
THEOREM SensitiveReadsAreCounted == Spec => []SensitiveReadsCounted
  <1>1. CountInv => SensitiveReadsCounted
    BY DEF CountInv
  <1>2. QED
    BY <1>1, ReportInit, ReportStep, CountInit, CountStep, PTL DEF Spec
=============================================================================
