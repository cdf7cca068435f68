----------------------------- MODULE ReplayGuard -----------------------------
(***************************************************************************)
(* The replay guard of signed monitoring requests (services/replay.py).    *)
(*                                                                         *)
(* A monitor stamps a request with its own clock and a fresh nonce.  The   *)
(* network (or the monitor itself, resending the same signed request) may  *)
(* delay and duplicate it.  Every API worker checks the clock skew and     *)
(* then reserves the nonce in Redis with SET NX EX; the reservation is     *)
(* what makes a request pass at most once over all the workers.            *)
(***************************************************************************)
EXTENDS Integers

CONSTANTS
  Orgs,       \* organizations: the scope of a nonce
  Nonces,     \* nonces a monitor of an organization may draw
  Window,     \* monitoring_timestamp_skew_seconds, in ticks
  MaxSkew,    \* how far a monitor's clock may be off, either way
  MaxTime,    \* bound on the server's clock
  FailOpen    \* redis_fail_mode = "open" (production refuses to start so)

ASSUME WindowAssumption == Window \in Nat
ASSUME BoundsAssumption == MaxSkew \in Nat /\ MaxTime \in Nat
ASSUME FailOpenAssumption == FailOpen \in BOOLEAN

\* A request is identified by its organization and the nonce it carries.
Requests == Orgs \X Nonces

\* Redis keys of the store: one string per scope and nonce.
Keys == Orgs \X Nonces

\* The key under which the store reserves the nonce of request r.
ScopeKey(r) == <<r[1], r[2]>>

\* Mutant: a reservation that lives exactly as long as the window.
TtlMutant == Window

\* A reservation outlives the skew window by one second.
Ttl == Window + 1

Replies == {"none", "accepted", "bad_timestamp", "replayed", "unavailable"}

VARIABLES
  now,       \* the server clock, shared by Redis and the workers
  sent,      \* the requests that are on the network
  stamp,     \* stamp[r]: the timestamp header of r, once it is sent
  seen,      \* seen[k]: when the reservation of key k expires, 0 if there is none
  redisUp,   \* can the workers reach Redis?
  reply,     \* reply[r]: the answer to the last delivery of r
  passes,    \* history: how many deliveries of r have passed the guard
  passedAt   \* history: when r first passed

vars == <<now, sent, stamp, seen, redisUp, reply, passes, passedAt>>

\* One type invariant: every variable has the shape the code gives it.
TypeOK ==
  /\ now \in Nat
  /\ sent \subseteq Requests
  /\ stamp \in [Requests -> Int]
  /\ seen \in [Keys -> Nat]
  /\ redisUp \in BOOLEAN
  /\ reply \in [Requests -> Replies]
  /\ passes \in [Requests -> Nat]
  /\ passedAt \in [Requests -> Nat]

Init ==
  /\ now = 0
  /\ sent = {}
  /\ stamp = [r \in Requests |-> 0]
  /\ seen = [k \in Keys |-> 0]
  /\ redisUp = TRUE
  /\ reply = [r \in Requests |-> "none"]
  /\ passes = [r \in Requests |-> 0]
  /\ passedAt = [r \in Requests |-> 0]

-----------------------------------------------------------------------------
(* The store. *)

\* Redis still holds the reservation of k (EX removes it at its expiry).
Held(k) == seen[k] > now

\* The request is too old or too far ahead of the server's clock.
Skewed(r) == now - stamp[r] > Window \/ stamp[r] - now > Window

\* RedisReplayStore.reserve: SET key NX EX ttl.  Unreachable Redis is reported
\* as such, unless the deployment fails open.
Reserve(k) ==
  IF ~redisUp
    THEN IF FailOpen THEN "reserved_open" ELSE "unavailable"
    ELSE IF Held(k) THEN "seen" ELSE "reserved"

\* ReplayGuard.check: skew first, then the reservation, which is the only
\* effect.
Check(r) ==
  LET result == Reserve(ScopeKey(r))
  IN  IF Skewed(r)                THEN "bad_timestamp"
      ELSE IF result = "unavailable" THEN "unavailable"
      ELSE IF result = "seen"        THEN "replayed"
      ELSE "accepted"

-----------------------------------------------------------------------------
(* Actions. *)

\* A monitor signs a request: its clock is off by at most MaxSkew.
Send(r) ==
  /\ r \notin sent
  /\ sent' = sent \cup {r}
  /\ \E skew \in -MaxSkew..MaxSkew : stamp' = [stamp EXCEPT ![r] = now + skew]
  /\ UNCHANGED <<now, seen, redisUp, reply, passes, passedAt>>

\* Some worker handles a delivery of r: a first one, a late one or a duplicate.
Deliver(r) ==
  /\ r \in sent
  /\ reply' = [reply EXCEPT ![r] = Check(r)]
  /\ IF Check(r) = "accepted"
       THEN /\ passes' = [passes EXCEPT ![r] = @ + 1]
            /\ passedAt' = IF passes[r] = 0 THEN [passedAt EXCEPT ![r] = now] ELSE passedAt
            /\ seen' = IF Reserve(ScopeKey(r)) = "reserved"
                         THEN [seen EXCEPT ![ScopeKey(r)] = now + Ttl]
                         ELSE seen
       ELSE UNCHANGED <<passes, passedAt, seen>>
  /\ UNCHANGED <<now, sent, stamp, redisUp>>

Tick ==
  /\ now < MaxTime
  /\ now' = now + 1
  /\ UNCHANGED <<sent, stamp, seen, redisUp, reply, passes, passedAt>>

\* Redis becomes unreachable, or reachable again with its keys intact.
RedisOutage ==
  /\ redisUp' = ~redisUp
  /\ UNCHANGED <<now, sent, stamp, seen, reply, passes, passedAt>>

Next ==
  \/ \E r \in Requests : Send(r) \/ Deliver(r)
  \/ Tick
  \/ RedisOutage

Spec == Init /\ [][Next]_vars

-----------------------------------------------------------------------------
(* Properties. *)

\* The request was not stamped ahead of the server clock that first accepted it.
OnTime(r) == stamp[r] <= passedAt[r]

\* However often a request is delivered, whatever the delays and outages in
\* between, a worker that fails closed lets it pass the guard at most once, if
\* its monitor's clock was not ahead of the server's (ReplayGuard.check).
PassesAtMostOnce ==
  ~FailOpen => \A r \in Requests : passes[r] > 0 /\ OnTime(r) => passes[r] = 1

\* The comment of ReplayGuard.check: "TTL slightly exceeds the skew window so a
\* nonce cannot be reused while still valid", for every request within the skew
\* the guard itself tolerates.
NonceNotReusedWhileValid ==
  \A r \in Requests : passes[r] <= 1

=============================================================================
