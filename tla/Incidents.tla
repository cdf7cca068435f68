------------------------------ MODULE Incidents ------------------------------
(***************************************************************************)
(* From a payload to an incident: the matching of decoy traces             *)
(* (services/monitoring), the alert of an episode (services/alerting) and  *)
(* the grouping of alerts into incidents (services/incident_reconstruction *)
(* and the statements of repositories/artifacts.py that feed it).          *)
(*                                                                         *)
(* One organization and one decoy plan; a trace stands for its decoy,      *)
(* placement and correlation id, which the code derives from one another,  *)
(* and a surface for the one location that is watched there.               *)
(* An ingest and the processing of a job are single steps here: their      *)
(* interleavings are those of MonitoringIngest and ReconstructionQueue.    *)
(* Several workers take jobs at once, so jobs end in any order.            *)
(* A window has at most a few dozen alerts of a trace (an hour, one for    *)
(* every 15 minutes and surface): the cap of 1000 is never reached.        *)
(***************************************************************************)
EXTENDS Integers, FiniteSets, FiniteSetsExt, Sequences, Functions

CONSTANTS
  Accepted,        \* traces (numbers, in the order of their names) of accepted decoys
  Payloads,        \* what a monitor may send, [surface, exact, near]: the traces it
                   \* contains literally, and those it contains up to separators and case
  DedupWindow,     \* deduplication_window_seconds
  CorrelationWindow,
  MaxInstant,      \* bound: the last instant
  MaxIngests       \* bound: payloads sent

ASSUME IncidentsAssumption ==
  /\ Accepted \subseteq Nat
  /\ \A p \in Payloads : /\ p.surface \in {"file", "repository", "database", "text"}
                         /\ p.exact \subseteq p.near /\ p.near \subseteq Nat
  /\ DedupWindow \in Nat \ {0} /\ CorrelationWindow \in Nat \ {0}
  /\ MaxInstant \in Nat /\ MaxIngests \in Nat

VARIABLES
  incidentClock,   \* datetime.now
  ingests,         \* payloads received
  alertRows,       \* the table alerts: from id to [first, last, severity]
  reconstructions, \* pending jobs, [no, trace, start, end]
  incidentRows     \* the table incidents: from id to [alerts, first, last, severity]

incidentVars == <<incidentClock, ingests, alertRows, reconstructions, incidentRows>>

-----------------------------------------------------------------------------
(* Detection and alerting. *)

\* TraceMatcher.match over the enabled entries in the order of their traces: a literal
\* occurrence of any of them goes before a normalized one.
Match(p) ==
  LET exact == p.exact \cap Accepted
      near == p.near \cap Accepted
  IN IF exact # {} THEN {[trace |-> Min(exact), confidence |-> 100]}
     ELSE IF near # {} THEN {[trace |-> Min(near), confidence |-> 85]}
     ELSE {}

\* AlertSeverityScorer.severity in hundredths, for the first event of a decoy whose type
\* ingest_event does not pass on (10 points), of priority 1 (15) and count 1 (2).
Score(surface, confidence) ==
  35 * confidence + 100 * (27 + CASE surface = "database" -> 25 [] surface = "repository" -> 20
                                  [] surface = "text" -> 15 [] surface = "file" -> 10)

\* Severity as its rank, from 0 (info) to 4 (critical).
AlertSeverity(surface, confidence) ==
  Cardinality({t \in {25, 45, 70, 90} : Score(surface, confidence) >= 100 * t})

\* AlertingPipeline._create: the surface and the episode identify the alert.
EpisodeOf(t) == t \div DedupWindow
AlertId(trace, surface, t) == [trace |-> trace, surface |-> surface, episode |-> EpisodeOf(t)]
Candidate(surface, confidence, t) ==
  [first |-> t, last |-> t, severity |-> AlertSeverity(surface, confidence)]

\* combine_alerts: the row of an episode widens.
CombineAlerts(existing, candidate) ==
  [first |-> Min({existing.first, candidate.first}),
   last |-> Max({existing.last, candidate.last}),
   severity |-> Max({existing.severity, candidate.severity})]

IncidentInit ==
  /\ incidentClock = 0 /\ ingests = 0
  /\ alertRows = << >> /\ incidentRows = << >>
  /\ reconstructions = {}

TimePasses ==
  /\ incidentClock < MaxInstant
  /\ incidentClock' = incidentClock + 1
  /\ UNCHANGED <<ingests, alertRows, reconstructions, incidentRows>>

\* enqueue_reconstruction for the alert as it is after the upsert.
JobFor(id, row) ==
  [no |-> ingests, trace |-> id.trace,
   start |-> row.first - CorrelationWindow, end |-> row.last + CorrelationWindow]

\* PipelineService.ingest_event with a payload that contains a trace.
IngestDetection(p) ==
  /\ ingests < MaxIngests
  /\ \E m \in Match(p) :
       LET id == AlertId(m.trace, p.surface, incidentClock)
           new == Candidate(p.surface, m.confidence, incidentClock)
           row == IF id \in DOMAIN alertRows THEN CombineAlerts(alertRows[id], new) ELSE new
       IN /\ alertRows' = [i \in DOMAIN alertRows \cup {id} |-> IF i = id THEN row ELSE alertRows[i]]
          /\ reconstructions' = reconstructions \cup {JobFor(id, row)}
  /\ ingests' = ingests + 1
  /\ UNCHANGED <<incidentClock, incidentRows>>

\* ... and with one that contains none: nothing is stored.
IngestNothing(p) ==
  /\ ingests < MaxIngests
  /\ Match(p) = {}
  /\ ingests' = ingests + 1
  /\ UNCHANGED <<incidentClock, alertRows, reconstructions, incidentRows>>

-----------------------------------------------------------------------------
(* Reconstruction. *)

\* related_alerts: of the job's trace, with activity that overlaps its window.
RelatedAlerts(j) ==
  {i \in DOMAIN alertRows :
     i.trace = j.trace /\ alertRows[i].last >= j.start /\ alertRows[i].first <= j.end}

FirstSeen(ids) == Min({alertRows[i].first : i \in ids})
LastSeen(ids) == Max({alertRows[i].last : i \in ids})

\* IncidentReconstructionEngine._related: the group's latest activity is at most a window ago.
RelatedTo(id, group) ==
  /\ alertRows[id].first - LastSeen(group) <= CorrelationWindow
  /\ \E i \in group : i.trace = id.trace

\* The last of some alerts in the order of first_seen; of those seen at once any (the code
\* goes on to compare their ids, which are hashes).
LatestAlert(ids) == CHOOSE i \in ids : \A k \in ids : alertRows[k].first <= alertRows[i].first

\* Each alert joins the first group that it is related to.
Join(groups, id) ==
  LET related == {n \in DOMAIN groups : RelatedTo(id, groups[n])}
  IN IF related = {} THEN Append(groups, {id}) ELSE [groups EXCEPT ![Min(related)] = @ \cup {id}]

\* IncidentReconstructionEngine.reconstruct: the groups of some alerts, after all the
\* alerts before the last one have joined theirs.
Groups(ids) ==
  LET joined[S \in SUBSET ids] ==
        IF S = {} THEN << >> ELSE Join(joined[S \ {LatestAlert(S)}], LatestAlert(S))
  IN Range(joined[ids])

\* _kind: the one surface of the alerts, or several.
Kind(group) ==
  LET surfaces == {i.surface : i \in group}
  IN IF Cardinality(surfaces) > 1 THEN "multi_surface" ELSE CHOOSE s \in surfaces : TRUE

\* _severity: the highest of the alerts, raised for three of them and for several surfaces.
IncidentSeverity(group) ==
  LET raise(b) == IF b THEN 1 ELSE 0
  IN Min({4, Max({alertRows[i].severity : i \in group})
               + raise(Cardinality(group) >= 3) + raise(Kind(group) = "multi_surface")})

\* The identity without its time bucket.
IncidentIdMutant(group) ==
  [traces |-> {i.trace : i \in group}, kind |-> Kind(group), bucket |-> 0]

\* The identity of _build.
IncidentId(group) ==
  [traces |-> {i.trace : i \in group}, kind |-> Kind(group),
   bucket |-> FirstSeen(group) \div CorrelationWindow]

Build(group) ==
  [alerts |-> group, first |-> FirstSeen(group), last |-> LastSeen(group),
   severity |-> IncidentSeverity(group)]

\* ReconstructionWorker.run_once for one job: upsert_incidents_for_organization replaces
\* the content of an incident with the same identity.
ProcessReconstruction(j) ==
  LET groups == Groups(RelatedAlerts(j))
      built == {IncidentId(g) : g \in groups}
      content(n) == Build(CHOOSE g \in groups : IncidentId(g) = n)
  IN /\ incidentRows' = [n \in DOMAIN incidentRows \cup built |->
                           IF n \in built THEN content(n) ELSE incidentRows[n]]
     /\ reconstructions' = reconstructions \ {j}
     /\ UNCHANGED <<incidentClock, ingests, alertRows>>

IncidentNext ==
  \/ TimePasses
  \/ \E p \in Payloads : IngestDetection(p) \/ IngestNothing(p)
  \/ \E j \in reconstructions : ProcessReconstruction(j)

IncidentSpec == IncidentInit /\ [][IncidentNext]_incidentVars

-----------------------------------------------------------------------------
(* Properties. *)

Settled == reconstructions = {}
Listed == UNION {n.alerts : n \in Range(incidentRows)}
Near(a, b) ==
  /\ a.trace = b.trace
  /\ alertRows[a].first - alertRows[b].last <= CorrelationWindow
  /\ alertRows[b].first - alertRows[a].last <= CorrelationWindow

IncidentTypeOK ==
  /\ \A n \in DOMAIN incidentRows : incidentRows[n].alerts \subseteq DOMAIN alertRows
  /\ \A i \in DOMAIN alertRows : alertRows[i].first <= alertRows[i].last
  /\ \A j \in reconstructions : j.start <= j.end

\* No detection goes unseen: once the queue is empty, every alert is listed in an incident,
\* or one of the same trace at most a window away is, although an incident is overwritten
\* by every later job that computes its identity, in whatever order the jobs ended.
TouchIsNear ==
  Settled => \A a \in DOMAIN alertRows : \E b \in Listed : Near(a, b)

\* docs/IncidentReconstruction.md: "Alerts are conservatively grouped inside a configurable
\* one-hour window when they share a trace": once the queue is empty, two such alerts (or
\* one) are listed in a common incident.
RelatedAreTogether ==
  Settled => \A a, b \in DOMAIN alertRows :
               Near(a, b) => \E n \in DOMAIN incidentRows : {a, b} \subseteq incidentRows[n].alerts
=============================================================================
