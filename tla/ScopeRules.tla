----------------------------- MODULE ScopeRules -----------------------------
(***************************************************************************)
(* The scope rules of the agent sensor (services/agent_sensor): how a path *)
(* that an agent reports is normalized, matched and classified, the rules  *)
(* that decide on one event, the counters they read, and the escalation    *)
(* test of a session's summary.                                            *)
(*                                                                         *)
(* A path is the sequence of its segments, up to case, and a pattern       *)
(* "dir/**" is the path of dir.  What a raw path names, and whether that   *)
(* is inside the repository, is part of the raw path.  Severities,         *)
(* confidences and texts are left out: nothing is decided on them.         *)
(***************************************************************************)
EXTENDS Integers, Sequences, FiniteSets, SequencesExt, FiniteSetsExt

CONSTANTS
  None,
  PatternClass(_),  \* path -> class of _PATTERN_RULES it matches, or "none"
  MinBreadth,       \* the 5 of the breadth rule
  Window            \* _WINDOW of the escalation test

\* SENSITIVE_CLASSES
SensitiveClasses ==
  {"sensitive", "credential", "deployment", "billing", "authentication", "customer_data"}

PathClasses == SensitiveClasses \cup
  {"task_relevant", "adjacent", "shared_dependency", "decoy", "generated", "build_output", "unrelated"}

\* normalize_path: the path a raw spelling names, None when it leaves the repository.
NormalizePath(raw) == IF raw = None \/ raw.escapes THEN None ELSE raw.path

\* path_matches, for plain and "/**" patterns: the path itself and all below it.
PathMatches(pattern, path) == IsPrefix(pattern, path)

\* _top_dirs
TopDirs(path) == SubSeq(path, 1, Min({2, Len(path)}))

\* classify_path: decoys first, then what the name says, then the session's scope.
ClassifyPath(path, allowed, decoys) ==
  IF path \in decoys THEN "decoy"
  ELSE IF PatternClass(path) # "none" THEN PatternClass(path)
  ELSE IF \E a \in allowed : PathMatches(a, path) THEN "task_relevant"
  ELSE IF \E a \in allowed : TopDirs(a) = TopDirs(path) THEN "adjacent"
  ELSE "unrelated"

\* SessionAggregate: the counters that rules read.
EmptyAggregate == [sensitive |-> 0, reads |-> 0, unrelated |-> {}]

Modifying == {"file_modified", "file_created", "file_deleted"}
McpEvents == {"mcp_resource_listed", "mcp_resource_read"}

-----------------------------------------------------------------------------
(* evaluate: the first rule that applies decides. *)

\* The rules from "sensitive_over_cap" on have counted a sensitive read, and those
\* from "excessive_breadth" on have counted a file read.
SensitiveRule == 10
BreadthRule == 12

Class(ev, policy, decoys) ==
  IF ev.path = None THEN "unrelated" ELSE ClassifyPath(ev.path, policy.allowed, decoys)

IsSensitive(class, policy) == class \in SensitiveClasses /\ ~policy.allowSecrets

\* The rules in their order, as the violation each reports and when it applies.
Rules(ev, class, policy, agg) ==
  LET reads == agg.reads + (IF ev.type = "file_read" THEN 1 ELSE 0)
      stray == class = "unrelated" /\ ev.path # None
      broad == Cardinality(agg.unrelated \cup {ev.path})
                 > Max({MinBreadth, policy.maxReads \div 4})
      rule(v, holds) == [violation |-> v, holds |-> holds]
  IN <<rule("decoy_asset_touch", ev.decoy # None \/ class = "decoy"),
       rule("destructive_action_attempt", ev.type = "denied_action_attempted"),
       rule("destructive_action_attempt", ev.type = "file_deleted" /\ class # "task_relevant"),
       rule("unapproved_tool_use", ev.tool # None /\ ev.tool \in policy.deniedTools),
       rule("unapproved_tool_use",
            ev.tool # None /\ policy.allowedTools # {} /\ ev.tool \notin policy.allowedTools),
       rule("out_of_scope_path_access",
            ev.path # None /\ \E d \in policy.denied : PathMatches(d, ev.path)),
       rule("unexpected_database_access",
            ev.type = "database_query_requested" /\ ~policy.allowDatabase),
       rule("unexpected_network_access",
            ev.type = "network_request_requested" /\ ~policy.allowNetwork),
       rule("unexpected_mcp_resource_access",
            /\ ev.type \in McpEvents
            /\ policy.resourceTypes # {} /\ ev.resource \notin policy.resourceTypes),
       rule(IF agg.sensitive >= 1 THEN "repeated_sensitive_exploration" ELSE "sensitive_file_access",
            IsSensitive(class, policy) /\ agg.sensitive + 1 > policy.maxSensitive),
       rule("dependency_change_outside_scope",
            ev.type \in Modifying /\ class = "shared_dependency" /\ ~policy.allowDependencies),
       rule("excessive_repository_breadth", stray /\ broad),
       rule("out_of_scope_path_access", stray),
       rule("excessive_repository_breadth", reads > policy.maxReads),
       rule(None, TRUE)>>

\* evaluate: the decision on an event and the counters after it.
Evaluate(ev, policy, decoys, agg) ==
  LET class == Class(ev, policy, decoys)
      rules == Rules(ev, class, policy, agg)
      first == Min({i \in DOMAIN rules : rules[i].holds})
      one(b) == IF b THEN 1 ELSE 0
  IN [decision |->
        [violation |-> rules[first].violation,
         class |-> IF first = 1 THEN "decoy" ELSE class,
         \* the result of rule 1 alone carries the decoy's id
         decoy |-> IF first = 1 THEN ev.decoy ELSE None],
      agg |->
        [sensitive |-> agg.sensitive + one(first >= SensitiveRule /\ IsSensitive(class, policy)),
         reads |-> agg.reads + one(first >= BreadthRule /\ ev.type = "file_read"),
         unrelated |-> IF first >= BreadthRule /\ class = "unrelated" /\ ev.path # None
                       THEN agg.unrelated \cup {ev.path} ELSE agg.unrelated]]

\* Mutant: the counters start anew with every request.
RebuildAggregateMutant(events, policy, decoys) == EmptyAggregate

\* _rebuild_aggregate: the stored events, evaluated again under today's decoys.
RebuildAggregate(events, policy, decoys) ==
  LET after[i \in 0 .. Len(events)] ==
        IF i = 0 THEN EmptyAggregate ELSE Evaluate(events[i], policy, decoys, after[i - 1]).agg
  IN after[Len(events)]

-----------------------------------------------------------------------------
(* The summary of a session. *)

Probing == {"unrelated", "adjacent"}
Grave == SensitiveClasses \cup {"decoy"}

\* detect_escalation: the loop over the last Window classes.
DetectEscalation(classes) ==
  LET window == SubSeq(classes, Max({1, Len(classes) - Window + 1}), Len(classes))
      step(seen, c) == IF c \in Probing THEN [seen EXCEPT !.probed = TRUE]
                       ELSE IF seen.probed /\ c \in Grave THEN [seen EXCEPT !.found = TRUE]
                       ELSE seen
  IN FoldLeft(step, [probed |-> FALSE, found |-> FALSE], window).found
=============================================================================
