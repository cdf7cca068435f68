---------------------------- MODULE MCAiTripwire ----------------------------
(* Instances of AiTripwire for TLC. *)
EXTENDS AiTripwire, TLC

\* A document and three drafts that are refused.  Once drafted, a resource of an MCP
\* server goes the way of a document.
MCDrafts ==
  LET draft(s, k, a) == [surface |-> s, kind |-> k, allowedCollection |-> a, fits |-> TRUE] IN
  {draft("rag_document", "support_runbook", TRUE), draft("rag_document", "support_runbook", FALSE),
   draft("rag_document", "mcp_config", TRUE), draft("mcp_config", "support_runbook", TRUE)}

\* Two monitors that share an API key and report on different surfaces.
MCRequests ==
  {[key |-> "a", monitor |-> 1, type |-> "document_retrieved", source |-> "x"],
   [key |-> "a", monitor |-> 2, type |-> "config_loaded", source |-> "y"]}

ActorSymmetry == Permutations(Handlers) \cup Permutations(Workers)
=============================================================================
