----------------------- MODULE MCIntegrationDelivery -----------------------
EXTENDS IntegrationDelivery, TLC

CONSTANTS i1, e1, e2, e3

\* An alert and an operational event that are routed, a coverage gap that is not.
MCFilter ==
  i1 :> [minimum |-> 2, coverage |-> FALSE, operational |-> TRUE,
         types |-> {}, surfaces |-> {"database"}]

MCEnvelope ==
  e1 :> [severity |-> 3, source |-> "alert", type |-> "created", surfaces |-> {"database"}]
  @@ e2 :> [severity |-> 2, source |-> "operational_event", type |-> "unhealthy",
            surfaces |-> {"database", "agent"}]
  @@ e3 :> [severity |-> 4, source |-> "coverage_gap", type |-> "critical_gap",
            surfaces |-> {"database"}]

Runs == Permutations(Workers)
=============================================================================
