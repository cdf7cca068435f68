----------------------------- MODULE MCIncidents -----------------------------
(* One trace that shows up again and again in what users paste. *)
EXTENDS Incidents
MCPayloads == {[surface |-> "text", exact |-> {1}, near |-> {1}]}
=============================================================================
