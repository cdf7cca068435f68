------------------------- MODULE MCDecoyDeployment -------------------------
(* Handlers and workers are interchangeable. *)
EXTENDS DecoyDeployment, TLC

ActorSymmetry == Permutations(Handlers) \cup Permutations(Workers)
=============================================================================
