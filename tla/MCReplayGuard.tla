---------------------------- MODULE MCReplayGuard ----------------------------
(* Small instances of ReplayGuard. *)
EXTENDS ReplayGuard
=============================================================================
