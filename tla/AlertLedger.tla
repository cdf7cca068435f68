----------------------------- MODULE AlertLedger -----------------------------
(***************************************************************************)
(* What alert ingestion promises: every ingest that commits is one atomic  *)
(* entry of the alert's event count, and appends one reconstruction job.   *)
(* No entry is ever lost, merged with another or counted twice.            *)
(***************************************************************************)
EXTENDS Integers

CONSTANT Alerts   \* alert episodes: (surface, time bucket) of one organization

VARIABLES
  counted,        \* ingests of each alert that took effect
  waiting         \* reconstruction jobs waiting for a worker

ledgerVars == <<counted, waiting>>

Init ==
  /\ counted = [a \in Alerts |-> 0]
  /\ waiting = 0

\* One accepted detection of alert a.
Record(a) ==
  /\ counted' = [counted EXCEPT ![a] = @ + 1]
  /\ waiting' = waiting + 1

\* The reconstruction worker commits the completion of one job.
Drain ==
  /\ waiting > 0
  /\ waiting' = waiting - 1
  /\ UNCHANGED counted

Next == (\E a \in Alerts : Record(a)) \/ Drain

Spec == Init /\ [][Next]_ledgerVars
=============================================================================
