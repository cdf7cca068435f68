------------------------- MODULE MCMonitoringIngest -------------------------
(* Two monitors and four requests: two of them report the same event, one     *)
(* another event of the same alert episode, one matches no decoy.  One is     *)
(* stamped ahead of the clock.                                                *)
EXTENDS MonitoringIngest, TLC
CONSTANTS m1, m2, r1, r2, r3, r4, e1, e2, a1
MCMonitorOf == r1 :> m1 @@ r2 :> m2 @@ r3 :> m1 @@ r4 :> m2
MCEventOf == r1 :> e1 @@ r2 :> e1 @@ r3 :> e2 @@ r4 :> NoEvent
MCAlertOf == e1 :> a1 @@ e2 :> a1
MCStampOf == r1 :> 1 @@ r2 :> 0 @@ r3 :> 0 @@ r4 :> 0
=============================================================================
