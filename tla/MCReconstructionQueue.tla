----------------------- MODULE MCReconstructionQueue -----------------------
(* Two alerts of one trace that reach each other, of which the second is   *)
(* widened by a merge into an earlier bucket; a third belongs to another   *)
(* organization.                                                           *)
EXTENDS ReconstructionQueue, TLC

CONSTANTS a1, a2, b1, t1, t2, o1, o2

Span(first, last) == [first |-> first, last |-> last]
MCTraceOf == [a \in Alerts |-> IF a = b1 THEN t2 ELSE t1]
MCOrgOf == t1 :> o1 @@ t2 :> o2
MCSurfaceOf == [a \in Alerts |-> "text"]
MCSpans == a1 :> <<Span(0, 0)>> @@ a2 :> <<Span(2, 2), Span(1, 3)>> @@ b1 :> <<Span(0, 0)>>
=============================================================================
