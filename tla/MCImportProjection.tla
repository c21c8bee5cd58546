------------------------ MODULE MCImportProjection -------------------------
(***************************************************************************)
(* Instances of ImportProjection for TLC.  The two pages are GA4's referral *)
(* datasets, of which the traffic snapshot reads one.                        *)
(***************************************************************************)
EXTENDS ImportProjection

CONSTANTS gsc, ga4, scheduled, on_demand, s1, s2, p1, p2

GA4Pages == <<"referrer", "source_medium">>
OnePage == <<"source_medium">>
OneWindow == [w \in {"week"} |-> {1}]
TwoOverlapping == [w \in {"week", "next"} |-> IF w = "week" THEN {1, 2} ELSE {2, 3}]
=============================================================================
