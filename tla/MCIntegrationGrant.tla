------------------------ MODULE MCIntegrationGrant -------------------------
(***************************************************************************)
(* Instances of IntegrationGrant for TLC: the two connections of a Google   *)
(* consent, two workers, and one request of each other kind or two; or one   *)
(* connection, whose last disconnect is requested twice.                     *)
(***************************************************************************)
EXTENDS IntegrationGrant, TLC

CONSTANTS gsc, ga4, w1, w2, c1, c2, d1, d2, k1, k2

OneConnectionEach == [d \in Removers |-> IF d = d1 THEN gsc ELSE ga4]
SameConnection == [d \in Removers |-> gsc]
=============================================================================
