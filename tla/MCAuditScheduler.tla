--------------------------- MODULE MCAuditScheduler ---------------------------
(***************************************************************************)
(* Instances of AuditScheduler for TLC: two scheduler processes.            *)
(***************************************************************************)
EXTENDS AuditScheduler

CONSTANTS s1, s2
=============================================================================
