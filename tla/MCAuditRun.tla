----------------------------- MODULE MCAuditRun -----------------------------
(***************************************************************************)
(* Instances of AuditRun for TLC: two worker processes with one slot each.  *)
(***************************************************************************)
EXTENDS AuditRun, TLC

CONSTANTS t1, t2, a1, b1, procA, procB

OnePerProcess == [s \in {a1, b1} |-> IF s = a1 THEN procA ELSE procB]
=============================================================================
