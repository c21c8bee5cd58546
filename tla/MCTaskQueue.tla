---------------------------- MODULE MCTaskQueue ----------------------------
(***************************************************************************)
(* An instance of TaskQueue for TLC: two worker processes, one of them with *)
(* two concurrency slots.                                                  *)
(***************************************************************************)
EXTENDS TaskQueue

CONSTANTS t1, t2, a1, a2, b1, procA, procB

\* One process with two slots and one with one.
TwoProcesses == [s \in {a1, a2, b1} |-> IF s = b1 THEN procB ELSE procA]
=============================================================================
