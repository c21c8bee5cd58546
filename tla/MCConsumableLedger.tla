------------------------- MODULE MCConsumableLedger -------------------------
(***************************************************************************)
(* Instances of ConsumableLedger for TLC: two grants that fund one task and *)
(* a bit of another between them.                                          *)
(***************************************************************************)
EXTENDS ConsumableLedger

CONSTANTS t1, t2, p1, p2, trial, plan

MCDrawOrder == <<trial, plan>>
MCValue == [g \in Grants |-> IF g = trial THEN 1 ELSE 2]
=============================================================================
