----------------------------- MODULE MCFairClaim -----------------------------
(***************************************************************************)
(* Instances of FairClaim for TLC: a workspace with a backlog of the best   *)
(* base order and one that comes after it.                                 *)
(***************************************************************************)
EXTENDS FairClaim

CONSTANTS big, small, b1, b2, s1, s2, c1, c2

MCWorkspaceOf == [t \in Tasks |-> IF t \in {b1, b2} THEN big ELSE small]

\* The backlog first.
MCBaseRank == [t \in Tasks |->
  IF t = b1 THEN 1 ELSE IF t = b2 THEN 2 ELSE IF t = s1 THEN 3 ELSE 4]

MCTurnRank == [w \in Workspaces |-> IF w = big THEN 1 ELSE 2]
=============================================================================
