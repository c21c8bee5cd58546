------------------------- MODULE MCProviderCapacity -------------------------
(***************************************************************************)
(* Instances of ProviderCapacity for TLC: BYOK attempts on one connection   *)
(* and funded attempts of one account, over one transport.                  *)
(***************************************************************************)
EXTENDS ProviderCapacity

CONSTANTS w1, w2, w3, byok1, byok2, fund1, fund2,
          transport, connection, fundedGlobal, fundedAccount

MCDraws == [a \in Attempts |->
  IF a \in Funded THEN <<transport, fundedGlobal, fundedAccount>>
                  ELSE <<transport, connection>>]

\* The transport takes two calls at a time, every other pool one.
MCCeiling == [p \in Pools |-> IF p = transport THEN 2 ELSE 1]
=============================================================================
