----------------------------- MODULE MCBilling ------------------------------
(***************************************************************************)
(* Instances of Billing for TLC: one or two base plans and top-ups, a key     *)
(* that is retried, and concurrent deliveries.                                *)
(***************************************************************************)
EXTENDS Billing, TLC

CONSTANTS base, other, topup, extra, r1, r2, r3, r4, r5, h1, h2

KeyOf == [r \in Requests |->
            CASE r = r3 -> topup [] r = r4 -> other [] r = r5 -> extra [] OTHER -> base]

\* A retried key and concurrent deliveries, or two top-ups that share the batch.
RetriedOrQueued == {{r1, r2, r3, h1, h2}, {r1, r3, r5}}

\* The course of a base plan: always renewed, or fallen due.
Renews == [n \in 1 .. LastState |-> "active"]
FallsDue == [n \in 1 .. LastState |-> IF n = 2 THEN "unpaid" ELSE "active"]
=============================================================================
