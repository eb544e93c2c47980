----------------------------- MODULE MCBilling -----------------------------
(* One tenant, one request and Stripe, for what a paid plan changes.       *)
EXTENDS Billing

CONSTANTS t1, r1

Caps == [p \in Tiers |-> [s \in Resources |-> IF p = "starter" THEN 1 ELSE 2]]
=============================================================================
