-------------------------- MODULE MCSubscriptions --------------------------
(* Subscriptions for TLC; the bounds are in the configurations *)
EXTENDS Subscriptions
=============================================================================
