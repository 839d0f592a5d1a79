--------------------------- MODULE MCSubscriptions ---------------------------
(***************************************************************************)
(* Webhook deliveries differ only in what they were handed, and the Stripe *)
(* subscriptions of a customer not at all; every property of the run is    *)
(* one of states, so that the symmetry is sound.                           *)
(***************************************************************************)
EXTENDS Subscriptions, TLC

Symmetry == Permutations(Hooks) \cup Permutations(Subs)
==============================================================================
