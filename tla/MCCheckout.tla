----------------------------- MODULE MCCheckout -----------------------------
(* Checkout for TLC: the gateways' words, and the values that are alike. *)
EXTENDS Checkout, TLC

NoKinds == {}
OneSuccess == {"checkout.session.completed"}
TwoSuccesses == {"checkout.session.completed", "charge.succeeded"}
Declines == {"payment_intent.payment_failed"}

Symmetry == Permutations(Handlers) \cup Permutations(Orders) \cup Permutations(Courses)
=============================================================================
