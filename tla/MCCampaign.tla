----------------------------- MODULE MCCampaign -----------------------------
(* Campaign for TLC: the recipients are alike, and so are the requests. *)
EXTENDS Campaign, TLC

Symmetry == Permutations(Rows) \cup Permutations(Requests)
=============================================================================
