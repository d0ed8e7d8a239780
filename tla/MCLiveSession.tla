--------------------------- MODULE MCLiveSession ---------------------------
(* LiveSession for TLC: requests are alike, and so are the users but the host. *)
EXTENDS LiveSession, TLC

Symmetry == Permutations(Workers) \cup Permutations(Users \ {Host})
=============================================================================
