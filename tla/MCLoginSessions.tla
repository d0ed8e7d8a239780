-------------------------- MODULE MCLoginSessions --------------------------
(* LoginSessions for TLC: ids are alike, and so are requests. *)
EXTENDS LoginSessions, TLC

Symmetry == Permutations(Workers) \cup Permutations(Ids)
=============================================================================
