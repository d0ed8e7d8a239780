------------------------ MODULE MCAssessmentSession ------------------------
(* Small instances of AssessmentSession for TLC. *)
EXTENDS AssessmentSession, TLC

\* What each run lets the client send.
StartOps == {"start"}
GradingOps == {"start", "answer", "submit", "heartbeat"}
AllOps == TokenOps \cup {"start"}

\* Workers, ids and questions are interchangeable: each starts out the same and
\* no action names one.
Symmetry == Permutations(Workers) \cup Permutations(Ids) \cup Permutations(Questions)
=============================================================================
