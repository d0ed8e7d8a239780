------------------------------ MODULE Mailing ------------------------------
(***************************************************************************)
(* What the sending of a campaign promises its recipients, however often   *)
(* it is paused, resumed, cut off and begun again: a mail goes only to     *)
(* somebody who is pending, a row is settled once and as "sent" only when  *)
(* the provider took a mail for it, and the campaign is done when nobody   *)
(* is pending any more.                                                    *)
(* Two things are excepted: when two jobs overlapped, a settled recipient  *)
(* may be mailed and settled again; and a campaign that somebody stopped   *)
(* may count as done early.                                                *)
(* Campaign is shown to implement this.                                    *)
(***************************************************************************)
EXTENDS Naturals

CONSTANT Rows

VARIABLES
    row,         \* "pending", or the outcome, of each recipient
    mailed,      \* how many mails the provider took for each
    done,        \* the campaign is marked as sent
    stopped,     \* somebody stopped it
    overlapped   \* two jobs were sending at the same time

mvars == <<row, mailed, done, stopped, overlapped>>

Init ==
    /\ row = [r \in Rows |-> "pending"]
    /\ mailed = [r \in Rows |-> 0]
    /\ done = FALSE
    /\ stopped = FALSE
    /\ overlapped = FALSE

Open(r) == row[r] = "pending" \/ overlapped

Mail(S) ==
    /\ \A r \in S : Open(r)
    /\ mailed' = [r \in Rows |-> IF r \in S THEN mailed[r] + 1 ELSE mailed[r]]
    /\ UNCHANGED <<row, done, stopped, overlapped>>

Settle(r, outcome) ==
    /\ Open(r)
    /\ outcome = "sent" => mailed[r] > 0
    /\ row' = [row EXCEPT ![r] = outcome]
    /\ UNCHANGED <<mailed, done, stopped, overlapped>>

Finish ==
    /\ stopped \/ \A r \in Rows : row[r] # "pending"
    /\ done' = TRUE
    /\ UNCHANGED <<row, mailed, stopped, overlapped>>

\* By a request that had looked at the campaign before it was done.
Reopen ==
    /\ done' = FALSE
    /\ UNCHANGED <<row, mailed, stopped, overlapped>>

Stop ==
    /\ ~done
    /\ stopped' = TRUE
    /\ UNCHANGED <<row, mailed, done, overlapped>>

Overlap ==
    /\ ~done
    /\ overlapped' = TRUE
    /\ UNCHANGED <<row, mailed, done, stopped>>

Next ==
    \/ \E S \in SUBSET Rows : Mail(S)
    \/ \E r \in Rows, outcome \in {"sent", "failed"} : Settle(r, outcome)
    \/ Finish \/ Reopen \/ Stop \/ Overlap

Spec == Init /\ [][Next]_mvars

-----------------------------------------------------------------------------
(* What follows. *)

\* Who is marked as sent was mailed.
Honest == \A r \in Rows : row[r] = "sent" => mailed[r] > 0

\* A campaign that is done has nobody pending, unless somebody stopped it.
Thorough == done => stopped \/ \A r \in Rows : row[r] # "pending"
=============================================================================
