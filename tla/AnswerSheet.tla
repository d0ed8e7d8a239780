---------------------------- MODULE AnswerSheet ----------------------------
(***************************************************************************)
(* What taking an assessment promises about the answers, to a client that  *)
(* awaits each reply and on top of a cache that does what it is told: the  *)
(* sheet of a session takes up one answer at a time and loses none, what   *)
(* is acknowledged is on it, and what is handed in is the sheet, as it is. *)
(* After a crash a step may go by a sheet that lacks what was never        *)
(* acknowledged, and a paper that was handed in may be taken up again.     *)
(* AssessmentSession is shown to implement this.                           *)
(***************************************************************************)
CONSTANTS
    Ids,
    Questions,
    Reliable  \* whether client and cache are of that kind

VARIABLES
    sheet,   \* the questions a session has an answer to
    acked,   \* those of which the client was told so
    paper,   \* what has become of the attempt, and its answers
    crashed  \* the process has died

records == <<sheet, acked, paper>>
avars == <<records, crashed>>

Init ==
    /\ sheet = [i \in Ids |-> {}]
    /\ acked = [i \in Ids |-> {}]
    /\ paper = [i \in Ids |-> [status |-> "open", answers |-> {}]]
    /\ crashed = FALSE

\* A step may find S on the sheet.
Finds(i, S) == acked[i] \subseteq S /\ (crashed \/ S = sheet[i])

\* An attempt that is handed in is over.
Writable(i) == crashed \/ paper[i].status # "submitted"

Write(i, q) ==
    /\ Writable(i)
    /\ \E S \in SUBSET sheet[i] :
         Finds(i, S) /\ sheet' = [sheet EXCEPT ![i] = S \cup {q}]
    /\ UNCHANGED <<acked, paper>>

Acknowledge(i, q) ==
    /\ Writable(i)
    /\ q \in sheet[i]
    /\ acked' = [acked EXCEPT ![i] = @ \cup {q}]
    /\ UNCHANGED <<sheet, paper>>

Submit(i) ==
    /\ Writable(i)
    /\ \E S \in SUBSET sheet[i] :
         /\ Finds(i, S)
         /\ paper' = [paper EXCEPT ![i] = [status |-> "submitted", answers |-> S]]
    /\ UNCHANGED <<sheet, acked>>

\* The time is up: at worst, what was on the sheet a moment ago.
TimeOut(i) ==
    /\ \E S \in (SUBSET Questions) \ {{}} :
         /\ crashed \/ S \subseteq sheet[i]
         /\ paper' = [paper EXCEPT ![i] = [status |-> "timed_out", answers |-> S]]
    /\ UNCHANGED <<sheet, acked>>

Step ==
    \/ \E i \in Ids :
        \/ \E q \in Questions : Write(i, q) \/ Acknowledge(i, q)
        \/ Submit(i)
        \/ TimeOut(i)
    \/ UNCHANGED records

\* The process may die at any time.
Next == Reliable => Step /\ crashed' \in {crashed, TRUE}

Spec == Init /\ [][Next]_avars

-----------------------------------------------------------------------------
(* What follows. *)

\* What the client was told is saved is on the sheet.
Acknowledged == Reliable => \A i \in Ids : acked[i] \subseteq sheet[i]

\* What was handed in is the sheet, and the sheet stays as it is; unless the
\* process died.
AsHandedIn ==
    Reliable /\ ~crashed =>
        \A i \in Ids : paper[i].status = "submitted" => paper[i].answers = sheet[i]
=============================================================================
