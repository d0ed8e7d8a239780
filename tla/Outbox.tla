------------------------------- MODULE Outbox -------------------------------
(***************************************************************************)
(* What the delivery of a notification promises about its records, however *)
(* often its jobs are cut off and run again: every message that a provider *)
(* took has a row of its own; a row is settled once, and as sent only when *)
(* there is something to show for it; and the column of the notification   *)
(* takes over one settled row at a time.                                   *)
(* Two things are excepted: after an error a message that was sent may be  *)
(* put down as failed; and when two jobs held copies of the column at a    *)
(* time, one may undo what the other wrote.                                *)
(* Delivery is shown to implement this.                                    *)
(***************************************************************************)
EXTENDS Naturals, Sequences

CONSTANTS
    Channels,
    InApp,   \* needs no provider
    Sms      \* has none

VARIABLES
    rows,       \* of every attempt: its channel, what became of it, and
                \* whether the provider took the message
    sends,      \* how many messages the provider of a channel took
    column,     \* what the notification says of each channel
    failed,     \* an error happened
    overlapped  \* two jobs held copies of the column at a time

records == <<rows, sends, column>>
ovars == <<records, failed, overlapped>>

Init ==
    /\ rows = <<>>
    /\ sends = [c \in Channels |-> 0]
    /\ column = [c \in Channels |-> "none"]
    /\ failed = FALSE
    /\ overlapped = FALSE

Open(c) ==
    /\ rows' = Append(rows, [ch |-> c, status |-> "pending", taken |-> FALSE])
    /\ UNCHANGED <<sends, column>>

Take(i) ==
    /\ rows[i].status = "pending" /\ ~rows[i].taken
    /\ rows[i].ch \notin {InApp, Sms}
    /\ rows' = [rows EXCEPT ![i].taken = TRUE]
    /\ sends' = [sends EXCEPT ![rows[i].ch] = @ + 1]
    /\ UNCHANGED column

Settle(i, outcome) ==
    /\ rows[i].status = "pending"
    /\ outcome = "sent" => rows[i].taken \/ rows[i].ch = InApp
    /\ outcome = "failed" /\ rows[i].taken => failed
    /\ rows' = [rows EXCEPT ![i].status = outcome]
    /\ UNCHANGED <<sends, column>>

Retract(i) ==
    /\ rows[i].status = "sent" /\ failed
    /\ rows' = [rows EXCEPT ![i].status = "failed"]
    /\ UNCHANGED <<sends, column>>

\* Some provider did take a message for a channel that is shown as sent.
Founded(c) == column'[c] = "sent" => c = InApp \/ sends[c] > 0

Publish(i) ==
    /\ rows[i].status # "pending"
    /\ column' \in [Channels -> {"none", "sent", "failed"}]
    /\ \A c \in Channels :
         /\ c = rows[i].ch => column'[c] = rows[i].status
         /\ c # rows[i].ch => column'[c] = column[c] \/ (overlapped /\ Founded(c))
    /\ UNCHANGED <<rows, sends>>

Step ==
    \/ \E c \in Channels : Open(c)
    \/ \E i \in DOMAIN rows :
        \/ Take(i)
        \/ \E outcome \in {"sent", "failed"} : Settle(i, outcome)
        \/ Retract(i)
        \/ Publish(i)
    \/ UNCHANGED records

\* An error may come with any step; what has gone wrong stays so.
Next ==
    /\ Step
    /\ failed' \in {failed, TRUE}
    /\ overlapped' \in {overlapped, TRUE}

Spec == Init /\ [][Next]_ovars

-----------------------------------------------------------------------------
(* What follows. *)

\* The notification claims no message that nobody took.
Claims == \A c \in Channels : column[c] = "sent" => c = InApp \/ sends[c] > 0
=============================================================================
