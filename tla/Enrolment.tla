----------------------------- MODULE Enrolment -----------------------------
(***************************************************************************)
(* What the payments of one student promise about enrolment, whatever the  *)
(* order in which notifications arrive, are repeated or are cut off: an    *)
(* order that is not settled enrols nobody, and an order that is settled   *)
(* enrols in all of its courses at once or in none.                        *)
(* Checkout is shown to implement this.                                    *)
(***************************************************************************)
CONSTANTS Courses, Orders

VARIABLES
    placed,    \* orders the student has placed
    items,     \* the courses of an order
    settled,   \* orders that have been marked as completed
    granted,   \* courses the student was enrolled in without an order
    enrolled   \* courses the student is enrolled in

evars == <<placed, items, settled, granted, enrolled>>

Init ==
    /\ placed = {}
    /\ items = [o \in Orders |-> {}]
    /\ settled = {}
    /\ granted = {}
    /\ enrolled = {}

Place(o, S) ==
    /\ o \notin placed
    /\ placed' = placed \cup {o}
    /\ items' = [items EXCEPT ![o] = S]
    /\ UNCHANGED <<settled, granted, enrolled>>

Settle(o) ==
    /\ o \in placed
    /\ settled' = settled \cup {o}
    /\ UNCHANGED <<placed, items, granted, enrolled>>

Enrol(o) ==
    /\ o \in settled
    /\ enrolled' = enrolled \cup items[o]
    /\ UNCHANGED <<placed, items, settled, granted>>

Grant(c) ==
    /\ granted' = granted \cup {c}
    /\ enrolled' = enrolled \cup {c}
    /\ UNCHANGED <<placed, items, settled>>

Next ==
    \/ \E o \in Orders :
        \/ \E S \in SUBSET Courses : Place(o, S)
        \/ Settle(o)
        \/ Enrol(o)
    \/ \E c \in Courses : Grant(c)

Spec == Init /\ [][Next]_evars

-----------------------------------------------------------------------------
(* What follows. *)

\* The courses are those granted and those of some settled orders, each with
\* all it has: no order is ever fulfilled in part.
InWhole ==
    \E S \in SUBSET settled : enrolled = granted \cup UNION {items[o] : o \in S}
=============================================================================
