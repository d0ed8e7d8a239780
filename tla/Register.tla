------------------------------ MODULE Register ------------------------------
(***************************************************************************)
(* What the login sessions of a user promise, however their requests       *)
(* overlap: a session that was destroyed is gone and nobody is let in by   *)
(* it; and the user's list has every session that is alive.                *)
(* The exceptions are promised as well.  A session comes back only through *)
(* a request that held a copy when it went ("echoed"); the list drops a    *)
(* live session only when that session is on its way out ("leaving") or    *)
(* its writer had not seen it ("lost"); and a call of the cache may fail.  *)
(* LoginSessions is shown to implement this.                               *)
(***************************************************************************)

CONSTANT Ids

VARIABLES
    alive,      \* the sessions there are
    shown,      \* the user's list
    listed,     \* what was in the list at any time
    ended,      \* what was destroyed
    late,       \* what a request was let in by that began after the end
    leaving, echoed, lost, forgotten, failed  \* the exceptions

records == <<alive, shown, listed, ended, late>>
rvars == <<records, leaving, echoed, lost, forgotten, failed>>

Init ==
    /\ alive = {} /\ shown = {} /\ listed = {} /\ ended = {} /\ late = {}
    /\ leaving = {} /\ echoed = {} /\ lost = {} /\ forgotten = {} /\ failed = {}

Excused == leaving \cup echoed \cup lost \cup failed

Open(s) ==
    /\ s \notin listed
    /\ alive' = alive \cup {s}
    /\ UNCHANGED <<shown, listed, ended, late>>

\* The list is replaced; what it does not show any more is gone or excused.
Relist ==
    /\ shown' \subseteq Ids
    /\ (shown \ shown') \cap alive \subseteq Excused'
    /\ listed' = listed \cup shown'
    /\ UNCHANGED <<alive, ended, late>>

End(s) ==
    /\ s \in listed
    /\ ended' = ended \cup {s}
    /\ alive' = alive \ {s} \/ (alive' = alive /\ s \in failed')
    /\ UNCHANGED <<shown, listed, late>>

Expire(s) ==
    /\ alive' = alive \ {s}
    /\ UNCHANGED <<shown, listed, ended, late>>

\* A request is let in by s and may write s back.
Visit(s) ==
    /\ alive' = alive \/ (s \in echoed /\ alive' = alive \cup {s})
    /\ \/ late' = late
       \/ /\ late' = late \cup {s}
          /\ s \in ended \cap ((echoed \cap forgotten) \cup failed)
    /\ UNCHANGED <<shown, listed, ended>>

Step ==
    \/ \E s \in Ids : Open(s) \/ End(s) \/ Expire(s) \/ Visit(s)
    \/ Relist
    \/ UNCHANGED records

\* How the exceptions come about, with whichever step.
Exceptions ==
    /\ leaving' \ leaving \subseteq listed \ shown'
    /\ (leaving \ leaving') \cap alive' \subseteq failed'
    /\ echoed \subseteq echoed' /\ echoed' \ echoed \subseteq alive \ alive'
    /\ lost \subseteq lost' /\ lost' \ lost \subseteq shown \ shown'
    /\ forgotten \subseteq forgotten'
    /\ failed \subseteq failed'

Next == Step /\ Exceptions

Spec == Init /\ [][Next]_rvars

-----------------------------------------------------------------------------
(* What follows. *)

\* The list has every session that is alive and was ever in it.
Complete == alive \cap listed \subseteq shown \cup Excused

\* What was destroyed is gone.
Final == ended \cap alive \subseteq echoed \cup failed
=============================================================================
