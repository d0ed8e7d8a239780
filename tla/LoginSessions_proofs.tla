----------------------- MODULE LoginSessions_proofs -----------------------
(* Theorems about LoginSessions, for any workers, ids, limit and number of *)
(* losses.                                                                 *)
EXTENDS LoginSessions, FiniteSetTheorems, TLAPS

\* Where a login stands before and after its session is put into the index, and
\* where a session is destroyed.
Asking == {"index", "look", "prune"}
At(w, places, caller) == job[w].at \in places \/ (job[w].at \in Asking /\ job[w].for = caller)
Entering(w) == At(w, {"store", "add"}, "add")
Entered(w) == At(w, {"limit"}, "limit")
Destroying(w) == At(w, {"find", "remove", "bar", "drop"}, "remove")
Serving(w) == job[w].at \in {"guard", "load", "touch", "renew", "logout"}

\* What getUserSessions did not keep of the index has no entry.
ListsOK(w) ==
    /\ job[w].left \subseteq job[w].base
    /\ job[w].kept \subseteq job[w].base
    /\ job[w].base \subseteq was.listed
    /\ job[w].at # "look" => job[w].left = {}
    /\ entry \cap (job[w].base \ (job[w].left \cup job[w].kept)) \subseteq was.raced \cup was.failed

\* Who works on which session.
PlaceOK(w) ==
    /\ Entering(w) => job[w].sid \in was.used \ (was.acked \cup was.listed)
    /\ Entered(w) => job[w].sid \in (was.used \ was.acked) \cap (was.listed \cup was.failed)
    /\ job[w].at = "owned" \/ Destroying(w) => job[w].sid \in was.listed
    /\ Serving(w) => job[w].sid \in was.acked

\* Two logins have two sessions.
Apart ==
    \A w, u \in Workers :
        /\ w # u
        /\ Entering(w) \/ Entered(w)
        /\ Entering(u) \/ Entered(u)
        => job[w].sid # job[u].sid

\* What a request knows that is about to let a client in or to write an entry back.
LateOK(w) ==
    /\ job[w].at = "renew" /\ job[w].sid \notin entry => job[w].sid \in was.raced
    /\ job[w].at = "drop" => job[w].sid \in black \cup was.forgotten \cup was.failed
    /\ job[w].late /\ job[w].at \in {"load", "touch", "renew"} =>
         job[w].sid \in was.ended \cap (was.forgotten \cup was.failed)
    /\ job[w].late /\ job[w].at \in {"touch", "renew"} =>
         job[w].sid \in was.raced \cup was.failed

\* Past its reading of the index destroyAllUserSessions has every session that was
\* there before it.
SweepOK(w) ==
    /\ job[w].todo \subseteq was.listed
    /\ job[w].seen \subseteq was.acked
    /\ job[w].sweeps /\ job[w].at # "sweep" =>
         job[w].seen \cap entry \subseteq
           job[w].todo \cup {job[w].sid} \cup Excused

Good(w) == ListsOK(w) /\ PlaceOK(w) /\ LateOK(w) /\ SweepOK(w)

Known ==
    /\ index \subseteq was.listed
    /\ was.listed \subseteq was.used
    /\ was.acked \subseteq was.used \cap (was.listed \cup was.failed)
    /\ was.ended \subseteq was.listed

EndedOK ==
    /\ was.ended \subseteq black \cup was.forgotten \cup was.failed
    /\ was.ended \cap entry \subseteq was.raced \cup was.failed

Overall == Known /\ EndedOK /\ IndexComplete /\ EndedStaysOut /\ SweepComplete

Inv ==
    /\ TypeOK
    /\ Apart
    /\ Overall
    /\ \A w \in Workers : Good(w)

-----------------------------------------------------------------------------
(* Types. *)

LEMMA IdleType == Idle \in Job
  BY DEF Idle, Job, PC, Callers

LEMMA InitInv == Init => Inv
<1> SUFFICES ASSUME Init
             PROVE  Inv
  OBVIOUS
<1>1. TypeOK
  BY IdleType DEF Init, TypeOK, History
<1>2. \A w \in Workers : job[w] = Idle
  BY DEF Init
<1>3. \A w \in Workers : Good(w)
  BY <1>2 DEF Idle, Good, ListsOK, PlaceOK, LateOK, SweepOK, At, Asking, Entering, Entered,
              Destroying, Serving
<1>4. Apart
  BY <1>2 DEF Apart, Idle, At, Asking, Entering, Entered
<1>5. Known /\ EndedOK /\ IndexComplete /\ EndedStaysOut /\ SweepComplete
  BY DEF Init, Known, EndedOK, IndexComplete, EndedStaysOut, SweepComplete, Excused
<1>6. QED
  BY <1>1, <1>3, <1>4, <1>5 DEF Inv, Overall

\* A request that works on a session has its id.
LEMMA HasId ==
    ASSUME Inv, NEW w \in Workers,
           Entering(w) \/ Entered(w) \/ Destroying(w) \/ Serving(w) \/ job[w].at = "owned"
    PROVE  job[w].sid \in Ids
<1>1. PlaceOK(w) /\ Known /\ was \in History
  BY DEF Inv, Good, Overall, TypeOK
<1>2. QED
  BY <1>1 DEF PlaceOK, Known, History

\* A request goes on with a record of the right type.
LEMMA JobTypes ==
    ASSUME TypeOK, NEW w \in Workers, NEW v \in Job, job' = [job EXCEPT ![w] = v]
    PROVE  job' \in [Workers -> Job]
  BY DEF TypeOK

LEMMA GoTypes ==
    ASSUME TypeOK, NEW w \in Workers, NEW label \in PC, Go(w, label) \/ Leave(w)
    PROVE  job' \in [Workers -> Job]
  BY IdleType DEF TypeOK, Go, Leave, Job

LEMMA ReceiveTypes ==
    ASSUME TypeOK, NEW w \in Workers, NEW op, NEW s \in Ids \cup {NoId}, NEW label \in PC,
           Receive(w, op, s, label)
    PROVE  job' \in [Workers -> Job]
<1>1. [Idle EXCEPT !.at = label, !.sid = s] \in Job
  BY IdleType DEF Job
<1>2. QED
  BY <1>1, JobTypes DEF Receive

LEMMA LossTypes ==
    ASSUME TypeOK, Lose \/ UNCHANGED losses
    PROVE  losses' \in Nat
  BY DEF TypeOK, Lose

LEMMA AfterLookIs ==
    ASSUME NEW w \in Workers, NEW left, NEW kept
    PROVE  /\ AfterLook(w, left, kept) \in {"look", "prune", job[w].for}
           /\ AfterLook(w, left, kept) = "look" \/ left = {}
<1>1. CASE left # {}
  <2>1. AfterLook(w, left, kept) = "look"
    BY <1>1, Zenon DEF AfterLook
  <2>2. QED
    BY <2>1
<1>2. CASE left = {} /\ kept # job[w].base
  <2>1. AfterLook(w, left, kept) = "prune"
    BY <1>2, Zenon DEF AfterLook
  <2>2. QED
    BY <1>2, <2>1
<1>3. CASE left = {} /\ kept = job[w].base
  <2>1. AfterLook(w, left, kept) = job[w].for
    BY <1>3, Zenon DEF AfterLook
  <2>2. QED
    BY <1>3, <2>1
<1>4. QED
  BY <1>1, <1>2, <1>3

LEMMA TypesStep == Inv /\ [Next]_vars => TypeOK'
<1> SUFFICES ASSUME Inv, [Next]_vars
             PROVE  TypeOK'
  OBVIOUS
<1> USE DEF If
<1>1. TypeOK
  BY DEF Inv
<1>2. ASSUME NEW w \in Workers, Arrive(w)
      PROVE  TypeOK'
  <2>1. ASSUME AskList(w)
        PROVE  TypeOK'
    <3>1. job' \in [Workers -> Job]
      BY <1>1, <2>1, ReceiveTypes DEF AskList, PC
    <3>2. QED
      BY <1>1, <2>1, <3>1 DEF AskList, Receive, TypeOK
  <2>2. ASSUME LogoutAll(w)
        PROVE  TypeOK'
    <3>1. [Idle EXCEPT !.at = "sweep", !.sweeps = TRUE,
                       !.seen = (entry \cap was.acked) \ was.unlisted] \in Job
      BY <1>1, IdleType DEF TypeOK, Job, PC
    <3>2. job' \in [Workers -> Job]
      BY <1>1, <2>2, <3>1, JobTypes DEF LogoutAll
    <3>3. QED
      BY <1>1, <2>2, <3>2 DEF LogoutAll, TypeOK
  <2>3. ASSUME NEW s \in Ids, Login(w, s)
        PROVE  TypeOK'
    <3>1. job' \in [Workers -> Job]
      BY <1>1, <2>3, ReceiveTypes DEF Login, PC
    <3>2. QED
      BY <1>1, <2>3, <3>1 DEF Login, Receive, TypeOK, History
  <2>4. ASSUME NEW s \in Ids, Logout(w, s)
        PROVE  TypeOK'
    <3>1. job' \in [Workers -> Job]
      BY <1>1, <2>4, ReceiveTypes DEF Logout, PC
    <3>2. QED
      BY <1>1, <2>4, <3>1 DEF Logout, Receive, TypeOK
  <2>5. ASSUME NEW s \in Ids, Terminate(w, s)
        PROVE  TypeOK'
    <3>1. job' \in [Workers -> Job]
      BY <1>1, <2>5, ReceiveTypes DEF Terminate, PC
    <3>2. QED
      BY <1>1, <2>5, <3>1 DEF Terminate, Receive, TypeOK
  <2>6. ASSUME NEW s \in Ids, Request(w, s)
        PROVE  TypeOK'
    <3>1. job' \in [Workers -> Job]
      BY <1>1, <2>6, ReceiveTypes DEF Request, PC
    <3>2. QED
      BY <1>1, <2>6, <3>1 DEF Request, Receive, TypeOK
  <2>7. QED
    BY <1>2, <2>1, <2>2, <2>3, <2>4, <2>5, <2>6 DEF Arrive
<1>3. ASSUME NEW w \in Workers, NEW ok \in BOOLEAN, ReadIndex(w, ok)
      PROVE  TypeOK'
  <2>. DEFINE read == If(ok, index)
  <2>1. job[w] \in Job /\ read \in SUBSET Ids
    BY <1>1 DEF TypeOK
  <2>. DEFINE label == IF read = {} THEN job[w].for ELSE "look"
  <2>2. label \in PC
    BY <2>1 DEF Job, Callers, PC
  <2>3. [job[w] EXCEPT !.base = read, !.left = read, !.kept = {}, !.at = label] \in Job
    BY <2>1, <2>2 DEF Job
  <2>4. job' = [job EXCEPT ![w] =
                  [job[w] EXCEPT !.base = read, !.left = read, !.kept = {}, !.at = label]]
    BY <1>1, <1>3 DEF ReadIndex, TypeOK, Job
  <2>5. job' \in [Workers -> Job]
    BY <1>1, <2>3, <2>4, JobTypes
  <2>6. losses' \in Nat
    BY <1>1, <1>3, LossTypes DEF ReadIndex, Call
  <2>7. was' \in History
    BY <1>1, <1>3, <2>1 DEF ReadIndex, TypeOK, History, Job
  <2>8. QED
    BY <1>1, <1>3, <2>5, <2>6, <2>7 DEF ReadIndex, TypeOK
<1>4. ASSUME NEW w \in Workers, NEW ok \in BOOLEAN, NEW s \in Ids, Look(w, s, ok)
      PROVE  TypeOK'
  <2>. DEFINE left == job[w].left \ {s}
              kept == job[w].kept \cup If(ok /\ s \in entry, {s})
              label == AfterLook(w, left, kept)
  <2>1. job[w] \in Job /\ left \in SUBSET Ids /\ kept \in SUBSET Ids
    BY <1>1 DEF TypeOK, Job
  <2>2. label \in PC
    BY <2>1, AfterLookIs DEF Job, Callers, PC
  <2>3. [job[w] EXCEPT !.left = left, !.kept = kept, !.at = label] \in Job
    BY <2>1, <2>2 DEF Job
  <2>4. job' = [job EXCEPT ![w] = [job[w] EXCEPT !.left = left, !.kept = kept, !.at = label]]
    BY <1>1, <1>4 DEF Look, TypeOK, Job
  <2>5. job' \in [Workers -> Job]
    BY <1>1, <2>3, <2>4, JobTypes
  <2>6. losses' \in Nat
    BY <1>1, <1>4, LossTypes DEF Look, Call
  <2>7. QED
    BY <1>1, <1>4, <2>5, <2>6 DEF Look, TypeOK, History
<1>5. ASSUME NEW w \in Workers, NEW ok \in BOOLEAN, Prune(w, ok)
      PROVE  TypeOK'
  <2>1. losses' \in Nat
    BY <1>1, <1>5, LossTypes DEF Prune, Call
  <2>2. job[w] \in Job /\ job[w].for \in PC
    BY <1>1 DEF TypeOK, Job, Callers, PC
  <2>3. job' \in [Workers -> Job]
    BY <1>1, <1>5, <2>2, GoTypes DEF Prune
  <2>4. was' \in History
    BY <1>1, <1>5 DEF Prune, TypeOK, History, Unseen
  <2>5. QED
    BY <1>1, <1>5, <2>1, <2>2, <2>3, <2>4 DEF Prune, TypeOK, Job
<1>6. ASSUME NEW w \in Workers, NEW ok \in BOOLEAN, Store(w, ok)
      PROVE  TypeOK'
  <2>1. job[w].sid \in Ids
    BY <1>6, HasId DEF Store, Entering, At
  <2>2. losses' \in Nat
    BY <1>1, <1>6, LossTypes DEF Store, Call
  <2>3. job[w] \in Job
    BY <1>1 DEF TypeOK
  <2>4. [job[w] EXCEPT !.at = "index", !.for = "add"] \in Job
    BY <2>3 DEF Job, PC, Callers
  <2>5. job' = [job EXCEPT ![w] = [job[w] EXCEPT !.at = "index", !.for = "add"]]
    BY <1>1, <1>6 DEF Store, GetSessions, TypeOK, Job
  <2>6. job' \in [Workers -> Job]
    BY <1>1, <2>4, <2>5, JobTypes
  <2>7. QED
    BY <1>1, <1>6, <2>1, <2>2, <2>6 DEF Store, TypeOK, History
<1>7. ASSUME NEW w \in Workers, NEW ok \in BOOLEAN, Add(w, ok) \/ Remove(w, ok)
      PROVE  TypeOK'
  <2>1. job[w].sid \in Ids
    BY <1>7, HasId DEF Add, Remove, Entering, Destroying, At
  <2>2. losses' \in Nat
    BY <1>1, <1>7, LossTypes DEF Add, Remove, Call
  <2>3. job[w] \in Job
    BY <1>1 DEF TypeOK
  <2>4. /\ [Cleared(w) EXCEPT !.at = "index", !.for = "limit"] \in Job
        /\ [Cleared(w) EXCEPT !.at = "bar"] \in Job
    BY <2>3 DEF Cleared, Job, PC, Callers
  <2>5. job' \in [Workers -> Job]
    BY <1>1, <1>7, <2>4, JobTypes DEF Add, Remove
  <2>6. was' \in History
    <3>1. was \in History /\ \A S : Unseen(w, S) \subseteq Ids
      BY <1>1 DEF TypeOK, Unseen
    <3>2. CASE Add(w, ok)
      BY <2>1, <3>1, <3>2, ZenonT(60) DEF Add, History
    <3>3. CASE Remove(w, ok)
      BY <2>1, <3>1, <3>3 DEF Remove, History
    <3>4. QED
      BY <1>7, <3>2, <3>3
  <2>7. index' \subseteq Ids
    BY <1>1, <1>7, <2>1, <2>3 DEF Add, Remove, TypeOK, Job
  <2>8. QED
    BY <1>1, <1>7, <2>2, <2>5, <2>6, <2>7 DEF Add, Remove, TypeOK
<1>8. ASSUME NEW w \in Workers, NEW ok \in BOOLEAN, Owned(w, ok) \/ Load(w, ok)
      PROVE  TypeOK'
  <2>1. losses' \in Nat
    BY <1>1, <1>8, LossTypes DEF Owned, Load, Call
  <2>2. job' \in [Workers -> Job]
    BY <1>1, <1>8, GoTypes DEF Owned, Load, PC
  <2>3. QED
    BY <1>1, <1>8, <2>1, <2>2 DEF Owned, Load, TypeOK
<1>9. ASSUME NEW w \in Workers, NEW ok \in BOOLEAN, Find(w, ok)
      PROVE  TypeOK'
  <2>1. job[w].sid \in Ids
    BY <1>9, HasId DEF Find, Destroying, At
  <2>2. losses' \in Nat
    BY <1>1, <1>9, LossTypes DEF Find, Call
  <2>3. job[w] \in Job
    BY <1>1 DEF TypeOK
  <2>4. [job[w] EXCEPT !.at = "index", !.for = "remove"] \in Job
    BY <2>3 DEF Job, PC, Callers
  <2>5. \/ job' = [job EXCEPT ![w] = [job[w] EXCEPT !.at = "index", !.for = "remove"]]
        \/ Go(w, "bar")
    BY <1>1, <1>9 DEF Find, GetSessions, TypeOK, Job
  <2>6. job' \in [Workers -> Job]
    BY <1>1, <2>4, <2>5, JobTypes, GoTypes DEF PC
  <2>7. QED
    BY <1>1, <1>9, <2>1, <2>2, <2>6 DEF Find, TypeOK, History
<1>10. ASSUME NEW w \in Workers, NEW ok \in BOOLEAN, Bar(w, ok)
      PROVE  TypeOK'
  <2>1. job[w].sid \in Ids
    BY <1>10, HasId DEF Bar, Destroying, At
  <2>2. losses' \in Nat
    BY <1>1, <1>10, LossTypes DEF Bar, Call
  <2>3. job' \in [Workers -> Job]
    BY <1>1, <1>10, GoTypes DEF Bar, PC
  <2>4. QED
    BY <1>1, <1>10, <2>1, <2>2, <2>3 DEF Bar, TypeOK, History
<1>11. ASSUME NEW w \in Workers, NEW ok \in BOOLEAN, Drop(w, ok)
      PROVE  TypeOK'
  <2>1. job[w].sid \in Ids
    BY <1>11, HasId DEF Drop, Destroying, At
  <2>2. losses' \in Nat
    BY <1>1, <1>11, LossTypes DEF Drop, Call
  <2>3. job[w] \in Job
    BY <1>1 DEF TypeOK
  <2>4. \A t \in job[w].todo : NextOf(w, t) \in Job
    BY <2>3 DEF NextOf, Job, PC
  <2>5. job' \in [Workers -> Job]
    BY <1>1, <1>11, <2>4, JobTypes, IdleType DEF Drop, Leave
  <2>6. entry' \subseteq Ids
    BY <1>1, <1>11 DEF Drop, TypeOK
  <2>7. Escaped(w) \subseteq Ids
    BY <2>6 DEF Escaped
  <2>8. was' \in History
    BY <1>1, <1>11, <2>1, <2>7, ZenonT(60) DEF Drop, TypeOK, History
  <2>9. QED
    BY <1>1, <1>11, <2>2, <2>5, <2>6, <2>8 DEF Drop, TypeOK
<1>12. ASSUME NEW w \in Workers, NEW ok \in BOOLEAN, Sweep(w, ok)
      PROVE  TypeOK'
  <2>. DEFINE todo == If(ok, index)
  <2>1. losses' \in Nat
    BY <1>1, <1>12, LossTypes DEF Sweep, Call
  <2>2. job[w] \in Job /\ todo \in SUBSET Ids
    BY <1>1 DEF TypeOK
  <2>3. \A t \in todo : [job[w] EXCEPT !.at = "find", !.sid = t, !.todo = todo \ {t}] \in Job
    BY <2>2 DEF Job, PC
  <2>4. \/ job' = [job EXCEPT ![w] = Idle]
        \/ \E t \in todo : job' = [job EXCEPT ![w] =
             [job[w] EXCEPT !.at = "find", !.sid = t, !.todo = todo \ {t}]]
    BY <1>1, <1>12 DEF Sweep, Leave, TypeOK, Job
  <2>5. job' \in [Workers -> Job]
    BY <1>1, <2>3, <2>4, JobTypes, IdleType
  <2>6. was' \in History
    BY <1>1, <1>12, <2>2, ZenonT(60) DEF Sweep, TypeOK, History, Job
  <2>7. QED
    BY <1>1, <1>12, <2>1, <2>5, <2>6 DEF Sweep, TypeOK
<1>13. ASSUME NEW w \in Workers, NEW ok \in BOOLEAN, Guard(w, ok)
      PROVE  TypeOK'
  <2>1. job[w].sid \in Ids
    BY <1>13, HasId DEF Guard, Serving
  <2>2. losses' \in Nat
    BY <1>1, <1>13, LossTypes DEF Guard, Call
  <2>3. job[w] \in Job /\ (job[w].sid \in was.ended) \in BOOLEAN
    BY <1>1 DEF TypeOK
  <2>4. [job[w] EXCEPT !.at = "load", !.late = job[w].sid \in was.ended] \in Job
    <3>1. \A b \in BOOLEAN : [job[w] EXCEPT !.at = "load", !.late = b] \in Job
      BY <2>3 DEF Job, PC
    <3>2. QED
      BY <2>3, <3>1, Zenon
  <2>5. \/ job' = [job EXCEPT ![w] = Idle]
        \/ job' = [job EXCEPT ![w] =
             [job[w] EXCEPT !.at = "load", !.late = job[w].sid \in was.ended]]
    BY <1>1, <1>13 DEF Guard, Leave, TypeOK, Job
  <2>6. job' \in [Workers -> Job]
    BY <1>1, <2>4, <2>5, JobTypes, IdleType
  <2>7. QED
    BY <1>1, <1>13, <2>1, <2>2, <2>6 DEF Guard, TypeOK, History
<1>14. ASSUME NEW w \in Workers, NEW ok \in BOOLEAN, Touch(w, ok) \/ Renew(w, ok)
      PROVE  TypeOK'
  <2>1. job[w].sid \in Ids
    BY <1>14, HasId DEF Touch, Renew, Serving
  <2>2. losses' \in Nat
    BY <1>1, <1>14, LossTypes DEF Touch, Renew, Call
  <2>3. job' \in [Workers -> Job]
    BY <1>1, <1>14, GoTypes DEF Touch, Renew, PC
  <2>4. was' \in History
    BY <1>1, <1>14, <2>1 DEF Touch, Renew, LetIn, TypeOK, History
  <2>5. QED
    BY <1>1, <1>14, <2>1, <2>2, <2>3, <2>4 DEF Touch, Renew, TypeOK
<1>15. ASSUME NEW w \in Workers, Limit(w) \/ List(w) \/ LogOut(w)
      PROVE  TypeOK'
  <2>1. job' \in [Workers -> Job]
    BY <1>1, <1>15, GoTypes DEF Limit, List, LogOut, PC
  <2>2. Limit(w) => job[w].sid \in Ids
    BY HasId DEF Limit, Entered, At
  <2>3. was' \in History
    BY <1>1, <1>15, <2>2 DEF Limit, List, LogOut, TypeOK, History
  <2>4. QED
    BY <1>1, <1>15, <2>1, <2>3 DEF Limit, List, LogOut, TypeOK
<1>16. ASSUME NEW s \in Ids, EntryExpires(s) \/ BlackExpires(s)
      PROVE  TypeOK'
  BY <1>1, <1>16, LossTypes DEF EntryExpires, BlackExpires, TypeOK, History
<1>17. ASSUME IndexExpires
      PROVE  TypeOK'
  BY <1>1, <1>17, LossTypes DEF IndexExpires, TypeOK, History
<1>18. ASSUME Crash
      PROVE  TypeOK'
  BY <1>1, <1>18, LossTypes, IdleType DEF Crash, TypeOK
<1>19. ASSUME UNCHANGED vars
      PROVE  TypeOK'
  BY <1>1, <1>19 DEF vars, TypeOK
<1>20. QED
  BY <1>2, <1>3, <1>4, <1>5, <1>6, <1>7, <1>8, <1>9, <1>10, <1>11, <1>12, <1>13, <1>14,
     <1>15, <1>16, <1>17, <1>18, <1>19 DEF Next, Serve

-----------------------------------------------------------------------------
(* What a step that does little leaves true. *)

\* The history grows; an entry comes back only from a copy, goes with a mark when
\* somebody holds a copy, and nobody is about to remove it any longer only if it
\* went or the cache failed.
Steady ==
    /\ was.used \subseteq was'.used /\ was.listed \subseteq was'.listed
    /\ was.acked \subseteq was'.acked /\ was.ended \subseteq was'.ended
    /\ was.raced \subseteq was'.raced /\ was.overwritten \subseteq was'.overwritten
    /\ was.forgotten \subseteq was'.forgotten /\ was.failed \subseteq was'.failed
    /\ black \subseteq black' \cup was'.forgotten
    /\ was.unlisted \cap entry' \subseteq was'.unlisted \cup was'.failed
    /\ (entry' \ entry) \cap (was.listed \cup was.acked) \subseteq was'.raced
    /\ \A s \in entry \ entry' : Held(s) => s \in was'.raced

\* Nothing but the session of w's own login becomes listed or known to the client.
Own(w) ==
    \/ was'.listed = was.listed /\ was'.acked = was.acked
    \/ /\ Entering(w) \/ Entered(w)
       /\ (was'.listed \ was.listed) \cup (was'.acked \ was.acked) \subseteq {job[w].sid}

Others(w) == \A u \in Workers \ {w} : job'[u] = job[u]

\* A login goes on or ends.
SameLogin(w) ==
    (Entering(w) \/ Entered(w))' =>
        (Entering(w) \/ Entered(w)) /\ job'[w].sid = job[w].sid

LEMMA SameKept ==
    ASSUME Inv, Steady, NEW u \in Workers, job'[u] = job[u],
           Entering(u) \/ Entered(u) =>
             job[u].sid \notin (was'.listed \ was.listed) \cup (was'.acked \ was.acked)
    PROVE  Good(u)'
<1>1. Good(u) /\ Known
  BY DEF Inv, Overall
<1>2. Entering(u) \/ Entered(u) =>
        job[u].sid \notin (was'.listed \ was.listed) \cup (was'.acked \ was.acked)
  OBVIOUS
<1>3. ListsOK(u)'
  BY <1>1 DEF Good, ListsOK, Steady, Known
<1>4. PlaceOK(u)'
  <2>1. /\ Entering(u)' <=> Entering(u)
        /\ Entered(u)' <=> Entered(u)
        /\ Destroying(u)' <=> Destroying(u)
        /\ Serving(u)' <=> Serving(u)
    BY <1>1 DEF Entering, Entered, Destroying, Serving, At, Asking
  <2>2. PlaceOK(u)
    BY <1>1 DEF Good
  <2>3. QED
    BY <1>1, <1>2, <2>1, <2>2 DEF PlaceOK, Steady
<1>5. LateOK(u)'
  <2>1. job[u].at = "renew" => Held(job[u].sid)
    BY DEF Held
  <2>2. LateOK(u)
    BY <1>1 DEF Good
  <2>3. job[u].at = "renew" /\ job[u].sid \notin entry' => job[u].sid \in was'.raced
    BY <2>1, <2>2 DEF LateOK, Steady
  <2>4. QED
    BY <1>1, <2>2, <2>3 DEF LateOK, Steady
<1>6. SweepOK(u)'
  BY <1>1 DEF Good, SweepOK, Steady, Excused
<1>7. QED
  BY <1>3, <1>4, <1>5, <1>6 DEF Good

LEMMA OthersKept ==
    ASSUME Inv, Steady, NEW w \in Workers, Others(w), Own(w), NEW u \in Workers \ {w}
    PROVE  Good(u)'
<1>1. job'[u] = job[u]
  BY DEF Others
<1>2. Entering(u) \/ Entered(u) =>
        job[u].sid \notin (was'.listed \ was.listed) \cup (was'.acked \ was.acked)
  BY DEF Inv, Apart, Own
<1>3. QED
  BY <1>1, <1>2, SameKept

LEMMA ApartKept ==
    ASSUME Inv, NEW w \in Workers, Others(w), SameLogin(w)
    PROVE  Apart'
<1>1. \A u \in Workers \ {w} :
        (Entering(u) \/ Entered(u))' <=> Entering(u) \/ Entered(u)
  BY DEF Others, Entering, Entered, At, Asking
<1>2. QED
  BY <1>1 DEF Inv, Apart, Others, SameLogin

LEMMA IdleGood ==
    ASSUME NEW w \in Workers, job'[w] = Idle
    PROVE  Good(w)' /\ SameLogin(w)
  BY DEF Idle, Good, ListsOK, PlaceOK, LateOK, SweepOK, SameLogin, Entering, Entered,
         Destroying, Serving, At, Asking

LEMMA StepInv ==
    ASSUME Inv, TypeOK', Steady, Overall', NEW w \in Workers, Others(w), Own(w),
           SameLogin(w), Good(w)'
    PROVE  Inv'
<1>1. \A u \in Workers \ {w} : Good(u)'
  BY OthersKept
<1>2. \A u \in Workers : Good(u)'
  BY <1>1
<1>3. Apart'
  BY ApartKept
<1>4. QED
  BY <1>2, <1>3 DEF Inv

\* What the request itself keeps.
SameLists(w) ==
    /\ job[w].at # "look" /\ job'[w].at # "look"
    /\ job'[w].base = job[w].base /\ job'[w].left = job[w].left /\ job'[w].kept = job[w].kept

LEMMA ListsKept ==
    ASSUME Inv, Steady, NEW w \in Workers, SameLists(w)
    PROVE  ListsOK(w)'
<1>1. ListsOK(w) /\ Known
  BY DEF Inv, Good, Overall
<1>2. QED
  BY <1>1 DEF ListsOK, SameLists, Steady

SameSweep(w) ==
    /\ job[w].at # "sweep"
    /\ job'[w].todo = job[w].todo /\ job'[w].seen = job[w].seen
    /\ job'[w].sweeps = job[w].sweeps /\ job'[w].sid = job[w].sid

LEMMA SweepKept ==
    ASSUME Inv, Steady, NEW w \in Workers, SameSweep(w)
    PROVE  SweepOK(w)'
<1>1. SweepOK(w) /\ Known
  BY DEF Inv, Good, Overall
<1>2. QED
  BY <1>1 DEF SweepOK, SameSweep, Steady, Excused

-----------------------------------------------------------------------------
(* What holds of the sessions as a whole. *)

LEMMA EndedKept ==
    ASSUME Inv, Steady, was'.ended = was.ended
    PROVE  EndedOK'
<1>1. EndedOK /\ Known
  BY DEF Inv, Overall
<1>2. QED
  BY <1>1 DEF EndedOK, Known, Steady

LEMMA IndexKept ==
    ASSUME Inv, Steady, was'.listed \subseteq was.listed \cup index',
           (index \ index') \cap entry' \subseteq Excused'
    PROVE  IndexComplete'
<1>1. IndexComplete
  BY DEF Inv, Overall
<1>2. QED
  BY <1>1 DEF IndexComplete, Excused, Steady

LEMMA OutKept ==
    ASSUME Inv, Steady,
           was'.revived \subseteq
             was.revived \cup (was'.raced \cap was'.forgotten) \cup was'.failed
    PROVE  EndedStaysOut'
<1>1. EndedStaysOut
  BY DEF Inv, Overall
<1>2. QED
  BY <1>1 DEF EndedStaysOut, Steady

LEMMA EscapedKept ==
    ASSUME Inv, Steady,
           was'.escaped \subseteq
             was.escaped \cup was'.raced \cup was'.overwritten \cup was'.failed
    PROVE  SweepComplete'
<1>1. SweepComplete
  BY DEF Inv, Overall
<1>2. QED
  BY <1>1 DEF SweepComplete, Steady

\* The step leaves the index, and the history of logins and ends.
Calm ==
    /\ Steady
    /\ index' = index
    /\ was'.listed = was.listed /\ was'.acked = was.acked /\ was'.ended = was.ended
    /\ was'.revived = was.revived /\ was'.escaped = was.escaped

LEMMA CalmKept ==
    ASSUME Inv, Calm
    PROVE  Overall'
<1>1. Known'
  BY DEF Calm, Steady, Inv, Overall, Known
<1>2. EndedOK' /\ IndexComplete' /\ EndedStaysOut' /\ SweepComplete'
  BY EndedKept, IndexKept, OutKept, EscapedKept DEF Calm
<1>3. QED
  BY <1>1, <1>2 DEF Overall

-----------------------------------------------------------------------------
(* The steps of a request. *)

LEMMA ReceiveStep ==
    ASSUME Inv, TypeOK', NEW w \in Workers,
           \/ AskList(w)
           \/ \E s \in Ids : Logout(w, s) \/ Terminate(w, s) \/ Request(w, s)
    PROVE  Inv'
<1>1. PICK s \in Ids \cup {NoId}, label \in {"index", "logout", "owned", "guard"}, op \in
          {"list", "logout", "terminate", "request"} :
        /\ Receive(w, op, s, label) /\ UNCHANGED was
        /\ label \in {"logout", "guard"} => s \in was.acked
        /\ label = "owned" => s \in was.listed
  BY DEF AskList, Logout, Terminate, Request
<1>2. /\ job'[w] = [Idle EXCEPT !.at = label, !.sid = s]
      /\ Others(w) /\ entry' = entry /\ index' = index /\ black' = black
  BY <1>1 DEF Receive, Others, Inv, TypeOK
<1>3. Calm /\ Own(w)
  BY <1>1, <1>2 DEF Calm, Steady, Own
<1>4. ListsOK(w)' /\ LateOK(w)' /\ SweepOK(w)'
  BY <1>2 DEF Idle, ListsOK, LateOK, SweepOK
<1>5. PlaceOK(w)' /\ SameLogin(w)
  BY <1>1, <1>2 DEF Idle, PlaceOK, SameLogin, Entering, Entered, Destroying, Serving, At, Asking
<1>6. QED
  BY <1>2, <1>3, <1>4, <1>5, CalmKept, StepInv DEF Calm, Good

LEMMA LogoutAllStep ==
    ASSUME Inv, TypeOK', NEW w \in Workers, LogoutAll(w)
    PROVE  Inv'
<1>1. /\ job'[w] = [Idle EXCEPT !.at = "sweep", !.sweeps = TRUE,
                               !.seen = (entry \cap was.acked) \ was.unlisted]
      /\ Others(w) /\ UNCHANGED <<entry, index, black, was>>
  BY DEF LogoutAll, Others, Inv, TypeOK
<1>2. Calm /\ Own(w)
  BY <1>1 DEF Calm, Steady, Own
<1>3. ListsOK(w)' /\ LateOK(w)' /\ SweepOK(w)'
  BY <1>1 DEF Idle, ListsOK, LateOK, SweepOK
<1>4. PlaceOK(w)' /\ SameLogin(w)
  BY <1>1 DEF Idle, PlaceOK, SameLogin, Entering, Entered, Destroying, Serving, At, Asking
<1>5. QED
  BY <1>1, <1>2, <1>3, <1>4, CalmKept, StepInv DEF Calm, Good

\* The one step that may bring a session to a login: nobody else has it.
LEMMA LoginStep ==
    ASSUME Inv, TypeOK', NEW w \in Workers, NEW s \in Ids, Login(w, s)
    PROVE  Inv'
<1>1. /\ job'[w] = [Idle EXCEPT !.at = "store", !.sid = s]
      /\ Others(w) /\ entry' = entry /\ index' = index /\ black' = black
  BY DEF Login, Receive, Others, Inv, TypeOK
<1>2. /\ s \notin was.used
      /\ was' = [was EXCEPT !.used = was.used \cup {s}]
      /\ was \in History
  BY DEF Login, Inv, TypeOK
<1>3. Calm /\ Own(w)
  BY <1>1, <1>2 DEF Calm, Steady, Own, History
<1>4. ListsOK(w)' /\ LateOK(w)' /\ SweepOK(w)'
  BY <1>1 DEF Idle, ListsOK, LateOK, SweepOK
<1>5. Known
  BY DEF Inv, Overall
<1>6. PlaceOK(w)'
  <2>1. s \in was'.used \ (was'.acked \cup was'.listed)
    BY <1>2, <1>5 DEF Known, History
  <2>2. QED
    BY <1>1, <2>1 DEF Idle, PlaceOK, Entering, Entered, Destroying, Serving, At, Asking
<1>7. \A u \in Workers \ {w} : Good(u)'
  BY <1>1, <1>3, OthersKept DEF Calm
<1>8. Apart'
  <2>1. \A u \in Workers \ {w} :
          /\ (Entering(u) \/ Entered(u))' <=> Entering(u) \/ Entered(u)
          /\ job'[u].sid = job[u].sid
    BY <1>1 DEF Others, Entering, Entered, At, Asking
  <2>2. \A u \in Workers : Entering(u) \/ Entered(u) => job[u].sid \in was.used
    BY DEF Inv, Good, PlaceOK
  <2>3. job'[w].sid = s
    BY <1>1 DEF Idle
  <2>4. QED
    BY <1>2, <2>1, <2>2, <2>3 DEF Inv, Apart
<1>9. QED
  BY <1>3, <1>4, <1>6, <1>7, <1>8, CalmKept DEF Inv, Good

-----------------------------------------------------------------------------
(* getUserSessions. *)

Asks(w) ==
    /\ job[w].at \in Asking
    /\ job'[w].at \in {"look", "prune", job[w].for}
    /\ job'[w].for = job[w].for /\ job'[w].late = job[w].late
    /\ SameSweep(w)

LEMMA AskingKept ==
    ASSUME Inv, Steady, was'.listed = was.listed, was'.acked = was.acked,
           NEW w \in Workers, Asks(w)
    PROVE  PlaceOK(w)' /\ LateOK(w)' /\ SweepOK(w)' /\ SameLogin(w)
<1>1. job[w].for \in Callers /\ PlaceOK(w)
  BY DEF Inv, TypeOK, Job, Good
<1>2. /\ Entering(w)' => Entering(w)
      /\ Entered(w)' => Entered(w)
      /\ Destroying(w)' => Destroying(w)
      /\ ~Serving(w)' /\ job'[w].at # "owned"
  BY <1>1 DEF Asks, Callers, Entering, Entered, Destroying, Serving, At, Asking
<1>3. PlaceOK(w)'
  BY <1>1, <1>2 DEF PlaceOK, Steady, Asks, SameSweep
<1>4. SameLogin(w)
  BY <1>2 DEF SameLogin, Asks, SameSweep
<1>5. LateOK(w)'
  BY <1>1 DEF LateOK, Asks, Callers
<1>6. SweepOK(w)'
  BY SweepKept DEF Asks
<1>7. QED
  BY <1>3, <1>4, <1>5, <1>6

LEMMA ReadIndexStep ==
    ASSUME Inv, TypeOK', NEW w \in Workers, NEW ok \in BOOLEAN, ReadIndex(w, ok)
    PROVE  Inv'
<1>. DEFINE read == If(ok, index)
<1>1. job \in [Workers -> Job] /\ was \in History /\ Known
  BY DEF Inv, Overall, TypeOK
<1>2. /\ job[w].at = "index" /\ Others(w)
      /\ job'[w].base = read /\ job'[w].left = read /\ job'[w].kept = {}
      /\ job'[w].at = (IF read = {} THEN job[w].for ELSE "look")
      /\ job'[w].sid = job[w].sid /\ job'[w].for = job[w].for /\ job'[w].late = job[w].late
      /\ job'[w].todo = job[w].todo /\ job'[w].seen = job[w].seen
      /\ job'[w].sweeps = job[w].sweeps
  BY <1>1 DEF ReadIndex, Others, Job
<1>3. Calm /\ Own(w)
  BY <1>1 DEF ReadIndex, Calm, Steady, Own, History
<1>4. Asks(w)
  BY <1>2 DEF Asks, SameSweep, Asking
<1>5. ListsOK(w)'
  <2>1. read \subseteq was'.listed
    BY <1>1, <1>3 DEF If, Known, Calm
  <2>2. job'[w].at = "look" \/ read = {}
    BY <1>2
  <2>3. QED
    BY <1>2, <2>1, <2>2 DEF ListsOK
<1>6. QED
  BY <1>2, <1>3, <1>4, <1>5, AskingKept, CalmKept, StepInv DEF Calm, Good

LEMMA LookStep ==
    ASSUME Inv, TypeOK', NEW w \in Workers, NEW ok \in BOOLEAN, NEW s \in Ids, Look(w, s, ok)
    PROVE  Inv'
<1>. DEFINE left == job[w].left \ {s}
            kept == job[w].kept \cup If(ok /\ s \in entry, {s})
<1>1. job \in [Workers -> Job] /\ was \in History
  BY DEF Inv, TypeOK
<1>2. /\ job[w].at = "look" /\ Others(w) /\ s \in job[w].left
      /\ job'[w].base = job[w].base /\ job'[w].left = left /\ job'[w].kept = kept
      /\ job'[w].at = AfterLook(w, left, kept)
      /\ job'[w].sid = job[w].sid /\ job'[w].for = job[w].for /\ job'[w].late = job[w].late
      /\ job'[w].todo = job[w].todo /\ job'[w].seen = job[w].seen
      /\ job'[w].sweeps = job[w].sweeps
  BY <1>1 DEF Look, Others, Job
<1>3. Calm /\ Own(w)
  BY <1>1 DEF Look, Calm, Steady, Own, History
<1>4. job'[w].at \in {"look", "prune", job[w].for} /\ (job'[w].at = "look" \/ left = {})
  BY <1>2, AfterLookIs
<1>5. Asks(w)
  BY <1>2, <1>4 DEF Asks, SameSweep, Asking
<1>6. ListsOK(w)'
  <2>1. ListsOK(w)
    BY DEF Inv, Good
  <2>2. ok /\ s \notin entry => kept = job[w].kept
    BY DEF If
  <2>3. job[w].kept \subseteq kept /\ kept \subseteq job[w].kept \cup {s}
    BY DEF If
  <2>4. s \in entry => s \in kept \/ s \in was'.failed
    BY <1>1 DEF Look, If, History
  <2>5. entry' = entry
    BY DEF Look
  <2>6. entry' \cap (job[w].base \ (left \cup kept)) \subseteq was'.raced \cup was'.failed
    BY <1>3, <2>1, <2>3, <2>4, <2>5 DEF ListsOK, Calm, Steady
  <2>7. left \subseteq job[w].base /\ kept \subseteq job[w].base
    BY <1>2, <2>1, <2>3 DEF ListsOK
  <2>8. QED
    BY <1>2, <1>3, <1>4, <2>1, <2>6, <2>7 DEF ListsOK, Calm
<1>7. QED
  BY <1>2, <1>3, <1>5, <1>6, AskingKept, CalmKept, StepInv DEF Calm, Good

\* The sessions that getUserSessions did not find alive.
LEMMA PruneStep ==
    ASSUME Inv, TypeOK', NEW w \in Workers, NEW ok \in BOOLEAN, Prune(w, ok)
    PROVE  Inv'
<1>1. job \in [Workers -> Job] /\ was \in History /\ Known /\ ListsOK(w)
  BY DEF Inv, Overall, TypeOK, Good
<1>2. /\ job[w].at = "prune" /\ Others(w) /\ job[w].left = {}
      /\ job'[w].at = job[w].for /\ job'[w].sid = job[w].sid
      /\ job'[w].for = job[w].for /\ job'[w].late = job[w].late
      /\ job'[w].base = job[w].base /\ job'[w].left = job[w].left
      /\ job'[w].kept = job[w].kept
      /\ job'[w].todo = job[w].todo /\ job'[w].seen = job[w].seen
      /\ job'[w].sweeps = job[w].sweeps
  BY <1>1 DEF Prune, Go, Others, Job, ListsOK
<1>3. /\ entry' = entry /\ black' = black
      /\ was'.listed = was.listed /\ was'.acked = was.acked /\ was'.ended = was.ended
      /\ was'.revived = was.revived /\ was'.escaped = was.escaped
      /\ was'.used = was.used /\ was'.unlisted = was.unlisted
  BY <1>1 DEF Prune, History
<1>4. \/ index' = index
      \/ index' = job[w].kept /\ Unseen(w, job[w].kept) \subseteq was'.overwritten
  <2>1. CASE ok
    BY <1>1, <2>1 DEF Prune, If, History
  <2>2. CASE ~ok
    BY <2>2 DEF Prune
  <2>3. QED
    BY <2>1, <2>2
<1>5. Steady /\ Own(w)
  BY <1>1 DEF Prune, Steady, Own, History
<1>6. Asks(w)
  BY <1>2 DEF Asks, SameSweep, Asking
<1>7. SameLists(w)
  BY <1>1, <1>2 DEF SameLists, Job, Callers
<1>8. Known'
  BY <1>1, <1>3, <1>4, <1>5 DEF Known, ListsOK, Steady
<1>9. (index \ index') \cap entry' \subseteq Excused'
  BY <1>1, <1>2, <1>3, <1>4, <1>5 DEF Excused, Unseen, ListsOK, Steady
<1>10. EndedOK' /\ IndexComplete' /\ EndedStaysOut' /\ SweepComplete'
  BY <1>3, <1>5, <1>9, EndedKept, IndexKept, OutKept, EscapedKept
<1>11. QED
  BY <1>2, <1>3, <1>5, <1>6, <1>7, <1>8, <1>10, AskingKept, ListsKept, StepInv DEF Good, Overall

-----------------------------------------------------------------------------
(* A login. *)

LEMMA LeaveStep ==
    ASSUME Inv, TypeOK', NEW w \in Workers, Leave(w), Steady, Own(w), Overall'
    PROVE  Inv'
<1>1. job'[w] = Idle /\ Others(w)
  BY DEF Leave, Others, Inv, TypeOK
<1>2. QED
  BY <1>1, IdleGood, StepInv

LEMMA StoreStep ==
    ASSUME Inv, TypeOK', NEW w \in Workers, NEW ok \in BOOLEAN, Store(w, ok)
    PROVE  Inv'
<1>1. job \in [Workers -> Job] /\ was \in History /\ PlaceOK(w)
  BY DEF Inv, TypeOK, Good
<1>2. /\ job[w].at = "store" /\ Others(w)
      /\ job'[w].at = "index" /\ job'[w].for = "add"
      /\ SameLists(w) /\ SameSweep(w)
  BY <1>1 DEF Store, GetSessions, Others, Job, SameLists, SameSweep
<1>3. Entering(w)
  BY <1>2 DEF Entering, At
<1>4. job[w].sid \notin was.listed \cup was.acked
  BY <1>1, <1>3 DEF PlaceOK
<1>5. Calm /\ Own(w)
  BY <1>1, <1>4 DEF Store, Calm, Steady, Own, History
<1>6. PlaceOK(w)' /\ LateOK(w)' /\ SameLogin(w)
  <2>1. Entering(w)' /\ ~Entered(w)' /\ ~Destroying(w)' /\ ~Serving(w)'
    BY <1>2 DEF Entering, Entered, Destroying, Serving, At, Asking
  <2>2. QED
    BY <1>1, <1>2, <1>3, <1>5, <2>1 DEF PlaceOK, LateOK, SameLogin, SameSweep, Calm, Steady
<1>7. QED
  BY <1>2, <1>5, <1>6, ListsKept, SweepKept, CalmKept, StepInv DEF Calm, Good

\* The session is put into the index together with what the request saw there.
LEMMA AddStep ==
    ASSUME Inv, TypeOK', NEW w \in Workers, NEW ok \in BOOLEAN, Add(w, ok)
    PROVE  Inv'
<1>1. job \in [Workers -> Job] /\ was \in History /\ PlaceOK(w) /\ ListsOK(w) /\ Known
  BY DEF Inv, TypeOK, Good, Overall
<1>2. /\ job[w].at = "add" /\ Others(w) /\ job[w].left = {}
      /\ job'[w].at = "index" /\ job'[w].for = "limit"
      /\ job'[w].base = {} /\ job'[w].kept = {} /\ job'[w].left = {}
      /\ SameSweep(w)
  BY <1>1 DEF Add, Cleared, Others, Job, SameSweep, ListsOK
<1>3. Entering(w)
  BY <1>2 DEF Entering, At
<1>4. /\ entry' = entry /\ black' = black
      /\ was'.acked = was.acked /\ was'.ended = was.ended
      /\ was'.revived = was.revived /\ was'.escaped = was.escaped
      /\ was'.used = was.used /\ was'.unlisted = was.unlisted
  BY <1>1 DEF Add, History
<1>5. \/ /\ index' = index /\ was'.listed = was.listed
         /\ job[w].sid \in was'.failed
      \/ /\ index' = job[w].kept \cup {job[w].sid}
         /\ was'.listed = was.listed \cup {job[w].sid}
         /\ Unseen(w, job[w].kept \cup {job[w].sid}) \subseteq was'.overwritten
  <2>1. CASE ok
    BY <1>1, <2>1 DEF Add, If, History
  <2>2. CASE ~ok
    BY <1>1, <2>2 DEF Add, If, History
  <2>3. QED
    BY <2>1, <2>2
<1>6. Steady
  BY <1>1 DEF Add, Steady, History
<1>7. Own(w)
  BY <1>3, <1>4, <1>5 DEF Own
<1>8. PlaceOK(w)' /\ LateOK(w)' /\ SameLogin(w)
  <2>1. ~Entering(w)' /\ Entered(w)' /\ ~Destroying(w)' /\ ~Serving(w)'
    BY <1>2 DEF Entering, Entered, Destroying, Serving, At, Asking
  <2>2. job[w].sid \in was.used \ was.acked
    BY <1>1, <1>3 DEF PlaceOK
  <2>3. job[w].sid \in was'.listed \cup was'.failed
    BY <1>5
  <2>4. QED
    BY <1>2, <1>3, <1>4, <2>1, <2>2, <2>3 DEF PlaceOK, LateOK, SameLogin, SameSweep
<1>9. ListsOK(w)'
  BY <1>2 DEF ListsOK
<1>10. Known'
  <2>1. job[w].sid \in was.used
    BY <1>1, <1>3 DEF PlaceOK
  <2>2. QED
    BY <1>1, <1>4, <1>5, <1>6, <2>1 DEF Known, ListsOK, Steady
<1>11. (index \ index') \cap entry' \subseteq Excused'
  BY <1>1, <1>2, <1>4, <1>5, <1>6 DEF Excused, Unseen, ListsOK, Steady
<1>12. was'.listed \subseteq was.listed \cup index'
  BY <1>5
<1>13. EndedOK' /\ IndexComplete' /\ EndedStaysOut' /\ SweepComplete'
  BY <1>4, <1>6, <1>11, <1>12, EndedKept, IndexKept, OutKept, EscapedKept
<1>14. QED
  BY <1>2, <1>6, <1>7, <1>8, <1>9, <1>10, <1>13, SweepKept, StepInv DEF Good, Overall

LEMMA LimitStep ==
    ASSUME Inv, TypeOK', NEW w \in Workers, Limit(w)
    PROVE  Inv'
<1>1. was \in History /\ PlaceOK(w) /\ Known
  BY DEF Inv, TypeOK, Good, Overall
<1>2. Entered(w)
  BY DEF Limit, Entered, At
<1>3. job[w].sid \in was.used \cap (was.listed \cup was.failed)
  BY <1>1, <1>2 DEF PlaceOK
<1>4. /\ Steady /\ index' = index /\ Leave(w) /\ was'.acked \subseteq was.acked \cup {job[w].sid}
      /\ was'.listed = was.listed /\ was'.ended = was.ended
      /\ was'.revived = was.revived /\ was'.escaped = was.escaped
  BY <1>1 DEF Limit, Steady, If, History
<1>5. Own(w)
  BY <1>2, <1>4 DEF Own
<1>6. Known'
  BY <1>1, <1>3, <1>4 DEF Known, Steady
<1>7. EndedOK' /\ IndexComplete' /\ EndedStaysOut' /\ SweepComplete'
  BY <1>4, EndedKept, IndexKept, OutKept, EscapedKept
<1>8. QED
  BY <1>4, <1>5, <1>6, <1>7, LeaveStep DEF Overall

\* Whatever only leaves.
LEMMA EndStep ==
    ASSUME Inv, TypeOK', NEW w \in Workers, List(w) \/ LogOut(w)
    PROVE  Inv'
<1>1. Leave(w) /\ Calm /\ Own(w)
  BY DEF List, LogOut, Calm, Steady, Own
<1>2. QED
  BY <1>1, CalmKept, LeaveStep DEF Calm

-----------------------------------------------------------------------------
(* Sessions are destroyed. *)

LEMMA OwnedStep ==
    ASSUME Inv, TypeOK', NEW w \in Workers, NEW ok \in BOOLEAN, Owned(w, ok)
    PROVE  Inv'
<1>1. job \in [Workers -> Job] /\ PlaceOK(w)
  BY DEF Inv, TypeOK, Good
<1>2. Calm /\ Own(w)
  BY DEF Owned, Calm, Steady, Own
<1>3. CASE Leave(w)
  BY <1>2, <1>3, CalmKept, LeaveStep DEF Calm
<1>4. CASE Go(w, "find")
  <2>1. /\ job[w].at = "owned" /\ job'[w].at = "find" /\ Others(w)
        /\ SameLists(w) /\ SameSweep(w)
    BY <1>1, <1>4 DEF Owned, Go, Others, Job, SameLists, SameSweep
  <2>2. PlaceOK(w)' /\ LateOK(w)' /\ SameLogin(w)
    BY <1>1, <1>2, <2>1 DEF PlaceOK, LateOK, SameLogin, SameSweep, Calm, Entering, Entered,
                            Destroying, Serving, At, Asking
  <2>3. QED
    BY <1>2, <2>1, <2>2, ListsKept, SweepKept, CalmKept, StepInv DEF Calm, Good
<1>5. QED
  BY <1>3, <1>4 DEF Owned

LEMMA FindStep ==
    ASSUME Inv, TypeOK', NEW w \in Workers, NEW ok \in BOOLEAN, Find(w, ok)
    PROVE  Inv'
<1>1. job \in [Workers -> Job] /\ was \in History /\ PlaceOK(w)
  BY DEF Inv, TypeOK, Good
<1>2. Calm /\ Own(w)
  BY <1>1 DEF Find, Calm, Steady, Own, History
<1>3. /\ job[w].at = "find" /\ Others(w)
      /\ job'[w].at = "bar" \/ (job'[w].at = "index" /\ job'[w].for = "remove")
      /\ SameLists(w) /\ SameSweep(w)
  BY <1>1 DEF Find, GetSessions, Go, Others, Job, SameLists, SameSweep
<1>4. PlaceOK(w)' /\ LateOK(w)' /\ SameLogin(w)
  BY <1>1, <1>2, <1>3 DEF PlaceOK, LateOK, SameLogin, SameSweep, Calm, Entering, Entered,
                          Destroying, Serving, At, Asking
<1>5. QED
  BY <1>2, <1>3, <1>4, ListsKept, SweepKept, CalmKept, StepInv DEF Calm, Good

LEMMA RemoveStep ==
    ASSUME Inv, TypeOK', NEW w \in Workers, NEW ok \in BOOLEAN, Remove(w, ok)
    PROVE  Inv'
<1>1. job \in [Workers -> Job] /\ was \in History /\ PlaceOK(w) /\ ListsOK(w) /\ Known
  BY DEF Inv, TypeOK, Good, Overall
<1>2. /\ job[w].at = "remove" /\ Others(w) /\ job[w].left = {}
      /\ job'[w].at = "bar" /\ job'[w].base = {} /\ job'[w].kept = {} /\ job'[w].left = {}
      /\ SameSweep(w)
  BY <1>1 DEF Remove, Cleared, Others, Job, SameSweep, ListsOK
<1>3. /\ entry' = entry /\ black' = black
      /\ was'.listed = was.listed /\ was'.acked = was.acked /\ was'.ended = was.ended
      /\ was'.revived = was.revived /\ was'.escaped = was.escaped
      /\ was'.used = was.used
  BY <1>1 DEF Remove, History
<1>4. \/ index' = index
      \/ /\ index' = job[w].kept \ {job[w].sid}
         /\ job[w].sid \in was'.unlisted
         /\ Unseen(w, job[w].kept \ {job[w].sid}) \ {job[w].sid} \subseteq was'.overwritten
  <2>1. CASE ok
    BY <1>1, <2>1 DEF Remove, If, History
  <2>2. CASE ~ok
    BY <2>2 DEF Remove
  <2>3. QED
    BY <2>1, <2>2
<1>5. Steady /\ Own(w)
  BY <1>1 DEF Remove, Steady, Own, History
<1>6. PlaceOK(w)' /\ LateOK(w)' /\ SameLogin(w)
  BY <1>1, <1>2, <1>3 DEF PlaceOK, LateOK, SameLogin, SameSweep, Entering, Entered,
                          Destroying, Serving, At, Asking
<1>7. ListsOK(w)'
  BY <1>2 DEF ListsOK
<1>8. Known'
  BY <1>1, <1>3, <1>4, <1>5 DEF Known, ListsOK, Steady
<1>9. (index \ index') \cap entry' \subseteq Excused'
  BY <1>1, <1>2, <1>3, <1>4, <1>5 DEF Excused, Unseen, ListsOK, Steady
<1>10. EndedOK' /\ IndexComplete' /\ EndedStaysOut' /\ SweepComplete'
  BY <1>3, <1>5, <1>9, EndedKept, IndexKept, OutKept, EscapedKept
<1>11. QED
  BY <1>2, <1>5, <1>6, <1>7, <1>8, <1>10, SweepKept, StepInv DEF Good, Overall

LEMMA BarStep ==
    ASSUME Inv, TypeOK', NEW w \in Workers, NEW ok \in BOOLEAN, Bar(w, ok)
    PROVE  Inv'
<1>1. job \in [Workers -> Job] /\ was \in History /\ PlaceOK(w)
  BY DEF Inv, TypeOK, Good
<1>2. Calm /\ Own(w)
  BY <1>1 DEF Bar, Calm, Steady, Own, History
<1>3. /\ job[w].at = "bar" /\ Others(w) /\ job'[w].at = "drop"
      /\ SameLists(w) /\ SameSweep(w)
  BY <1>1 DEF Bar, Go, Others, Job, SameLists, SameSweep
<1>4. PlaceOK(w)' /\ SameLogin(w)
  BY <1>1, <1>2, <1>3 DEF PlaceOK, SameLogin, SameSweep, Calm, Entering, Entered,
                          Destroying, Serving, At, Asking
<1>5. LateOK(w)'
  <2>1. job[w].sid \in black' \cup was'.failed
    BY <1>1 DEF Bar, If, History
  <2>2. QED
    BY <1>3, <2>1 DEF LateOK, SameSweep
<1>6. QED
  BY <1>2, <1>3, <1>4, <1>5, ListsKept, SweepKept, CalmKept, StepInv DEF Calm, Good

\* The entry goes, and the next session of a sweep is taken up.
LEMMA DropStep ==
    ASSUME Inv, TypeOK', NEW w \in Workers, NEW ok \in BOOLEAN, Drop(w, ok)
    PROVE  Inv'
<1>. DEFINE s == job[w].sid
<1>1. /\ job \in [Workers -> Job] /\ was \in History
      /\ PlaceOK(w) /\ LateOK(w) /\ ListsOK(w) /\ SweepOK(w) /\ Known /\ EndedOK
  BY DEF Inv, TypeOK, Good, Overall
<1>2. job[w].at = "drop" /\ Destroying(w)
  BY DEF Drop, Destroying, At
<1>3. /\ index' = index /\ black' = black
      /\ was'.listed = was.listed /\ was'.acked = was.acked
      /\ was'.revived = was.revived /\ was'.used = was.used
      /\ was'.ended = was.ended \cup {s}
      /\ was'.forgotten = was.forgotten /\ was'.overwritten = was.overwritten
  BY <1>1 DEF Drop, History
<1>4. /\ ok => entry' = entry \ {s} /\ was'.unlisted = was.unlisted \ {s}
                /\ (Held(s) => s \in was'.raced)
      /\ ~ok => entry' = entry /\ was'.unlisted = was.unlisted /\ s \in was'.failed
      /\ was.raced \subseteq was'.raced /\ was.failed \subseteq was'.failed
  <2>1. CASE ok
    BY <1>1, <2>1 DEF Drop, If, History
  <2>2. CASE ~ok
    BY <1>1, <2>2 DEF Drop, If, History
  <2>3. QED
    BY <2>1, <2>2
<1>5. Steady /\ Own(w)
  BY <1>3, <1>4 DEF Steady, Own
<1>6. s \in entry' => s \in was'.failed
  BY <1>4
<1>7. Known'
  BY <1>1, <1>2, <1>3, <1>5 DEF Known, PlaceOK, Steady
<1>8. EndedOK'
  <2>1. s \in black' \cup was'.forgotten \cup was'.failed
    BY <1>1, <1>2, <1>3, <1>5 DEF LateOK, Steady
  <2>2. QED
    BY <1>1, <1>3, <1>5, <1>6, <2>1 DEF EndedOK, Known, Steady
<1>9. IndexComplete' /\ EndedStaysOut'
  BY <1>3, <1>5, IndexKept, OutKept
<1>10. job[w].todo = {} => Escaped(w) \subseteq was'.raced \cup was'.overwritten \cup was'.failed
  <2>. HAVE job[w].todo = {}
  <2>1. SUFFICES ASSUME NEW t \in Escaped(w)
                 PROVE  t \in was'.raced \cup was'.overwritten \cup was'.failed
    OBVIOUS
  <2>2. /\ job[w].sweeps /\ t \in job[w].seen /\ t \in entry'
        /\ t = s \/ t \notin was.unlisted
    BY <2>1 DEF Escaped, If
  <2>3. t = s => t \in was'.failed
    BY <1>6, <2>2
  <2>4. t \in entry
    BY <1>4, <2>2
  <2>5. t # s => t \in was.raced \cup was.overwritten \cup was.failed
    BY <1>1, <1>2, <2>2, <2>4 DEF SweepOK, Excused
  <2>6. QED
    BY <1>5, <2>3, <2>5 DEF Steady
<1>11. SweepComplete'
  <2>1. was'.escaped = was.escaped \cup If(job[w].todo = {}, Escaped(w))
    BY <1>1 DEF Drop, History
  <2>2. QED
    BY <1>5, <1>10, <2>1, EscapedKept DEF If
<1>12. Overall'
  BY <1>7, <1>8, <1>9, <1>11 DEF Overall
<1>13. CASE Leave(w)
  BY <1>5, <1>12, <1>13, LeaveStep
<1>14. ASSUME NEW t \in job[w].todo, job' = [job EXCEPT ![w] = NextOf(w, t)]
       PROVE  Inv'
  <2>1. /\ job'[w].at = "find" /\ job'[w].sid = t /\ job'[w].todo = job[w].todo \ {t}
        /\ job'[w].seen = job[w].seen /\ job'[w].sweeps = job[w].sweeps
        /\ SameLists(w) /\ Others(w)
    BY <1>1, <1>2, <1>14 DEF NextOf, Others, SameLists, Job
  <2>2. t \in was'.listed
    BY <1>1, <1>3 DEF SweepOK
  <2>3. PlaceOK(w)' /\ LateOK(w)' /\ SameLogin(w)
    BY <2>1, <2>2 DEF PlaceOK, LateOK, SameLogin, Entering, Entered, Destroying, Serving,
                      At, Asking
  <2>4. SweepOK(w)'
    <3>1. entry' \subseteq entry /\ was.unlisted \subseteq was'.unlisted \cup {s}
      BY <1>4
    <3>2. job[w].sweeps =>
            job[w].seen \cap entry' \subseteq job[w].todo \cup {s} \cup Excused
      BY <1>1, <1>2, <3>1 DEF SweepOK
    <3>3. Excused \subseteq Excused' \cup {s}
      BY <1>5, <3>1 DEF Excused, Steady
    <3>4. s \in entry' => s \in Excused'
      BY <1>6 DEF Excused
    <3>5. job[w].sweeps =>
            job[w].seen \cap entry' \subseteq (job[w].todo \ {t}) \cup {t} \cup Excused'
      BY <3>2, <3>3, <3>4
    <3>6. QED
      BY <1>1, <1>3, <2>1, <3>5 DEF SweepOK
  <2>5. QED
    BY <1>5, <1>12, <2>1, <2>3, <2>4, ListsKept, StepInv DEF Good
<1>15. QED
  BY <1>13, <1>14 DEF Drop

\* What the sweep read of the index is all there is, but for the exceptions.
LEMMA SweepStep ==
    ASSUME Inv, TypeOK', NEW w \in Workers, NEW ok \in BOOLEAN, Sweep(w, ok)
    PROVE  Inv'
<1>. DEFINE todo == If(ok, index)
<1>1. /\ job \in [Workers -> Job] /\ was \in History
      /\ ListsOK(w) /\ SweepOK(w) /\ Known /\ IndexComplete
  BY DEF Inv, TypeOK, Good, Overall
<1>2. job[w].at = "sweep"
  BY DEF Sweep
<1>3. /\ index' = index /\ entry' = entry
      /\ was'.listed = was.listed /\ was'.acked = was.acked /\ was'.ended = was.ended
      /\ was'.revived = was.revived
      /\ was'.escaped = was.escaped \cup If(todo = {}, (job[w].seen \cap entry) \ was.unlisted)
      /\ was'.failed = was.failed \cup If(~ok, job[w].seen)
  BY <1>1 DEF Sweep, History
<1>4. Steady /\ Own(w)
  BY <1>1 DEF Sweep, Steady, Own, History
<1>5. job[w].seen \cap entry \subseteq todo \cup Excused \cup was'.failed
  <2>1. CASE ok
    BY <1>1, <2>1 DEF If, SweepOK, Known, IndexComplete, Excused
  <2>2. CASE ~ok
    BY <1>3, <2>2 DEF If
  <2>3. QED
    BY <2>1, <2>2
<1>6. SweepComplete'
  <2>1. todo = {} => (job[w].seen \cap entry) \ was.unlisted
                       \subseteq was'.raced \cup was'.overwritten \cup was'.failed
    BY <1>4, <1>5 DEF Excused, Steady
  <2>2. QED
    BY <1>3, <1>4, <2>1, EscapedKept DEF If
<1>7. EndedOK' /\ IndexComplete' /\ EndedStaysOut'
  BY <1>3, <1>4, EndedKept, IndexKept, OutKept
<1>8. Known'
  BY <1>1, <1>3, <1>4 DEF Known, Steady
<1>9. Overall'
  BY <1>6, <1>7, <1>8 DEF Overall
<1>10. CASE Leave(w)
  BY <1>4, <1>9, <1>10, LeaveStep
<1>11. ASSUME NEW t \in todo,
              job' = [job EXCEPT ![w].at = "find", ![w].sid = t, ![w].todo = todo \ {t}]
       PROVE  Inv'
  <2>1. /\ job'[w].at = "find" /\ job'[w].sid = t /\ job'[w].todo = todo \ {t}
        /\ job'[w].seen = job[w].seen /\ Others(w) /\ SameLists(w)
    BY <1>1, <1>2, <1>11 DEF Others, SameLists, Job
  <2>2. todo \subseteq was.listed
    BY <1>1 DEF If, Known
  <2>3. PlaceOK(w)' /\ LateOK(w)' /\ SameLogin(w)
    BY <1>3, <2>1, <2>2 DEF PlaceOK, LateOK, SameLogin, Entering, Entered, Destroying, Serving,
                            At, Asking
  <2>4. SweepOK(w)'
    <3>1. Excused \subseteq Excused'
      BY <1>1, <1>4 DEF Sweep, Excused, Steady, History
    <3>2. job[w].seen \cap entry' \subseteq (todo \ {t}) \cup {t} \cup Excused'
      BY <1>3, <1>5, <3>1 DEF Excused
    <3>3. QED
      BY <1>1, <1>3, <2>1, <2>2, <3>2 DEF SweepOK
  <2>5. QED
    BY <1>4, <1>9, <2>1, <2>3, <2>4, ListsKept, StepInv DEF Good
<1>12. QED
  BY <1>10, <1>11 DEF Sweep

-----------------------------------------------------------------------------
(* A request with a session. *)

LEMMA GuardStep ==
    ASSUME Inv, TypeOK', NEW w \in Workers, NEW ok \in BOOLEAN, Guard(w, ok)
    PROVE  Inv'
<1>1. job \in [Workers -> Job] /\ was \in History /\ PlaceOK(w) /\ EndedOK
  BY DEF Inv, TypeOK, Good, Overall
<1>2. Calm /\ Own(w)
  BY <1>1 DEF Guard, Calm, Steady, Own, History
<1>3. CASE Leave(w)
  BY <1>2, <1>3, CalmKept, LeaveStep DEF Calm
<1>4. CASE ~Leave(w)
  <2>1. ~(ok /\ job[w].sid \in black)
        /\ job' = [job EXCEPT ![w].at = "load", ![w].late = job[w].sid \in was.ended]
    BY <1>4 DEF Guard
  <2>2. /\ job[w].at = "guard" /\ job'[w].at = "load" /\ Others(w)
        /\ SameLists(w) /\ SameSweep(w)
        /\ job'[w].late => job[w].sid \in was.ended
    BY <1>1, <2>1 DEF Guard, Others, Job, SameLists, SameSweep
  <2>3. PlaceOK(w)' /\ SameLogin(w)
    BY <1>1, <1>2, <2>2 DEF PlaceOK, SameLogin, SameSweep, Calm, Entering, Entered,
                            Destroying, Serving, At, Asking
  <2>4. LateOK(w)'
    <3>1. ~ok => job[w].sid \in was'.failed
      BY <1>1 DEF Guard, If, History
    <3>2. job'[w].late => job[w].sid \in was'.ended \cap (was'.forgotten \cup was'.failed)
      BY <1>1, <1>2, <2>1, <2>2, <3>1 DEF EndedOK, Calm, Steady
    <3>3. QED
      BY <2>2, <3>2 DEF LateOK, SameSweep
  <2>5. QED
    BY <1>2, <2>2, <2>3, <2>4, ListsKept, SweepKept, CalmKept, StepInv DEF Calm, Good
<1>5. QED
  BY <1>3, <1>4

LEMMA LoadStep ==
    ASSUME Inv, TypeOK', NEW w \in Workers, NEW ok \in BOOLEAN, Load(w, ok)
    PROVE  Inv'
<1>1. job \in [Workers -> Job] /\ PlaceOK(w) /\ LateOK(w) /\ EndedOK
  BY DEF Inv, TypeOK, Good, Overall
<1>2. Calm /\ Own(w)
  BY DEF Load, Calm, Steady, Own
<1>3. CASE Leave(w)
  BY <1>2, <1>3, CalmKept, LeaveStep DEF Calm
<1>4. CASE ~Leave(w)
  <2>1. job[w].sid \in entry /\ Go(w, "touch")
    BY <1>4 DEF Load
  <2>2. /\ job[w].at = "load" /\ job'[w].at = "touch" /\ Others(w)
        /\ SameLists(w) /\ SameSweep(w) /\ job'[w].late = job[w].late
    BY <1>1, <2>1 DEF Load, Go, Others, Job, SameLists, SameSweep
  <2>3. PlaceOK(w)' /\ SameLogin(w)
    BY <1>1, <1>2, <2>2 DEF PlaceOK, SameLogin, SameSweep, Calm, Entering, Entered,
                            Destroying, Serving, At, Asking
  <2>4. LateOK(w)'
    <3>1. was' = was
      BY DEF Load
    <3>2. job[w].late => job[w].sid \in was.raced \cup was.failed
      BY <1>1, <2>1, <2>2 DEF LateOK, EndedOK
    <3>3. QED
      BY <1>1, <2>2, <3>1, <3>2 DEF LateOK, SameSweep
  <2>5. QED
    BY <1>2, <2>2, <2>3, <2>4, ListsKept, SweepKept, CalmKept, StepInv DEF Calm, Good
<1>5. QED
  BY <1>3, <1>4

\* A request that began after the end of its session is let in.
LEMMA LetInOK ==
    ASSUME Inv, Steady, NEW w \in Workers, job[w].at \in {"touch", "renew"},
           was'.revived \subseteq was.revived \cup LetIn(w)
    PROVE  EndedStaysOut'
<1>1. LateOK(w)
  BY DEF Inv, Good
<1>2. LetIn(w) \subseteq (was.raced \cap was.forgotten) \cup was.failed
  BY <1>1 DEF LateOK, LetIn, If
<1>3. QED
  BY <1>2, OutKept DEF Steady

LEMMA TouchStep ==
    ASSUME Inv, TypeOK', NEW w \in Workers, NEW ok \in BOOLEAN, Touch(w, ok)
    PROVE  Inv'
<1>1. job \in [Workers -> Job] /\ was \in History /\ PlaceOK(w) /\ LateOK(w) /\ Known
  BY DEF Inv, TypeOK, Good, Overall
<1>2. /\ Steady /\ Own(w) /\ job[w].at = "touch"
      /\ index' = index /\ was'.listed = was.listed /\ was'.acked = was.acked
      /\ was'.ended = was.ended /\ was'.escaped = was.escaped
      /\ was'.revived \subseteq was.revived \cup LetIn(w)
  BY <1>1 DEF Touch, Steady, Own, History
<1>3. Overall'
  BY <1>1, <1>2, EndedKept, IndexKept, LetInOK, EscapedKept DEF Overall, Known, Steady
<1>4. CASE Leave(w)
  BY <1>2, <1>3, <1>4, LeaveStep
<1>5. CASE ~Leave(w)
  <2>1. job[w].sid \in entry /\ Go(w, "renew") /\ was' = was /\ entry' = entry
    BY <1>5 DEF Touch
  <2>2. /\ job'[w].at = "renew" /\ Others(w)
        /\ SameLists(w) /\ SameSweep(w) /\ job'[w].late = job[w].late
    BY <1>1, <1>2, <2>1 DEF Go, Others, Job, SameLists, SameSweep
  <2>3. PlaceOK(w)' /\ SameLogin(w)
    BY <1>1, <1>2, <2>1, <2>2 DEF PlaceOK, SameLogin, SameSweep, Entering, Entered,
                                  Destroying, Serving, At, Asking
  <2>4. LateOK(w)'
    BY <1>1, <1>2, <2>1, <2>2 DEF LateOK, SameSweep
  <2>5. QED
    BY <1>2, <1>3, <2>2, <2>3, <2>4, ListsKept, SweepKept, StepInv DEF Good
<1>6. QED
  BY <1>4, <1>5

LEMMA RenewStep ==
    ASSUME Inv, TypeOK', NEW w \in Workers, NEW ok \in BOOLEAN, Renew(w, ok)
    PROVE  Inv'
<1>1. was \in History /\ LateOK(w) /\ Known
  BY DEF Inv, TypeOK, Good, Overall
<1>2. /\ Steady /\ Own(w) /\ job[w].at = "renew"
      /\ index' = index /\ was'.listed = was.listed /\ was'.acked = was.acked
      /\ was'.ended = was.ended /\ was'.escaped = was.escaped
      /\ was'.revived \subseteq was.revived \cup LetIn(w)
  BY <1>1 DEF Renew, LateOK, Steady, Own, History
<1>3. Overall'
  BY <1>1, <1>2, EndedKept, IndexKept, LetInOK, EscapedKept DEF Overall, Known, Steady
<1>4. QED
  BY <1>2, <1>3, LeaveStep DEF Renew

-----------------------------------------------------------------------------
(* Keys end, the process dies. *)

LEMMA StillInv ==
    ASSUME Inv, TypeOK', Steady, Overall', UNCHANGED job,
           was'.listed = was.listed, was'.acked = was.acked
    PROVE  Inv'
<1>1. \A w \in Workers : Good(w)'
  BY SameKept
<1>2. Apart'
  BY DEF Inv, Apart, Entering, Entered, At, Asking
<1>3. QED
  BY <1>1, <1>2 DEF Inv

LEMMA ExpireStep ==
    ASSUME Inv, TypeOK', NEW s \in Ids, EntryExpires(s) \/ BlackExpires(s)
    PROVE  Inv'
<1>1. was \in History
  BY DEF Inv, TypeOK
<1>2. Calm /\ UNCHANGED job
  <2>1. CASE EntryExpires(s)
    <3>1. /\ entry' = entry \ {s} /\ UNCHANGED <<index, black, job>>
          /\ was' = [was EXCEPT !.raced = was.raced \cup If(Held(s), {s})]
      BY <2>1 DEF EntryExpires
    <3>2. Held(s) => s \in was'.raced
      BY <1>1, <3>1 DEF If, History
    <3>3. QED
      BY <1>1, <3>1, <3>2 DEF Calm, Steady, History
  <2>2. CASE BlackExpires(s)
    BY <1>1, <2>2 DEF BlackExpires, Calm, Steady, History
  <2>3. QED
    BY <2>1, <2>2
<1>3. QED
  BY <1>2, CalmKept, StillInv DEF Calm

LEMMA IndexExpiresStep ==
    ASSUME Inv, TypeOK', IndexExpires
    PROVE  Inv'
<1>1. was \in History /\ Known
  BY DEF Inv, TypeOK, Overall
<1>2. /\ Steady /\ index' = {} /\ UNCHANGED job
      /\ was'.listed = was.listed /\ was'.acked = was.acked /\ was'.ended = was.ended
      /\ was'.revived = was.revived /\ was'.escaped = was.escaped
      /\ index \subseteq was'.overwritten
  BY <1>1 DEF IndexExpires, Steady, History
<1>3. Overall'
  BY <1>1, <1>2, EndedKept, IndexKept, OutKept, EscapedKept DEF Overall, Known, Steady, Excused
<1>4. QED
  BY <1>2, <1>3, StillInv

LEMMA CrashStep ==
    ASSUME Inv, TypeOK', Crash
    PROVE  Inv'
<1>1. Calm
  BY DEF Crash, Calm, Steady
<1>2. \A w \in Workers : job'[w] = Idle
  BY DEF Crash
<1>3. \A w \in Workers : Good(w)'
  BY <1>2, IdleGood
<1>4. Apart'
  BY <1>2 DEF Apart, Idle, Entering, Entered, At, Asking
<1>5. QED
  BY <1>1, <1>3, <1>4, CalmKept DEF Inv

-----------------------------------------------------------------------------
(* The theorems. *)

LEMMA InvStep == Inv /\ [Next]_vars => Inv'
<1> SUFFICES ASSUME Inv, [Next]_vars
             PROVE  Inv'
  OBVIOUS
<1>1. TypeOK'
  BY TypesStep
<1>2. ASSUME NEW w \in Workers, Arrive(w)
      PROVE  Inv'
  BY <1>1, <1>2, ReceiveStep, LogoutAllStep, LoginStep DEF Arrive
<1>3. ASSUME NEW w \in Workers, Serve(w)
      PROVE  Inv'
  BY <1>1, <1>3, ReadIndexStep, LookStep, PruneStep, StoreStep, AddStep, LimitStep, EndStep,
     OwnedStep, FindStep, RemoveStep, BarStep, DropStep, SweepStep, GuardStep, LoadStep,
     TouchStep, RenewStep DEF Serve
<1>4. CASE UNCHANGED vars
  <2>1. Calm /\ UNCHANGED job
    BY <1>4 DEF vars, Calm, Steady
  <2>2. QED
    BY <1>1, <2>1, CalmKept, StillInv DEF Calm
<1>5. QED
  BY <1>1, <1>2, <1>3, <1>4, ExpireStep, IndexExpiresStep, CrashStep DEF Next

LEMMA Always == Spec => []Inv
  BY InitInv, InvStep, PTL DEF Spec

\* Every variable keeps its type: whatever a request puts into the cache is the id of
\* a session.
THEOREM LoginTypes == Spec => []TypeOK
<1>1. Inv => TypeOK
  BY DEF Inv
<1>2. QED
  BY <1>1, Always, PTL

\* However many logins, logouts and listings overlap, the index has every session that
\* is alive, but for the cases that the history names.
THEOREM IndexIsComplete == Spec => []IndexComplete
<1>1. Inv => IndexComplete
  BY DEF Inv, Overall
<1>2. QED
  BY <1>1, Always, PTL

\* A request that begins after destroySession is let in only when a request that
\* overlapped the end wrote the entry back and the blacklist has forgotten it.
THEOREM TheEndIsFinal == Spec => []EndedStaysOut
<1>1. Inv => EndedStaysOut
  BY DEF Inv, Overall
<1>2. QED
  BY <1>1, Always, PTL

\* destroyAllUserSessions leaves none of the sessions that were there when it began, but
\* for those written back, lost from the index before, or spared by a failing cache.
THEOREM NoneIsLeft == Spec => []SweepComplete
<1>1. Inv => SweepComplete
  BY DEF Inv, Overall
<1>2. QED
  BY <1>1, Always, PTL

-----------------------------------------------------------------------------
(* The number of sessions.  A login that has read the index to count found    *)
(* every session there was for a client, or one that read it later has        *)
(* counted what both found.                                                   *)

Alive == entry \ Excused
Clients == Alive \cap was.acked
Found(w) == (job[w].left \cup job[w].kept) \cap Alive
HasRead(w) == job[w].at = "limit" \/ (job[w].at \in {"look", "prune"} /\ job[w].for = "limit")
Counting(w) == HasRead(w) /\ job[w].sid \in Alive

CountOK(w) ==
    /\ job[w].sid \in Found(w)
    /\ Clients \subseteq Found(w) \/ Cardinality(Clients \cup Found(w)) <= MaxSessions

CountOver(T) ==
    /\ Cardinality(Clients) <= MaxSessions
    /\ \A w \in T : Counting(w) => CountOK(w)
    /\ \A w, u \in T : Counting(w) /\ Counting(u) =>
         Found(w) \subseteq Found(u) \/ Found(u) \subseteq Found(w)
CountInv == CountOver(Workers)

LEMMA IdCounts ==
    ASSUME NEW A \in SUBSET Ids
    PROVE  /\ Cardinality(A) \in Nat
           /\ \A B \in SUBSET Ids : A \subseteq B => Cardinality(A) <= Cardinality(B)
  BY IdsAssumption, FS_Subset, FS_CardinalityType

LEMMA CountSets ==
    ASSUME TypeOK
    PROVE  /\ Clients \in SUBSET Ids
           /\ \A w \in Workers : Found(w) \in SUBSET Ids /\ Clients \cup Found(w) \in SUBSET Ids
  BY DEF TypeOK, Clients, Found, Alive

\* No session comes back to life: its login has to store it first.
LEMMA NoneRevives ==
    ASSUME Inv, Steady
    PROVE  Alive' \cap (was.listed \cup was.failed) \subseteq Alive
  BY DEF Steady, Alive, Excused

LEMMA CountedAre ==
    ASSUME Inv
    PROVE  /\ was.acked \subseteq was.listed \cup was.failed
           /\ \A w \in Workers :
                /\ job[w].left \cup job[w].kept \subseteq was.listed
                /\ HasRead(w) => job[w].sid \in was.listed \cup was.failed
<1>1. ASSUME NEW w \in Workers
      PROVE  /\ job[w].left \cup job[w].kept \subseteq was.listed
             /\ HasRead(w) => job[w].sid \in was.listed \cup was.failed
  <2>1. ListsOK(w) /\ PlaceOK(w)
    BY DEF Inv, Good
  <2>2. HasRead(w) => Entered(w)
    BY DEF HasRead, Entered, At, Asking
  <2>. QED  BY <2>1, <2>2 DEF ListsOK, PlaceOK
<1>. QED  BY <1>1 DEF Inv, Overall, Known

\* What a login has found fades with the sessions themselves.
Fades(w) ==
    Counting(w)' =>
        /\ HasRead(w) /\ job'[w].sid = job[w].sid
        /\ (job'[w].left \cup job'[w].kept) \cap Alive' =
             (job[w].left \cup job[w].kept) \cap Alive'

LEMMA Fading ==
    ASSUME Inv, TypeOK', Steady, CountInv, was'.acked = was.acked,
           NEW T \in SUBSET Workers, \A w \in T : Fades(w)
    PROVE  CountOver(T)'
<1>1. Clients' = Clients \cap Alive'
  BY NoneRevives, CountedAre DEF Clients
<1>2. ASSUME NEW w \in T, Counting(w)'
      PROVE  Counting(w) /\ job'[w].sid = job[w].sid /\ Found(w)' = Found(w) \cap Alive'
  <2>1. job'[w].sid \in Alive'
    BY <1>2 DEF Counting
  <2>2. HasRead(w) /\ job'[w].sid = job[w].sid
        /\ Found(w)' = (job[w].left \cup job[w].kept) \cap Alive'
    <3>1. Fades(w) /\ Counting(w)'
      BY <1>2
    <3>. QED  BY <3>1 DEF Fades, Found
  <2>3. job[w].sid \in Alive
    BY <2>1, <2>2, NoneRevives, CountedAre
  <2>4. Found(w)' = Found(w) \cap Alive'
    BY <2>2, NoneRevives, CountedAre DEF Found
  <2>. QED  BY <2>2, <2>3, <2>4 DEF Counting
<1>3. TypeOK
  BY DEF Inv
<1>4. Cardinality(Clients') <= MaxSessions
  <2>1. Clients' \subseteq Clients
    BY <1>1
  <2>2. Cardinality(Clients') <= Cardinality(Clients)
        /\ Cardinality(Clients') \in Nat /\ Cardinality(Clients) \in Nat
    BY <1>3, <2>1, CountSets, IdCounts
  <2>. QED  BY <2>2, LimitsAssumption DEF CountInv, CountOver
<1>5. ASSUME NEW w \in T, Counting(w)'
      PROVE  CountOK(w)'
  <2>1. Counting(w) /\ job'[w].sid = job[w].sid /\ Found(w)' = Found(w) \cap Alive'
        /\ job'[w].sid \in Alive'
    BY <1>2, <1>5 DEF Counting
  <2>2. CountOK(w)
    BY <2>1 DEF CountInv, CountOver
  <2>3. job'[w].sid \in Found(w)'
    BY <2>1, <2>2 DEF CountOK
  <2>4. CASE Clients \subseteq Found(w)
    BY <1>1, <2>1, <2>3, <2>4 DEF CountOK
  <2>5. CASE Cardinality(Clients \cup Found(w)) <= MaxSessions
    <3>1. Clients' \cup Found(w)' \subseteq Clients \cup Found(w)
      BY <1>1, <2>1
    <3>2. Clients' \cup Found(w)' \in SUBSET Ids /\ Clients \cup Found(w) \in SUBSET Ids
      BY <1>3, <3>1, CountSets
    <3>3. /\ Cardinality(Clients' \cup Found(w)') <= Cardinality(Clients \cup Found(w))
          /\ Cardinality(Clients' \cup Found(w)') \in Nat
          /\ Cardinality(Clients \cup Found(w)) \in Nat
      BY <3>1, <3>2, IdCounts
    <3>4. Cardinality(Clients' \cup Found(w)') <= MaxSessions
      BY <2>5, <3>3, LimitsAssumption
    <3>. QED  BY <2>3, <3>4 DEF CountOK
  <2>. QED  BY <2>2, <2>4, <2>5 DEF CountOK
<1>6. ASSUME NEW w \in T, NEW u \in T, Counting(w)', Counting(u)'
      PROVE  Found(w)' \subseteq Found(u)' \/ Found(u)' \subseteq Found(w)'
  <2>1. /\ Counting(w) /\ Found(w)' = Found(w) \cap Alive'
        /\ Counting(u) /\ Found(u)' = Found(u) \cap Alive'
    BY <1>2, <1>6
  <2>. QED  BY <2>1 DEF CountInv, CountOver
<1>. QED  BY <1>4, <1>5, <1>6 DEF CountOver

LEMMA SameFades ==
    ASSUME NEW w \in Workers, job'[w] = job[w]
    PROVE  Fades(w)
  BY DEF Fades, HasRead, Counting

\* A step of one request that counts nothing.
LEMMA NotCounting ==
    ASSUME Inv, TypeOK', Steady, CountInv, was'.acked = was.acked, NEW w \in Workers, Others(w),
           job'[w].at \notin {"look", "prune", "limit"}
    PROVE  CountInv'
<1>1. Fades(w)
  BY DEF Fades, HasRead, Counting
<1>. QED  BY <1>1, SameFades, Fading DEF Others, CountInv

LEMMA PruneCounts ==
    ASSUME Inv, TypeOK', CountInv, NEW w \in Workers, NEW ok \in BOOLEAN, Prune(w, ok)
    PROVE  CountInv'
<1>1. job \in [Workers -> Job] /\ was \in History
  BY DEF Inv, TypeOK
<1>2. Steady /\ was'.acked = was.acked
  BY <1>1 DEF Prune, Steady, History
<1>3. /\ job[w].at = "prune" /\ Others(w)
      /\ job'[w].at = job[w].for /\ job'[w].sid = job[w].sid /\ job'[w].for = job[w].for
      /\ job'[w].left = job[w].left /\ job'[w].kept = job[w].kept /\ job[w].for \in Callers
  BY <1>1 DEF Prune, Go, Others, Job
<1>4. Fades(w)
  BY <1>3 DEF Fades, HasRead, Counting, Callers
<1>. QED  BY <1>2, <1>3, <1>4, SameFades, Fading DEF Others, CountInv

LEMMA LookCounts ==
    ASSUME Inv, TypeOK', CountInv, NEW w \in Workers, NEW ok \in BOOLEAN, NEW s \in Ids,
           Look(w, s, ok)
    PROVE  CountInv'
<1>1. job \in [Workers -> Job] /\ was \in History
  BY DEF Inv, TypeOK
<1>. DEFINE left == job[w].left \ {s}
            kept == job[w].kept \cup If(ok /\ s \in entry, {s})
<1>2. Steady /\ was'.acked = was.acked
  BY <1>1 DEF Look, Steady, History
<1>3. /\ job[w].at = "look" /\ Others(w) /\ s \in job[w].left
      /\ job'[w].left = left /\ job'[w].kept = kept
      /\ job'[w].at = AfterLook(w, left, kept)
      /\ job'[w].sid = job[w].sid /\ job'[w].for = job[w].for /\ job[w].for \in Callers
  BY <1>1 DEF Look, Others, Job
<1>4. job'[w].at \in {"look", "prune", job[w].for}
  BY <1>3, AfterLookIs
<1>5. s \in Alive' => s \in kept
  <2>1. entry' = entry /\ (~ok => s \in was'.failed)
    BY <1>1 DEF Look, If, History
  <2>. QED  BY <2>1 DEF Alive, Excused, If
<1>6. (left \cup kept) \cap Alive' = (job[w].left \cup job[w].kept) \cap Alive'
  BY <1>3, <1>5 DEF If
<1>7. Fades(w)
  BY <1>3, <1>4, <1>6 DEF Fades, HasRead, Counting, Callers
<1>. QED  BY <1>2, <1>3, <1>7, SameFades, Fading DEF Others, CountInv

\* Who reads the index finds every session that somebody has found before.
LEMMA ReadCounts ==
    ASSUME Inv, Inv', CountInv, NEW w \in Workers, NEW ok \in BOOLEAN, ReadIndex(w, ok)
    PROVE  CountInv'
<1>1. job \in [Workers -> Job] /\ was \in History
  BY DEF Inv, TypeOK
<1>2. /\ Steady /\ was'.acked = was.acked /\ was'.listed = was.listed
      /\ entry' = entry /\ index' = index
  BY <1>1 DEF ReadIndex, Steady, History
<1>3. /\ job[w].at = "index" /\ Others(w)
      /\ job'[w].left = If(ok, index) /\ job'[w].kept = {}
      /\ job'[w].sid = job[w].sid /\ job'[w].for = job[w].for /\ job[w].for \in Callers
      /\ job'[w].at = (IF If(ok, index) = {} THEN job[w].for ELSE "look")
  BY <1>1 DEF ReadIndex, Others, Job
<1>4. CountOver(Workers \ {w})'
  <2>. TypeOK'
    BY DEF Inv
  <2>. QED  BY <1>2, <1>3, SameFades, Fading DEF Others
<1>5. ASSUME Counting(w)'
      PROVE  /\ CountOK(w)'
             /\ \A u \in Workers \ {w} : Found(u)' \subseteq Found(w)'
  <2>1. job[w].for = "limit" /\ Entered(w) /\ job[w].sid \in Alive'
    BY <1>3, <1>5 DEF Counting, HasRead, Callers, Entered, At, Asking
  <2>2. job[w].sid \in Ids /\ job[w].sid \in was.listed \cup was.failed
    BY <2>1, HasId DEF Inv, Good, PlaceOK
  <2>3. ok /\ job[w].sid \in was.listed
    <3>1. ~ok => job[w].sid \in was'.failed
      BY <1>1, <2>2, IdsAssumption DEF ReadIndex, If, History
    <3>. QED  BY <1>2, <2>1, <2>2, <3>1 DEF Steady, Alive, Excused
  <2>4. Alive' \cap was.listed \subseteq index
    <3>1. IndexComplete'
      BY DEF Inv, Overall
    <3>. QED  BY <1>2, <3>1 DEF IndexComplete, Alive
  <2>5. Found(w)' = index \cap Alive'
    BY <1>3, <2>3 DEF Found, If
  <2>6. Clients' \subseteq Found(w)'
    <3>1. was.acked \cap Alive' \subseteq was.listed
      BY <1>2, CountedAre DEF Steady, Alive, Excused
    <3>. QED  BY <1>2, <2>4, <2>5, <3>1 DEF Clients
  <2>7. ASSUME NEW u \in Workers \ {w}
        PROVE  Found(u)' \subseteq Found(w)'
    <3>1. job'[u] = job[u] /\ job[u].left \cup job[u].kept \subseteq was.listed
      BY <1>3, CountedAre DEF Others
    <3>. QED  BY <2>4, <2>5, <3>1 DEF Found
  <2>8. job'[w].sid \in Found(w)'
    BY <1>3, <2>1, <2>3, <2>4, <2>5
  <2>. QED  BY <2>6, <2>7, <2>8 DEF CountOK
<1>. QED  BY <1>4, <1>5 DEF CountInv, CountOver

\* Who has counted the sessions gives its own to the client.
LEMMA LimitCounts ==
    ASSUME Inv, TypeOK', CountInv, NEW w \in Workers, Limit(w)
    PROVE  CountInv'
<1>. DEFINE s == job[w].sid
<1>1. /\ job \in [Workers -> Job] /\ was \in History /\ TypeOK /\ job[w].left = {}
      /\ job[w].kept \in SUBSET Ids
  <2>1. ListsOK(w) /\ job[w].at = "limit" /\ job \in [Workers -> Job]
    BY DEF Inv, Good, Limit, TypeOK
  <2>. QED  BY <2>1 DEF Inv, TypeOK, ListsOK, Job
<1>2. job[w].at = "limit" /\ Others(w) /\ job'[w] = Idle
  BY <1>1 DEF Limit, Leave, Others
<1>3. Steady /\ Alive' = Alive /\ was'.acked = was.acked \cup If(~TooMany(w), {s})
  BY <1>1 DEF Limit, Steady, Alive, Excused, History, If
<1>4. ~Counting(w)'
  BY <1>2 DEF Counting, HasRead, Idle
<1>5. \A u \in Workers \ {w} :
        Found(u)' = Found(u) /\ job'[u] = job[u] /\ (Counting(u)' <=> Counting(u))
  BY <1>2, <1>3 DEF Others, Found, Counting, HasRead
<1>6. CASE TooMany(w) \/ s \notin Alive
  <2>1. Clients' = Clients
    BY <1>3, <1>6 DEF Clients, If
  <2>2. \A u \in Workers \ {w} : Counting(u) => CountOK(u)'
    BY <1>5, <2>1 DEF CountInv, CountOver, CountOK
  <2>. QED  BY <1>4, <1>5, <2>1, <2>2 DEF CountInv, CountOver
<1>7. CASE ~TooMany(w) /\ s \in Alive
  <2>1. Clients' = Clients \cup {s}
    BY <1>3, <1>7 DEF Clients, If
  <2>2. Counting(w) /\ CountOK(w)
    BY <1>2, <1>7 DEF Counting, HasRead, CountInv, CountOver
  <2>3. s \in Found(w) /\ Found(w) \in SUBSET Ids /\ Clients \in SUBSET Ids
    BY <1>1, <2>2, CountSets DEF CountOK
  <2>4. Cardinality(Clients \cup Found(w)) <= MaxSessions
    <3>1. CASE Clients \subseteq Found(w)
      <4>1. Clients \cup Found(w) \subseteq job[w].kept /\ Clients \cup Found(w) \in SUBSET Ids
        BY <1>1, <2>3, <3>1 DEF Found
      <4>2. /\ Cardinality(Clients \cup Found(w)) <= Cardinality(job[w].kept)
            /\ Cardinality(Clients \cup Found(w)) \in Nat /\ Cardinality(job[w].kept) \in Nat
        BY <1>1, <4>1, IdCounts
      <4>3. Cardinality(job[w].kept) <= MaxSessions
        BY <1>7, <4>2, LimitsAssumption DEF TooMany
      <4>. QED  BY <4>2, <4>3, LimitsAssumption
    <3>. QED  BY <2>2, <3>1 DEF CountOK
  <2>5. ASSUME NEW A \in SUBSET Ids, A \subseteq Clients \cup Found(w)
        PROVE  Cardinality(A) <= MaxSessions
    <3>1. Clients \cup Found(w) \in SUBSET Ids
      BY <2>3
    <3>2. /\ Cardinality(A) <= Cardinality(Clients \cup Found(w))
          /\ Cardinality(A) \in Nat /\ Cardinality(Clients \cup Found(w)) \in Nat
      BY <2>5, <3>1, IdCounts
    <3>. QED  BY <2>4, <3>2, LimitsAssumption
  <2>6. Cardinality(Clients') <= MaxSessions
    BY <2>1, <2>3, <2>5
  <2>7. ASSUME NEW u \in Workers \ {w}, Counting(u)'
        PROVE  CountOK(u)'
    <3>1. Counting(u) /\ CountOK(u) /\ job[u].sid \in Found(u) /\ Found(u) \in SUBSET Ids
      BY <1>1, <1>5, <2>7, CountSets DEF CountInv, CountOver, CountOK
    <3>2. Found(w) \subseteq Found(u) \/ Found(u) \subseteq Found(w)
      BY <2>2, <3>1 DEF CountInv, CountOver
    <3>3. CASE Found(u) \subseteq Found(w)
      <4>1. Cardinality(Clients' \cup Found(u)') <= MaxSessions
        BY <1>5, <2>1, <2>3, <2>5, <3>1, <3>3
      <4>. QED  BY <1>5, <3>1, <4>1 DEF CountOK
    <3>4. CASE Found(w) \subseteq Found(u)
      <4>1. Clients' \cup Found(u)' = Clients \cup Found(u)
        BY <1>5, <2>1, <2>3, <3>4
      <4>2. Clients \subseteq Found(u) => Clients' \subseteq Found(u)'
        BY <1>5, <2>1, <2>3, <3>4
      <4>. QED  BY <1>5, <3>1, <4>1, <4>2 DEF CountOK
    <3>. QED  BY <3>2, <3>3, <3>4
  <2>. QED  BY <1>4, <1>5, <2>6, <2>7 DEF CountInv, CountOver
<1>. QED  BY <1>6, <1>7

LEMMA ArriveCounts ==
    ASSUME Inv, TypeOK', CountInv, NEW w \in Workers, Arrive(w)
    PROVE  CountInv'
<1>1. job \in [Workers -> Job] /\ was \in History
  BY DEF Inv, TypeOK
<1>2. ASSUME NEW op, NEW s, NEW label \in {"index", "store", "logout", "owned", "guard"},
             Receive(w, op, s, label),
             was' = was \/ (\E i \in Ids : was' = [was EXCEPT !.used = @ \cup {i}])
      PROVE  CountInv'
  <2>1. Steady /\ was'.acked = was.acked
    BY <1>1, <1>2 DEF Receive, Steady, History
  <2>2. Others(w) /\ job'[w].at = label
    BY <1>1, <1>2 DEF Receive, Others, Idle
  <2>. QED  BY <2>1, <2>2, NotCounting
<1>3. CASE LogoutAll(w)
  <2>1. Steady /\ was'.acked = was.acked
    BY <1>3 DEF LogoutAll, Steady
  <2>2. Others(w) /\ job'[w].at = "sweep"
    BY <1>1, <1>3 DEF LogoutAll, Others, Idle
  <2>. QED  BY <2>1, <2>2, NotCounting
<1>. QED  BY <1>2, <1>3 DEF Arrive, AskList, Login, Logout, Terminate, Request

\* The steps of a request that count nothing.
LEMMA ServeCounts ==
    ASSUME Inv, TypeOK', CountInv, NEW w \in Workers,
           \/ List(w) \/ LogOut(w)
           \/ \E ok \in BOOLEAN :
                \/ Store(w, ok) \/ Add(w, ok) \/ Owned(w, ok) \/ Find(w, ok) \/ Remove(w, ok)
                \/ Bar(w, ok) \/ Drop(w, ok) \/ Sweep(w, ok) \/ Guard(w, ok) \/ Load(w, ok)
                \/ Touch(w, ok) \/ Renew(w, ok)
    PROVE  CountInv'
<1>1. job \in [Workers -> Job] /\ was \in History
  BY DEF Inv, TypeOK
<1>2. ASSUME NEW label \in {"idle", "index", "bar", "drop", "find", "load", "touch", "renew"},
             Others(w), job'[w].at = label, Steady, was'.acked = was.acked
      PROVE  CountInv'
  BY <1>2, NotCounting
<1>3. ASSUME Leave(w), Steady, was'.acked = was.acked
      PROVE  CountInv'
  BY <1>1, <1>2, <1>3 DEF Leave, Others, Idle
<1>4. ASSUME NEW label \in {"bar", "drop", "find", "touch", "renew"}, Go(w, label), Steady,
             was'.acked = was.acked
      PROVE  CountInv'
  <2>1. Others(w) /\ job'[w].at = label
    BY <1>1, <1>4 DEF Go, Others, Job
  <2>. QED  BY <1>2, <1>4, <2>1
<1>5. ASSUME NEW caller, GetSessions(w, caller), Steady, was'.acked = was.acked
      PROVE  CountInv'
  <2>1. Others(w) /\ job'[w].at = "index"
    BY <1>1, <1>5 DEF GetSessions, Others, Job
  <2>. QED  BY <1>2, <1>5, <2>1
<1>6. CASE List(w) \/ LogOut(w)
  BY <1>3, <1>6 DEF List, LogOut, Steady
<1>7. ASSUME NEW ok \in BOOLEAN, Store(w, ok)
      PROVE  CountInv'
  <2>1. PlaceOK(w) /\ Entering(w)
    BY <1>7 DEF Inv, Good, Store, Entering, At
  <2>2. Steady /\ was'.acked = was.acked
    BY <1>1, <1>7, <2>1 DEF Store, Steady, History, PlaceOK
  <2>. QED  BY <1>5, <1>7, <2>2 DEF Store
<1>8. ASSUME NEW ok \in BOOLEAN, Add(w, ok)
      PROVE  CountInv'
  <2>1. Steady /\ was'.acked = was.acked
    BY <1>1, <1>8 DEF Add, Steady, History
  <2>2. Others(w) /\ job'[w].at = "index"
    BY <1>1, <1>8 DEF Add, Cleared, Others, Job
  <2>. QED  BY <1>2, <2>1, <2>2
<1>9. ASSUME NEW ok \in BOOLEAN, Owned(w, ok)
      PROVE  CountInv'
  BY <1>3, <1>4, <1>9 DEF Owned, Steady
<1>10. ASSUME NEW ok \in BOOLEAN, Find(w, ok)
       PROVE  CountInv'
  <2>1. Steady /\ was'.acked = was.acked
    BY <1>1, <1>10 DEF Find, Steady, History
  <2>. QED  BY <1>4, <1>5, <1>10, <2>1 DEF Find
<1>11. ASSUME NEW ok \in BOOLEAN, Remove(w, ok)
       PROVE  CountInv'
  <2>1. Steady /\ was'.acked = was.acked
    BY <1>1, <1>11 DEF Remove, Steady, History
  <2>2. Others(w) /\ job'[w].at = "bar"
    BY <1>1, <1>11 DEF Remove, Cleared, Others, Job
  <2>. QED  BY <1>2, <2>1, <2>2
<1>12. ASSUME NEW ok \in BOOLEAN, Bar(w, ok)
       PROVE  CountInv'
  <2>1. Steady /\ was'.acked = was.acked
    BY <1>1, <1>12 DEF Bar, Steady, History
  <2>. QED  BY <1>4, <1>12, <2>1 DEF Bar
<1>13. ASSUME NEW ok \in BOOLEAN, Drop(w, ok)
       PROVE  CountInv'
  <2>1. Steady /\ was'.acked = was.acked
    <3>1. /\ was'.acked = was.acked /\ was'.listed = was.listed /\ was'.used = was.used
          /\ was'.forgotten = was.forgotten /\ was'.overwritten = was.overwritten
          /\ was.ended \subseteq was'.ended /\ black' = black
      BY <1>1, <1>13 DEF Drop, History
    <3>2. /\ ok => entry' = entry \ {job[w].sid} /\ was'.unlisted = was.unlisted \ {job[w].sid}
                   /\ (Held(job[w].sid) => job[w].sid \in was'.raced)
          /\ ~ok => entry' = entry /\ was'.unlisted = was.unlisted
          /\ was.raced \subseteq was'.raced /\ was.failed \subseteq was'.failed
      <4>1. CASE ok
        BY <1>1, <1>13, <4>1 DEF Drop, If, History
      <4>2. CASE ~ok
        BY <1>1, <1>13, <4>2 DEF Drop, If, History
      <4>. QED  BY <4>1, <4>2
    <3>. QED  BY <3>1, <3>2 DEF Steady
  <2>2. ASSUME NEW t \in job[w].todo, job' = [job EXCEPT ![w] = NextOf(w, t)]
        PROVE  CountInv'
    <3>1. Others(w) /\ job'[w].at = "find"
      BY <1>1, <2>2 DEF NextOf, Others, Job
    <3>. QED  BY <1>2, <2>1, <3>1
  <2>. QED  BY <1>3, <1>13, <2>1, <2>2 DEF Drop
<1>14. ASSUME NEW ok \in BOOLEAN, Sweep(w, ok)
       PROVE  CountInv'
  <2>1. Steady /\ was'.acked = was.acked
    BY <1>1, <1>14 DEF Sweep, Steady, History
  <2>2. ASSUME NEW t, NEW todo, job' = [job EXCEPT ![w].at = "find", ![w].sid = t,
                                                  ![w].todo = todo]
        PROVE  CountInv'
    <3>1. Others(w) /\ job'[w].at = "find"
      BY <1>1, <2>2 DEF Others, Job
    <3>. QED  BY <1>2, <2>1, <3>1
  <2>. QED  BY <1>3, <1>14, <2>1, <2>2 DEF Sweep
<1>15. ASSUME NEW ok \in BOOLEAN, Guard(w, ok)
       PROVE  CountInv'
  <2>1. Steady /\ was'.acked = was.acked
    BY <1>1, <1>15 DEF Guard, Steady, History
  <2>2. ASSUME NEW late, job' = [job EXCEPT ![w].at = "load", ![w].late = late]
        PROVE  CountInv'
    <3>1. Others(w) /\ job'[w].at = "load"
      BY <1>1, <2>2 DEF Others, Job
    <3>. QED  BY <1>2, <2>1, <3>1
  <2>. QED  BY <1>3, <1>15, <2>1, <2>2 DEF Guard
<1>16. ASSUME NEW ok \in BOOLEAN, Load(w, ok)
       PROVE  CountInv'
  BY <1>3, <1>4, <1>16 DEF Load, Steady
<1>17. ASSUME NEW ok \in BOOLEAN, Touch(w, ok)
       PROVE  CountInv'
  <2>1. Steady /\ was'.acked = was.acked
    BY <1>1, <1>17 DEF Touch, Steady, History
  <2>. QED  BY <1>3, <1>4, <1>17, <2>1 DEF Touch
<1>18. ASSUME NEW ok \in BOOLEAN, Renew(w, ok)
       PROVE  CountInv'
  <2>1. LateOK(w) /\ job[w].at = "renew"
    BY <1>18 DEF Inv, Good, Renew
  <2>2. Steady /\ was'.acked = was.acked
    BY <1>1, <1>18, <2>1 DEF Renew, Steady, History, LateOK
  <2>. QED  BY <1>3, <1>18, <2>2 DEF Renew
<1>. QED  BY <1>6, <1>7, <1>8, <1>9, <1>10, <1>11, <1>12, <1>13, <1>14, <1>15, <1>16, <1>17,
             <1>18

LEMMA CountStep == Inv /\ Inv' /\ CountInv /\ [Next]_vars => CountInv'
<1> SUFFICES ASSUME Inv, Inv', CountInv, [Next]_vars
             PROVE  CountInv'
  OBVIOUS
<1>1. TypeOK' /\ was \in History
  BY DEF Inv, TypeOK
<1>2. ASSUME NEW w \in Workers, Arrive(w)
      PROVE  CountInv'
  BY <1>1, <1>2, ArriveCounts
<1>3. ASSUME NEW w \in Workers, Serve(w)
      PROVE  CountInv'
  BY <1>1, <1>3, ServeCounts, ReadCounts, LookCounts, PruneCounts, LimitCounts DEF Serve
<1>4. ASSUME UNCHANGED job, Steady, was'.acked = was.acked
      PROVE  CountInv'
  BY <1>1, <1>4, SameFades, Fading DEF CountInv
<1>5. ASSUME NEW s \in Ids, EntryExpires(s) \/ BlackExpires(s)
      PROVE  CountInv'
  <2>1. CASE EntryExpires(s)
    <3>1. /\ entry' = entry \ {s} /\ UNCHANGED <<index, black, job>>
          /\ was' = [was EXCEPT !.raced = was.raced \cup If(Held(s), {s})]
      BY <2>1 DEF EntryExpires
    <3>2. Held(s) => s \in was'.raced
      BY <1>1, <3>1 DEF If, History
    <3>3. Steady /\ was'.acked = was.acked
      BY <1>1, <3>1, <3>2 DEF Steady, History
    <3>. QED  BY <1>4, <3>1, <3>3
  <2>2. CASE BlackExpires(s)
    <3>1. Steady /\ was'.acked = was.acked
      BY <1>1, <2>2 DEF BlackExpires, Steady, History
    <3>. QED  BY <1>4, <2>2, <3>1 DEF BlackExpires
  <2>. QED  BY <1>5, <2>1, <2>2
<1>6. CASE IndexExpires
  <2>1. Steady /\ was'.acked = was.acked
    BY <1>1, <1>6 DEF IndexExpires, Steady, History
  <2>. QED  BY <1>4, <1>6, <2>1 DEF IndexExpires
<1>7. CASE Crash
  <2>1. Steady /\ was'.acked = was.acked
    BY <1>7 DEF Crash, Steady
  <2>2. \A w \in Workers : Fades(w)
    BY <1>7 DEF Crash, Fades, Counting, HasRead, Idle
  <2>. QED  BY <1>1, <2>1, <2>2, Fading DEF CountInv
<1>8. CASE UNCHANGED vars
  BY <1>4, <1>8 DEF vars, Steady
<1>. QED  BY <1>2, <1>3, <1>5, <1>6, <1>7, <1>8 DEF Next

\* However many logins overlap, the sessions that are alive and known to the client are
\* no more than the limit, but for the cases that the history names.
THEOREM SessionsAreFew == Spec => []SessionsBounded
<1>1. Init => CountInv
  <2>. SUFFICES ASSUME Init PROVE CountInv
    OBVIOUS
  <2>1. Clients = {} /\ \A w \in Workers : ~Counting(w)
    BY DEF Init, Clients, Alive, Counting, HasRead, Idle
  <2>2. Cardinality(Clients) = 0
    BY <2>1, FS_EmptySet
  <2>. QED  BY <2>1, <2>2, LimitsAssumption DEF CountInv, CountOver
<1>2. CountInv => SessionsBounded
  <2>1. Clients = (entry \cap was.acked) \ Excused
    BY DEF Clients, Alive
  <2>. QED  BY <2>1 DEF CountInv, CountOver, SessionsBounded
<1>. QED  BY <1>1, <1>2, CountStep, Always, PTL DEF Spec

-----------------------------------------------------------------------------
(* What Register promises.                                                   *)

\* The step is none that Register can see, but for failures and a blacklist that
\* forgets.
Unseeing ==
    /\ UNCHANGED <<entry, index>>
    /\ was'.listed = was.listed /\ was'.ended = was.ended /\ was'.revived = was.revived
    /\ was'.unlisted = was.unlisted /\ was'.raced = was.raced
    /\ was'.overwritten = was.overwritten
    /\ was.forgotten \subseteq was'.forgotten /\ was.failed \subseteq was'.failed

LEMMA UnseenStep ==
    ASSUME Unseeing
    PROVE  Abstract!Next
<1>1. UNCHANGED Abstract!records
  BY DEF Unseeing, Abstract!records
<1>2. Abstract!Exceptions
  BY DEF Unseeing, Abstract!Exceptions
<1>. QED  BY <1>1, <1>2 DEF Abstract!Next, Abstract!Step

LEMMA ArriveUnseen ==
    ASSUME Inv, NEW w \in Workers, Arrive(w)
    PROVE  Unseeing
<1>1. was \in History
  BY DEF Inv, TypeOK
<1>2. CASE \E s \in Ids : Login(w, s)
  <2>. PICK s \in Ids : Login(w, s)
    BY <1>2
  <2>. QED  BY <1>1 DEF Login, Receive, Unseeing, History
<1>3. CASE UNCHANGED <<entry, index, was>>
  BY <1>3 DEF Unseeing
<1>. QED  BY <1>2, <1>3 DEF Arrive, AskList, LogoutAll, Logout, Terminate, Request, Receive

\* The list is written by four steps.
LEMMA RelistStep ==
    ASSUME Inv, Inv', UNCHANGED entry,
           was'.listed = was.listed \cup index', was'.ended = was.ended,
           was'.revived = was.revived, Abstract!Exceptions
    PROVE  Abstract!Next
<1>1. index' \subseteq Ids /\ index \subseteq was.listed
  BY DEF Inv, TypeOK, Overall, Known
<1>2. (index \ index') \cap entry \subseteq Abstract!Excused'
  <2>1. entry' \cap was'.listed \subseteq index' \cup Excused'
    BY DEF Inv, Overall, IndexComplete
  <2>. QED  BY <1>1, <2>1 DEF Excused, Abstract!Excused
<1>3. Abstract!Relist
  BY <1>1, <1>2 DEF Abstract!Relist
<1>. QED  BY <1>3 DEF Abstract!Next, Abstract!Step

LEMMA PruneRelists ==
    ASSUME Inv, Inv', NEW w \in Workers, NEW ok \in BOOLEAN, Prune(w, ok)
    PROVE  Abstract!Next
<1>1. was \in History /\ ListsOK(w) /\ Known
  BY DEF Inv, TypeOK, Good, Overall
<1>2. CASE ok
  <2>1. /\ UNCHANGED entry /\ index' = job[w].kept
        /\ was' = [was EXCEPT !.overwritten = was.overwritten \cup Unseen(w, job[w].kept)]
    BY <1>2 DEF Prune, If
  <2>2. /\ was'.overwritten = was.overwritten \cup Unseen(w, job[w].kept)
        /\ was'.listed = was.listed /\ was'.ended = was.ended /\ was'.revived = was.revived
        /\ was'.unlisted = was.unlisted /\ was'.raced = was.raced
        /\ was'.forgotten = was.forgotten /\ was'.failed = was.failed
    BY <1>1, <2>1 DEF History
  <2>3. was.listed \cup index' = was.listed
    BY <1>1, <2>1 DEF ListsOK
  <2>4. Abstract!Exceptions
    BY <2>1, <2>2 DEF Abstract!Exceptions, Unseen
  <2>. QED  BY <2>1, <2>2, <2>3, <2>4, RelistStep
<1>3. CASE ~ok
  <2>1. Unseeing
    BY <1>1, <1>3 DEF Prune, If, Unseeing, History
  <2>. QED  BY <2>1, UnseenStep
<1>. QED  BY <1>2, <1>3

LEMMA AddRelists ==
    ASSUME Inv, Inv', NEW w \in Workers, NEW ok \in BOOLEAN, Add(w, ok)
    PROVE  Abstract!Next
<1>. DEFINE set == job[w].kept \cup {job[w].sid}
<1>1. was \in History /\ ListsOK(w) /\ Known
  BY DEF Inv, TypeOK, Good, Overall
<1>2. CASE ok
  <2>1. /\ UNCHANGED entry /\ index' = set
        /\ was'.overwritten = was.overwritten \cup Unseen(w, set)
        /\ was'.listed = was.listed \cup {job[w].sid}
        /\ was'.ended = was.ended /\ was'.revived = was.revived
        /\ was'.unlisted = was.unlisted /\ was'.raced = was.raced
        /\ was'.forgotten = was.forgotten /\ was.failed \subseteq was'.failed
    BY <1>1, <1>2 DEF Add, If, History
  <2>2. was'.listed = was.listed \cup index'
    BY <1>1, <2>1 DEF ListsOK
  <2>3. Abstract!Exceptions
    BY <2>1 DEF Abstract!Exceptions, Unseen
  <2>. QED  BY <2>1, <2>2, <2>3, RelistStep
<1>3. CASE ~ok
  <2>1. Unseeing
    BY <1>1, <1>3 DEF Add, If, Unseeing, History
  <2>. QED  BY <2>1, UnseenStep
<1>. QED  BY <1>2, <1>3

LEMMA RemoveRelists ==
    ASSUME Inv, Inv', NEW w \in Workers, NEW ok \in BOOLEAN, Remove(w, ok)
    PROVE  Abstract!Next
<1>. DEFINE set == job[w].kept \ {job[w].sid}
<1>1. was \in History /\ ListsOK(w) /\ Known /\ PlaceOK(w)
  BY DEF Inv, TypeOK, Good, Overall
<1>2. CASE ok
  <2>1. /\ UNCHANGED entry /\ index' = set
        /\ was'.overwritten = was.overwritten \cup (Unseen(w, set) \ {job[w].sid})
        /\ was'.unlisted = was.unlisted \cup {job[w].sid}
        /\ was'.listed = was.listed /\ was'.ended = was.ended /\ was'.revived = was.revived
        /\ was'.raced = was.raced
        /\ was'.forgotten = was.forgotten /\ was'.failed = was.failed
    BY <1>1, <1>2 DEF Remove, If, History
  <2>2. was.listed \cup index' = was.listed
    BY <1>1, <2>1 DEF ListsOK
  <2>3. job[w].sid \in was.listed
    BY <1>1 DEF Remove, PlaceOK, Destroying, At
  <2>4. Abstract!Exceptions
    BY <2>1, <2>3 DEF Abstract!Exceptions, Unseen
  <2>. QED  BY <2>1, <2>2, <2>4, RelistStep
<1>3. CASE ~ok
  <2>1. Unseeing
    BY <1>1, <1>3 DEF Remove, If, Unseeing, History
  <2>. QED  BY <2>1, UnseenStep
<1>. QED  BY <1>2, <1>3

LEMMA StoreOpens ==
    ASSUME Inv, NEW w \in Workers, NEW ok \in BOOLEAN, Store(w, ok)
    PROVE  Abstract!Next
<1>. DEFINE s == job[w].sid
<1>1. was \in History /\ PlaceOK(w) /\ Entering(w)
  BY DEF Inv, TypeOK, Good, Store, Entering, At
<1>2. s \in Ids /\ s \notin was.listed
  BY <1>1, HasId DEF PlaceOK
<1>3. /\ index' = index /\ (entry' = entry \cup {s} \/ entry' = entry)
      /\ was'.listed = was.listed /\ was'.ended = was.ended /\ was'.revived = was.revived
      /\ was'.unlisted = was.unlisted /\ was'.raced = was.raced
      /\ was'.overwritten = was.overwritten /\ was'.forgotten = was.forgotten
      /\ was.failed \subseteq was'.failed /\ was.unlisted \subseteq was'.unlisted
  BY <1>1 DEF Store, History
<1>4. Abstract!Exceptions
  BY <1>3 DEF Abstract!Exceptions
<1>5. Abstract!Open(s) \/ UNCHANGED Abstract!records
  BY <1>2, <1>3 DEF Abstract!Open, Abstract!records
<1>. QED  BY <1>2, <1>4, <1>5 DEF Abstract!Next, Abstract!Step

LEMMA DropEnds ==
    ASSUME Inv, NEW w \in Workers, NEW ok \in BOOLEAN, Drop(w, ok)
    PROVE  Abstract!Next
<1>. DEFINE s == job[w].sid
<1>1. was \in History /\ PlaceOK(w) /\ Destroying(w)
  BY DEF Inv, TypeOK, Good, Drop, Destroying, At
<1>2. s \in Ids /\ s \in was.listed
  BY <1>1, HasId DEF PlaceOK
<1>3. /\ index' = index /\ was'.listed = was.listed /\ was'.revived = was.revived
      /\ was'.ended = was.ended \cup {s}
      /\ was'.overwritten = was.overwritten /\ was'.forgotten = was.forgotten
  BY <1>1 DEF Drop, History
<1>4. Held(s) /\ s \notin entry => s \in was.raced
  BY DEF Held, Inv, Good, LateOK
<1>5. CASE ok
  <2>1. /\ entry' = entry \ {s} /\ was'.unlisted = was.unlisted \ {s}
        /\ was'.raced = was.raced \cup If(Held(s), {s})
        /\ was.failed \subseteq was'.failed
    BY <1>1, <1>5 DEF Drop, If, History
  <2>2. was'.raced \ was.raced \subseteq entry \ entry'
    BY <1>4, <2>1 DEF If
  <2>3. Abstract!Exceptions
    BY <1>3, <2>1, <2>2 DEF Abstract!Exceptions
  <2>4. Abstract!End(s)
    BY <1>2, <1>3, <2>1 DEF Abstract!End
  <2>. QED  BY <1>2, <2>3, <2>4 DEF Abstract!Next, Abstract!Step
<1>6. CASE ~ok
  <2>1. /\ entry' = entry /\ was'.unlisted = was.unlisted /\ was'.raced = was.raced
        /\ s \in was'.failed /\ was.failed \subseteq was'.failed
    BY <1>1, <1>6 DEF Drop, If, History
  <2>2. Abstract!Exceptions
    BY <1>3, <2>1 DEF Abstract!Exceptions
  <2>3. Abstract!End(s)
    BY <1>2, <1>3, <2>1 DEF Abstract!End
  <2>. QED  BY <1>2, <2>2, <2>3 DEF Abstract!Next, Abstract!Step
<1>. QED  BY <1>5, <1>6

\* A request is let in, and may write its copy back.
LEMMA VisitStep ==
    ASSUME Inv, NEW w \in Workers, NEW ok \in BOOLEAN, Touch(w, ok) \/ Renew(w, ok)
    PROVE  Abstract!Next
<1>. DEFINE s == job[w].sid
<1>1. was \in History /\ LateOK(w) /\ Serving(w)
  BY DEF Inv, TypeOK, Good, Touch, Renew, Serving
<1>2. s \in Ids
  BY <1>1, HasId
<1>3. /\ index' = index /\ was'.listed = was.listed /\ was'.ended = was.ended
      /\ was'.unlisted = was.unlisted /\ was'.raced = was.raced
      /\ was'.overwritten = was.overwritten /\ was'.forgotten = was.forgotten
      /\ was'.failed = was.failed
      /\ was'.revived = was.revived \/ was'.revived = was.revived \cup LetIn(w)
  BY <1>1 DEF Touch, Renew, History
<1>4. entry' = entry \/ (s \in was.raced /\ entry' = entry \cup {s})
  <2>1. CASE Touch(w, ok)
    BY <2>1 DEF Touch
  <2>2. CASE Renew(w, ok)
    BY <1>1, <2>2 DEF Renew, LateOK
  <2>. QED  BY <2>1, <2>2
<1>5. LetIn(w) = {} \/ (LetIn(w) = {s}
                         /\ s \in was.ended \cap ((was.raced \cap was.forgotten) \cup was.failed))
  BY <1>1 DEF LetIn, If, LateOK, Touch, Renew
<1>6. Abstract!Visit(s)
  BY <1>3, <1>4, <1>5 DEF Abstract!Visit
<1>7. Abstract!Exceptions
  BY <1>3, <1>4 DEF Abstract!Exceptions
<1>. QED  BY <1>2, <1>6, <1>7 DEF Abstract!Next, Abstract!Step

LEMMA ServeStep ==
    ASSUME Inv, Inv', NEW w \in Workers, Serve(w)
    PROVE  Abstract!Next
<1>1. was \in History
  BY DEF Inv, TypeOK
<1>2. ASSUME NEW ok \in BOOLEAN,
             \/ ReadIndex(w, ok) \/ Owned(w, ok) \/ Find(w, ok) \/ Bar(w, ok)
             \/ Sweep(w, ok) \/ Guard(w, ok) \/ Load(w, ok)
             \/ \E s \in Ids : Look(w, s, ok)
      PROVE  Unseeing
  <2>1. CASE ReadIndex(w, ok)
    BY <1>1, <2>1 DEF ReadIndex, Unseeing, History
  <2>2. CASE Owned(w, ok) \/ Load(w, ok)
    BY <2>2 DEF Owned, Load, Unseeing
  <2>3. CASE Find(w, ok)
    BY <1>1, <2>3 DEF Find, Unseeing, History
  <2>4. CASE Bar(w, ok)
    BY <1>1, <2>4 DEF Bar, Unseeing, History
  <2>5. CASE Sweep(w, ok)
    BY <1>1, <2>5 DEF Sweep, Unseeing, History
  <2>6. CASE Guard(w, ok)
    BY <1>1, <2>6 DEF Guard, Unseeing, History
  <2>7. CASE \E s \in Ids : Look(w, s, ok)
    BY <1>1, <2>7 DEF Look, Unseeing, History
  <2>. QED  BY <1>2, <2>1, <2>2, <2>3, <2>4, <2>5, <2>6, <2>7
<1>3. CASE Limit(w) \/ List(w) \/ LogOut(w)
  BY <1>1, <1>3, UnseenStep DEF Limit, List, LogOut, Unseeing, History
<1>. QED  BY <1>2, <1>3, UnseenStep, PruneRelists, AddRelists, RemoveRelists, StoreOpens,
             DropEnds, VisitStep DEF Serve

LEMMA LossStep ==
    ASSUME Inv, Inv',
           \/ \E s \in Ids : EntryExpires(s) \/ BlackExpires(s)
           \/ IndexExpires
           \/ Crash
    PROVE  Abstract!Next
<1>1. was \in History /\ Known
  BY DEF Inv, TypeOK, Overall
<1>2. ASSUME NEW s \in Ids, EntryExpires(s)
      PROVE  Abstract!Next
  <2>1. /\ s \in entry /\ entry' = entry \ {s} /\ index' = index
        /\ was'.raced = was.raced \cup If(Held(s), {s})
        /\ was'.listed = was.listed /\ was'.ended = was.ended /\ was'.revived = was.revived
        /\ was'.unlisted = was.unlisted /\ was'.overwritten = was.overwritten
        /\ was'.forgotten = was.forgotten /\ was'.failed = was.failed
    BY <1>1, <1>2 DEF EntryExpires, History
  <2>2. Abstract!Exceptions
    BY <2>1 DEF Abstract!Exceptions, If
  <2>3. Abstract!Expire(s)
    BY <2>1 DEF Abstract!Expire
  <2>. QED  BY <2>2, <2>3 DEF Abstract!Next, Abstract!Step
<1>3. ASSUME NEW s \in Ids, BlackExpires(s)
      PROVE  Unseeing
  BY <1>1, <1>3 DEF BlackExpires, Unseeing, History
<1>4. CASE IndexExpires
  <2>1. /\ UNCHANGED entry /\ index' = {} /\ was'.overwritten = was.overwritten \cup index
        /\ was'.listed = was.listed /\ was'.ended = was.ended /\ was'.revived = was.revived
        /\ was'.unlisted = was.unlisted /\ was'.raced = was.raced
        /\ was'.forgotten = was.forgotten /\ was'.failed = was.failed
    BY <1>1, <1>4 DEF IndexExpires, History
  <2>2. was'.listed = was.listed \cup index'
    BY <2>1
  <2>3. Abstract!Exceptions
    BY <2>1 DEF Abstract!Exceptions
  <2>. QED  BY <2>1, <2>2, <2>3, RelistStep
<1>5. CASE Crash
  BY <1>5, UnseenStep DEF Crash, Unseeing
<1>. QED  BY <1>2, <1>3, <1>4, <1>5, UnseenStep

\* The requests of a user, however they overlap and whatever the cache loses, do to the
\* sessions only what Register allows.
THEOREM SessionsAsPromised == Spec => RegisterSpec
<1>1. Init => Abstract!Init
  BY DEF Init, Abstract!Init
<1>2. ASSUME Inv, Inv', [Next]_vars
      PROVE  Abstract!Next
  <2>1. CASE UNCHANGED vars
    BY <2>1, UnseenStep DEF vars, Unseeing
  <2>. QED  BY <1>2, <2>1, ArriveUnseen, UnseenStep, ServeStep, LossStep DEF Next
<1>3. Inv /\ Inv' /\ [Next]_vars => [Abstract!Next]_(Abstract!rvars)
  BY <1>2
<1>. QED  BY <1>1, <1>3, Always, PTL DEF Spec, RegisterSpec, Abstract!Spec

-----------------------------------------------------------------------------
(* What follows from the promises of Register.                               *)

Promised ==
    /\ was.ended \subseteq was.listed
    /\ Abstract!Complete
    /\ Abstract!Final

LEMMA PromisesKept == RegisterSpec => [](Abstract!Complete /\ Abstract!Final)
<1>1. Abstract!Init => Promised
  BY DEF Abstract!Init, Promised, Abstract!Complete, Abstract!Final
<1>2. ASSUME Promised, [Abstract!Next]_(Abstract!rvars)
      PROVE  Promised'
  <2>1. CASE UNCHANGED Abstract!rvars
    BY <1>2, <2>1 DEF Abstract!rvars, Abstract!records, Promised, Abstract!Complete,
       Abstract!Final, Abstract!Excused
  <2>2. ASSUME Abstract!Exceptions, NEW s \in Ids,
               Abstract!Open(s) \/ Abstract!End(s) \/ Abstract!Expire(s) \/ Abstract!Visit(s)
        PROVE  Promised'
    BY <1>2, <2>2 DEF Abstract!Exceptions, Abstract!Open, Abstract!End, Abstract!Expire,
       Abstract!Visit, Promised, Abstract!Complete, Abstract!Final, Abstract!Excused
  <2>3. ASSUME Abstract!Exceptions, Abstract!Relist \/ UNCHANGED Abstract!records
        PROVE  Promised'
    BY <1>2, <2>3 DEF Abstract!Exceptions, Abstract!Relist, Abstract!records, Promised,
       Abstract!Complete, Abstract!Final, Abstract!Excused
  <2>. QED  BY <1>2, <2>1, <2>2, <2>3 DEF Abstract!Next, Abstract!Step
<1>3. Promised /\ [Abstract!Next]_(Abstract!rvars) => Promised'
  BY <1>2
<1>4. Promised => Abstract!Complete /\ Abstract!Final
  BY DEF Promised
<1>. QED  BY <1>1, <1>3, <1>4, PTL DEF RegisterSpec, Abstract!Spec

\* A session that was destroyed is gone, unless a request that held a copy wrote it back
\* or the cache failed; and the list of sessions misses none but the excused ones.
THEOREM RevokedIsGone == Spec => [](Abstract!Complete /\ Abstract!Final)
  BY SessionsAsPromised, PromisesKept, PTL

-----------------------------------------------------------------------------
(* No request goes on for ever.                                              *)

\* The steps a request may still have before it, but for the sessions in its lists.
Place ==
    [idle |-> 0, list |-> 1, limit |-> 1, logout |-> 1,
     renew |-> 1, touch |-> 2, load |-> 3, guard |-> 4,
     drop |-> 1, bar |-> 2, remove |-> 3, find |-> 7, owned |-> 8,
     add |-> 5, store |-> 9, prune |-> 1, look |-> 2, index |-> 3, sweep |-> 8]
Rank(w) == Place[job[w].at] + IF job[w].at \in Asking THEN Place[job[w].for] ELSE 0

\* The request is done, or has one session less to destroy, or is at a later place, or
\* has one session less to look up; it reads the sessions it is to destroy once.
Nearer(w) ==
    /\ job'[w].at # "sweep"
    /\ \/ job'[w].at = "idle"
       \/ job[w].at = "sweep"
       \/ job'[w].todo \subseteq job[w].todo /\ job'[w].todo # job[w].todo
       \/ /\ job'[w].todo = job[w].todo
          /\ \/ Rank(w)' < Rank(w)
             \/ /\ Rank(w)' = Rank(w)
                /\ job'[w].left \subseteq job[w].left /\ job'[w].left # job[w].left

\* Where a request goes on that has read or looked up something of the index.
LEMMA AskedRanks ==
    ASSUME NEW c \in Callers
    PROVE  /\ c \notin Asking /\ Place[c] \in Nat
           /\ Place["prune"] = 1 /\ Place["look"] = 2 /\ Place["index"] = 3
  BY DEF Callers, Asking, Place

LEMMA AskingNears ==
    ASSUME Inv, NEW w \in Workers, NEW ok \in BOOLEAN,
           ReadIndex(w, ok) \/ Prune(w, ok)
    PROVE  Nearer(w)
<1>1. job \in [Workers -> Job] /\ job[w].for \in Callers
  BY DEF Inv, TypeOK, Job
<1>2. /\ job[w].for \notin Asking /\ Place[job[w].for] \in Nat /\ job[w].for # "sweep"
      /\ Place["prune"] = 1 /\ Place["look"] = 2 /\ Place["index"] = 3
      /\ "prune" \in Asking /\ "look" \in Asking /\ "index" \in Asking
  BY <1>1, AskedRanks DEF Callers, Asking
<1>3. CASE ReadIndex(w, ok)
  <2>1. /\ job[w].at = "index" /\ job'[w].at \in {job[w].for, "look"}
        /\ job'[w].for = job[w].for /\ job'[w].todo = job[w].todo
    BY <1>1, <1>3 DEF ReadIndex, Job
  <2>. QED  BY <1>2, <2>1 DEF Nearer, Rank
<1>4. CASE Prune(w, ok)
  <2>1. /\ job[w].at = "prune" /\ job'[w].at = job[w].for
        /\ job'[w].for = job[w].for /\ job'[w].todo = job[w].todo
    BY <1>1, <1>4 DEF Prune, Go, Job
  <2>. QED  BY <1>2, <2>1 DEF Nearer, Rank
<1>. QED  BY <1>3, <1>4

LEMMA LookNears ==
    ASSUME Inv, NEW w \in Workers, NEW ok \in BOOLEAN, NEW s \in Ids, Look(w, s, ok)
    PROVE  Nearer(w)
<1>. DEFINE left == job[w].left \ {s}
            kept == job[w].kept \cup If(ok /\ s \in entry, {s})
<1>1. job \in [Workers -> Job]
  BY DEF Inv, TypeOK
<1>2. /\ job[w].at = "look" /\ job'[w].at = AfterLook(w, left, kept)
      /\ job'[w].for = job[w].for /\ job'[w].todo = job[w].todo
      /\ s \in job[w].left /\ job'[w].left = left
  BY <1>1 DEF Look, Job
<1>3. job'[w].at \in {"look", "prune", job[w].for} /\ job[w].for \in Callers
  BY <1>1, <1>2, AfterLookIs DEF Job
<1>4. /\ job[w].for \notin Asking /\ Place[job[w].for] \in Nat /\ job[w].for # "sweep"
      /\ Place["prune"] = 1 /\ Place["look"] = 2
      /\ "prune" \in Asking /\ "look" \in Asking
  BY <1>3, AskedRanks DEF Callers, Asking
<1>. QED  BY <1>2, <1>3, <1>4 DEF Nearer, Rank

\* The steps from one place to the next.
LEMMA PlaceNears ==
    ASSUME Inv, NEW w \in Workers, NEW ok \in BOOLEAN,
           \/ Store(w, ok) \/ Add(w, ok) \/ Owned(w, ok) \/ Find(w, ok) \/ Remove(w, ok)
           \/ Bar(w, ok) \/ Guard(w, ok) \/ Load(w, ok) \/ Touch(w, ok)
    PROVE  Nearer(w)
<1>1. job \in [Workers -> Job] /\ job[w] \in Job
  BY DEF Inv, TypeOK
<1>2. \/ job'[w].at = "idle"
      \/ /\ job'[w].todo = job[w].todo
         /\ \/ /\ job[w].at = "store" /\ job'[w].at = "index" /\ job'[w].for = "add"
            \/ /\ job[w].at = "add" /\ job'[w].at = "index" /\ job'[w].for = "limit"
            \/ /\ job[w].at = "owned" /\ job'[w].at = "find"
            \/ /\ job[w].at = "find" /\ job'[w].at = "index" /\ job'[w].for = "remove"
            \/ /\ job[w].at = "find" /\ job'[w].at = "bar"
            \/ /\ job[w].at = "remove" /\ job'[w].at = "bar"
            \/ /\ job[w].at = "bar" /\ job'[w].at = "drop"
            \/ /\ job[w].at = "guard" /\ job'[w].at = "load"
            \/ /\ job[w].at = "load" /\ job'[w].at = "touch"
            \/ /\ job[w].at = "touch" /\ job'[w].at = "renew"
  <2>1. CASE Store(w, ok)
    BY <1>1, <2>1 DEF Store, GetSessions, Job
  <2>2. CASE Add(w, ok)
    BY <1>1, <2>2 DEF Add, Cleared, Job
  <2>3. CASE Owned(w, ok)
    BY <1>1, <2>3 DEF Owned, Go, Leave, Idle, Job
  <2>4. CASE Find(w, ok)
    BY <1>1, <2>4 DEF Find, GetSessions, Go, Job
  <2>5. CASE Remove(w, ok)
    BY <1>1, <2>5 DEF Remove, Cleared, Job
  <2>6. CASE Bar(w, ok)
    BY <1>1, <2>6 DEF Bar, Go, Job
  <2>7. CASE Guard(w, ok)
    BY <1>1, <2>7 DEF Guard, Leave, Idle, Job
  <2>8. CASE Load(w, ok)
    BY <1>1, <2>8 DEF Load, Go, Leave, Idle, Job
  <2>9. CASE Touch(w, ok)
    BY <1>1, <2>9 DEF Touch, Go, Leave, Idle, Job
  <2>. QED  BY <2>1, <2>2, <2>3, <2>4, <2>5, <2>6, <2>7, <2>8, <2>9
<1>. QED  BY <1>2 DEF Nearer, Rank, Place, Asking

LEMMA ServeNears ==
    ASSUME Inv, NEW w \in Workers, Serve(w)
    PROVE  Nearer(w)
<1>1. job \in [Workers -> Job] /\ job[w] \in Job
  BY DEF Inv, TypeOK
<1>2. CASE \E ok \in BOOLEAN : Drop(w, ok)
  <2>1. CASE Leave(w)
    BY <1>1, <2>1 DEF Leave, Idle, Nearer
  <2>2. CASE \E t \in job[w].todo : job' = [job EXCEPT ![w] = NextOf(w, t)]
    <3>. PICK t \in job[w].todo : job' = [job EXCEPT ![w] = NextOf(w, t)]
      BY <2>2
    <3>1. job'[w].at = "find" /\ job'[w].todo = job[w].todo \ {t}
      BY <1>1 DEF NextOf, Job
    <3>. QED  BY <3>1 DEF Nearer
  <2>. QED  BY <1>2, <2>1, <2>2 DEF Drop
<1>3. CASE \E ok \in BOOLEAN : Sweep(w, ok)
  <2>1. job[w].at = "sweep"
    BY <1>3 DEF Sweep
  <2>2. CASE Leave(w)
    BY <1>1, <2>2 DEF Leave, Idle, Nearer
  <2>3. ASSUME NEW todo, NEW t \in todo,
               job' = [job EXCEPT ![w].at = "find", ![w].sid = t, ![w].todo = todo \ {t}]
        PROVE  Nearer(w)
    <3>1. job'[w].at = "find"
      BY <1>1, <2>3 DEF Job
    <3>. QED  BY <2>1, <3>1 DEF Nearer
  <2>. QED  BY <1>3, <2>2, <2>3 DEF Sweep
<1>4. CASE Limit(w) \/ List(w) \/ LogOut(w) \/ \E ok \in BOOLEAN : Renew(w, ok)
  <2>1. job'[w].at = "idle"
    BY <1>1, <1>4 DEF Limit, List, LogOut, Renew, Leave, Idle
  <2>. QED  BY <2>1 DEF Nearer
<1>. QED  BY <1>2, <1>3, <1>4, AskingNears, LookNears, PlaceNears DEF Serve

\* Nobody else moves a request, unless the process dies.
LEMMA OwnSteps ==
    ASSUME Inv, [Next]_vars, NEW w \in Workers, job[w].at # "idle", ~Serve(w)
    PROVE  job'[w] = job[w] \/ job'[w].at = "idle"
<1>1. job \in [Workers -> Job]
  BY DEF Inv, TypeOK
<1>2. ASSUME NEW u \in Workers, Arrive(u)
      PROVE  job'[w] = job[w]
  BY <1>1, <1>2 DEF Arrive, AskList, LogoutAll, Login, Logout, Terminate, Request, Receive
<1>3. ASSUME NEW u \in Workers \ {w}, Serve(u)
      PROVE  job'[w] = job[w]
  <2>1. ASSUME NEW ok \in BOOLEAN,
               \/ ReadIndex(u, ok) \/ Prune(u, ok) \/ Store(u, ok) \/ Add(u, ok)
               \/ Owned(u, ok) \/ Find(u, ok) \/ Remove(u, ok) \/ Bar(u, ok)
        PROVE  job'[w] = job[w]
    BY <1>1, <2>1 DEF ReadIndex, Prune, Store, Add, Owned, Find, Remove, Bar, Go, Leave,
       GetSessions
  <2>2. ASSUME NEW ok \in BOOLEAN,
               \/ Drop(u, ok) \/ Sweep(u, ok) \/ Guard(u, ok) \/ Load(u, ok)
               \/ Touch(u, ok) \/ Renew(u, ok)
               \/ \E s \in Ids : Look(u, s, ok)
        PROVE  job'[w] = job[w]
    BY <1>1, <2>2 DEF Drop, Sweep, Guard, Load, Touch, Renew, Look, Go, Leave
  <2>. QED  BY <1>1, <1>3, <2>1, <2>2 DEF Serve, Limit, List, LogOut, Leave
<1>4. CASE Crash
  BY <1>4 DEF Crash, Idle
<1>5. CASE \/ \E s \in Ids : EntryExpires(s) \/ BlackExpires(s)
           \/ IndexExpires \/ UNCHANGED vars
  BY <1>5 DEF EntryExpires, BlackExpires, IndexExpires, vars
<1>. QED  BY <1>2, <1>3, <1>4, <1>5 DEF Next

\* Whatever a request does, and whatever happens to it, brings it nearer to its end:
\* logins that overlap do not keep each other going, and a walk through the sessions
\* is over when those are that it began with.  The sets are finite and the places few,
\* so no request takes infinitely many steps.
THEOREM RequestsEnd ==
    Spec => [][\A w \in Workers :
                 job[w].at # "idle" /\ (Serve(w) \/ job'[w] # job[w]) => Nearer(w)]_vars
<1>1. ASSUME Inv, [Next]_vars
      PROVE  \A w \in Workers :
                 job[w].at # "idle" /\ (Serve(w) \/ job'[w] # job[w]) => Nearer(w)
  <2>1. ASSUME NEW w \in Workers, job'[w].at = "idle"
        PROVE  Nearer(w)
    BY <2>1 DEF Nearer
  <2>. QED  BY <1>1, <2>1, ServeNears, OwnSteps
<1>2. Inv /\ [Next]_vars =>
        [\A w \in Workers :
            job[w].at # "idle" /\ (Serve(w) \/ job'[w] # job[w]) => Nearer(w)]_vars
  BY <1>1
<1>. QED  BY <1>2, Always, PTL DEF Spec
=============================================================================
