------------------------- MODULE LiveSession_proofs -------------------------
(* Theorems about LiveSession, for any users and capacities, any number of    *)
(* requests at a time and any number of requests and losses.                  *)
EXTENDS LiveSession, FiniteSetTheorems, TLAPS

\* A count that has not been written yet is right unless it is marked.
Counted(w) ==
    job[w].at = "write" /\ ~job[w].late => job[w].n = Cardinality(Active)

\* What was read and is not marked as old counts every participant.
CopyTrue == copy.status # "none" /\ ~copy.old => Cardinality(Active) <= copy.count
Read(w) ==
    /\ job[w].at \in {"fill", "join", "find", "seat"} /\ ~job[w].got.old
         => Cardinality(Active) <= job[w].got.count
    /\ job[w].at \in {"find", "seat"} => job[w].got.count < job[w].got.max
Fits(w) ==
    job[w].at = "connect" /\ ~job[w].got.old => Cardinality(Active) <= job[w].got.max

\* Before the first start nobody has seen the session live.
NotBegun ==
    row.status = "scheduled" =>
        /\ copy.status \in {"none", "scheduled"}
        /\ \A w \in Workers : /\ job[w].got.status \in {"none", "scheduled"}
                              /\ job[w].at # "close"
        /\ room # {} \/ was.roomless

Good(w) == Counted(w) /\ Read(w) /\ Fits(w)

-----------------------------------------------------------------------------
(* Types. *)

LEMMA Few ==
    ASSUME NEW S \in SUBSET Users
    PROVE  /\ IsFiniteSet(S)
           /\ Cardinality(S) \in 0 .. Cardinality(Users)
           /\ Cardinality(Users) \in Nat
  BY UsersAssumption, FS_Subset, FS_CardinalityType

LEMMA CopyNumbers ==
    ASSUME NEW c \in Copy
    PROVE  c.count \in Nat /\ c.max \in Nat
<1>1. c.count \in 0 .. Cardinality(Users) /\ c.max \in Capacities \cup {0}
  BY DEF Copy
<1>2. c.count \in Nat
  BY <1>1, Few
<1>3. \A m \in Capacities \cup {0} : m \in Nat
  <2>1. \A m \in Capacities : m \in Nat
    BY LimitsAssumption, Zenon
  <2>2. 0 \in Nat
    OBVIOUS
  <2>3. QED
    BY <2>1, <2>2, Zenon
<1>4. QED
  BY <1>1, <1>2, <1>3, Zenon

LEMMA IdleType == Idle \in Job /\ NoCopy \in Copy
<1>1. 0 \in 0 .. Cardinality(Users)
  BY Few
<1>2. NoCopy \in Copy
  BY <1>1 DEF NoCopy, Copy
<1>3. QED
  BY <1>1, <1>2, UsersAssumption DEF Idle, Job, PC, Callers

LEMMA InitTypes == Init => TypeOK
<1> SUFFICES ASSUME Init
             PROVE  TypeOK
  OBVIOUS
<1>1. 0 \in 0 .. Cardinality(Users)
  BY Few
<1>2. row \in Row
  BY <1>1 DEF Init, Row, Status
<1>3. copy \in Copy
  <2>1. [status |-> "scheduled", count |-> 0, max |-> row.max, old |-> TRUE] \in Copy
    BY <1>1, <1>2 DEF Copy, Status, Row
  <2>2. QED
    BY <2>1, IdleType DEF Init
<1>4. part \in [Users -> {"none", "connecting", "connected", "disconnected"}]
  <2>1. CASE part = [u \in Users |-> IF u = Host THEN "connecting" ELSE "none"]
    BY <2>1
  <2>2. CASE part = [u \in Users |-> IF u = Host THEN "connected" ELSE "none"]
    BY <2>2
  <2>3. QED
    BY <2>1, <2>2 DEF Init
<1>5. was \in History /\ used \in [requests : Nat, losses : Nat]
  <2>1. /\ [uncounted |-> TRUE, stuck |-> FALSE, roomless |-> FALSE] \in History
        /\ [uncounted |-> TRUE, stuck |-> FALSE, roomless |-> TRUE] \in History
    BY DEF History
  <2>2. [requests |-> 0, losses |-> 0] \in [requests : Nat, losses : Nat]
    OBVIOUS
  <2>3. QED
    BY <2>1, <2>2 DEF Init
<1>6. QED
  BY <1>2, <1>3, <1>4, <1>5, IdleType DEF Init, TypeOK

LEMMA UsedTypes ==
    ASSUME TypeOK, Ask \/ Lose \/ UNCHANGED used
    PROVE  used' \in [requests : Nat, losses : Nat]
  BY DEF TypeOK, Ask, Lose

\* A request goes on with a record of the right type.
LEMMA JobTypes ==
    ASSUME TypeOK, NEW w \in Workers, NEW v \in Job, job' = [job EXCEPT ![w] = v]
    PROVE  job' \in [Workers -> Job]
  BY DEF TypeOK

\* What getSessionById hands on.
LEMMA NeededFacts ==
    ASSUME NEW w \in Workers, NEW c \in Copy
    PROVE  /\ Needed(w, c) \in Copy /\ Needed(w, c).status = c.status
           /\ job[w].for = "join" => Needed(w, c) = c
<1>1. [NoCopy EXCEPT !.status = c.status] \in Copy
      /\ [NoCopy EXCEPT !.status = c.status].status = c.status
  BY IdleType DEF Copy
<1>2. QED
  BY <1>1 DEF Needed

LEMMA MarkedTypes ==
    ASSUME TypeOK, NEW w \in Workers
    PROVE  /\ Outdated(w) \in Job /\ Crowded(w) \in Job
           /\ Seated(w) \in Job
           /\ [Idle EXCEPT !.at = "count"] \in Job
           /\ [job[w] EXCEPT !.at = "clear"] \in Job
<1>1. job[w] \in Job /\ job[w].got \in Copy
  BY DEF TypeOK, Job
<1>2. [job[w].got EXCEPT !.old = job[w].at \in Joining] \in Copy
      /\ [NoCopy EXCEPT !.max = job[w].got.max, !.old = job[w].got.old] \in Copy
  <2>1. \A c \in Copy, b \in BOOLEAN : [c EXCEPT !.old = b] \in Copy
    BY DEF Copy
  <2>2. \A c \in Copy, b \in BOOLEAN, m \in Capacities \cup {0} :
          [c EXCEPT !.max = m, !.old = b] \in Copy
    BY DEF Copy
  <2>3. /\ (job[w].at \in Joining) \in BOOLEAN
        /\ job[w].got.old \in BOOLEAN /\ job[w].got.max \in Capacities \cup {0}
    BY <1>1 DEF Copy
  <2>4. QED
    BY <1>1, <2>1, <2>2, <2>3, IdleType, Zenon
<1>3. Outdated(w) \in Job
  BY <1>1 DEF Outdated, Job
<1>4. Crowded(w) = [Outdated(w) EXCEPT !.got = [job[w].got EXCEPT !.old = job[w].at \in Joining]]
  BY <1>1 DEF Crowded, Outdated, Job
<1>5. Seated(w) = [Idle EXCEPT !.at = "connect",
                   !.got = [NoCopy EXCEPT !.max = job[w].got.max, !.old = job[w].got.old]]
  BY DEF Seated
<1>6. Crowded(w) \in Job
  BY <1>2, <1>3, <1>4 DEF Job
<1>7. Seated(w) \in Job
  BY <1>2, <1>5, IdleType DEF Job, PC
<1>8. QED
  BY <1>1, <1>3, <1>6, <1>7, IdleType DEF Job, PC

LEMMA StuckTypes ==
    ASSUME TypeOK, NEW b \in BOOLEAN
    PROVE  /\ [was EXCEPT !.stuck = b] \in History
           /\ [was EXCEPT !.uncounted = b] \in History
           /\ [was EXCEPT !.roomless = b] \in History
  BY DEF TypeOK, History

LEMMA TypesStep == TypeOK /\ [Next]_vars => TypeOK'
<1> SUFFICES ASSUME TypeOK, [Next]_vars
             PROVE  TypeOK'
  OBVIOUS
<1> USE IdleType
<1>1. ASSUME NEW w \in Workers, Arrive(w)
      PROVE  TypeOK'
  <2>1. ASSUME NEW caller \in {"start", "end", "update", "reply", "join"},
               NEW u \in Users, Receive(w, caller, u)
        PROVE  TypeOK'
    BY <2>1, UsedTypes, ZenonT(60) DEF Receive, Ask, TypeOK, Job, PC, Callers
  <2>2. ASSUME NEW u \in Users, AskLeave(w, u)
        PROVE  TypeOK'
    BY <2>2, UsedTypes, ZenonT(60) DEF AskLeave, Ask, TypeOK, Job, PC
  <2>3. QED
    BY <1>1, <2>1, <2>2, UsersAssumption DEF Arrive
<1>2. ASSUME NEW w \in Workers, NEW ok \in BOOLEAN, Look(w, ok)
      PROVE  TypeOK'
  <2>1. used' \in [requests : Nat, losses : Nat]
    BY <1>2, UsedTypes DEF Look, Call
  <2>2. job[w] \in Job /\ copy \in Copy
    BY DEF TypeOK
  <2>3. \/ job' = [job EXCEPT ![w] = [job[w] EXCEPT !.at = "fetch"]]
        \/ job' = [job EXCEPT ![w] = Idle]
        \/ /\ job[w].for # "reply"
           /\ job' = [job EXCEPT ![w] = [job[w] EXCEPT !.at = job[w].for,
                                           !.got = Needed(w, copy), !.cached = TRUE]]
    BY <1>2, <2>2 DEF Look, Got, Go, Leave, Job, TypeOK
  <2>4. [job[w] EXCEPT !.at = "fetch"] \in Job
    BY <2>2 DEF Job, PC
  <2>5. job[w].for # "reply" =>
          [job[w] EXCEPT !.at = job[w].for, !.got = Needed(w, copy), !.cached = TRUE] \in Job
    BY <2>2, NeededFacts DEF Job, PC, Callers
  <2>6. job' \in [Workers -> Job]
    BY <2>3, <2>4, <2>5, JobTypes, IdleType
  <2>7. QED
    BY <1>2, <2>1, <2>6 DEF Look, TypeOK
<1>3. ASSUME NEW w \in Workers, NEW ok \in BOOLEAN, Fill(w, ok)
      PROVE  TypeOK'
  <2>1. used' \in [requests : Nat, losses : Nat]
    BY <1>3, UsedTypes DEF Fill, Call
  <2>2. job[w] \in Job /\ job[w].got \in Copy
    BY DEF TypeOK, Job
  <2>3. \/ job' = [job EXCEPT ![w] = Idle]
        \/ /\ job[w].for # "reply"
           /\ job' = [job EXCEPT ![w] = [job[w] EXCEPT !.at = job[w].for,
                                             !.got = Needed(w, job[w].got), !.cached = FALSE]]
    BY <1>3, <2>2 DEF Fill, Got, Leave, Job, TypeOK
  <2>4. job[w].for # "reply" =>
          [job[w] EXCEPT !.at = job[w].for, !.got = Needed(w, job[w].got),
                        !.cached = FALSE] \in Job
    BY <2>2, NeededFacts DEF Job, PC, Callers
  <2>5. job' \in [Workers -> Job]
    BY <2>3, <2>4, JobTypes, IdleType
  <2>6. was' \in History /\ copy' \in Copy
    BY <1>3, <2>2 DEF Fill, TypeOK, History
  <2>7. QED
    BY <1>3, <2>1, <2>5, <2>6 DEF Fill, TypeOK
<1>4. ASSUME NEW w \in Workers, NEW ok \in BOOLEAN, Clear(w, ok)
      PROVE  TypeOK'
  <2>1. used' \in [requests : Nat, losses : Nat]
    BY <1>4, UsedTypes DEF Clear, Call
  <2>2. job' \in [Workers -> Job]
    <3>1. job[w] \in Job
      BY DEF TypeOK
    <3>2. [job[w] EXCEPT !.at = "look", !.for = "reply"] \in Job
      BY <3>1 DEF Job, PC, Callers
    <3>3. job' = [job EXCEPT ![w] = [job[w] EXCEPT !.at = "look", !.for = "reply"]]
      BY <1>4, <3>1 DEF Clear, TypeOK, Job
    <3>4. QED
      BY <3>2, <3>3, JobTypes
  <2>3. (~ok /\ SaysOpen) \in BOOLEAN
    BY DEF SaysOpen
  <2>4. was' \in History
    BY <1>4, <2>3, StuckTypes, Zenon DEF Clear
  <2>5. QED
    BY <1>4, <2>1, <2>2, <2>4 DEF Clear, TypeOK
<1>5. ASSUME NEW w \in Workers, NEW ok \in BOOLEAN, End(w, ok)
      PROVE  TypeOK'
  BY <1>5, UsedTypes DEF End, Call, Lose, RoomEnds, GoOn, Leave, TypeOK, Job, PC, History
<1>6. ASSUME NEW w \in Workers, Update(w) \/ \E ok \in BOOLEAN : Settings(w, ok)
      PROVE  TypeOK'
  <2>1. used' \in [requests : Nat, losses : Nat]
    BY <1>6, UsedTypes DEF Update, Settings, Call
  <2>2. job' \in [Workers -> Job]
    BY <1>6 DEF Update, Settings, GoOn, TypeOK, Job, PC
  <2>3. row' \in Row
    BY <1>6 DEF Update, Settings, TypeOK, Row
  <2>4. QED
    BY <1>6, <2>1, <2>2, <2>3 DEF Update, Settings, TypeOK
<1>7. ASSUME NEW w \in Workers, NEW ok \in BOOLEAN, Connect(w, ok)
      PROVE  TypeOK'
  <2>1. used' \in [requests : Nat, losses : Nat]
    BY <1>7, UsedTypes DEF Connect, Call
  <2>2. job' \in [Workers -> Job]
    BY <1>7, MarkedTypes, ZenonT(60) DEF Connect, GoOn, TypeOK
  <2>3. was' \in History
    BY <1>7 DEF Connect, TypeOK, History
  <2>4. QED
    BY <1>7, <2>1, <2>2, <2>3 DEF Connect, TypeOK
<1>8. ASSUME NEW w \in Workers, Fetch(w)
      PROVE  TypeOK'
  <2>. DEFINE read == [status |-> row.status, count |-> row.count, max |-> row.max,
                       old |-> was.uncounted \/ Counting # {}]
  <2>1. read \in Copy /\ job[w] \in Job
    BY DEF TypeOK, Row, Copy, History
  <2>2. [job[w] EXCEPT !.at = "fill", !.got = read] \in Job
    BY <2>1 DEF Job, PC
  <2>3. job' = [job EXCEPT ![w] = [job[w] EXCEPT !.at = "fill", !.got = read]]
    BY <1>8, <2>1 DEF Fetch, TypeOK, Job
  <2>4. job' \in [Workers -> Job]
    BY <2>2, <2>3, JobTypes
  <2>5. QED
    BY <1>8, <2>4 DEF Fetch, TypeOK
<1>9. ASSUME NEW w \in Workers, Start(w)
      PROVE  TypeOK'
  <2>1. job' \in [Workers -> Job]
    BY <1>9 DEF Start, GoOn, Leave, TypeOK, Job, PC
  <2>2. row' \in Row
    BY <1>9 DEF Start, TypeOK, Row, Status
  <2>3. (was.roomless \/ (room = {} /\ job[w].got.status # row.status)) \in BOOLEAN
    OBVIOUS
  <2>4. was' \in History
    BY <1>9, <2>3, StuckTypes DEF Start, TypeOK
  <2>5. QED
    BY <1>9, <2>1, <2>2, <2>4 DEF Start, TypeOK
<1>10. ASSUME NEW w \in Workers, Close(w)
      PROVE  TypeOK'
  BY <1>10 DEF Close, Go, TypeOK, Job, PC, Row, Status
<1>11. ASSUME NEW w \in Workers, Disconnect(w)
      PROVE  TypeOK'
  <2>1. part' \in [Users -> {"none", "connecting", "connected", "disconnected"}]
    BY <1>11 DEF Disconnect, TypeOK
  <2>2. job' \in [Workers -> Job]
    BY <1>11, MarkedTypes, ZenonT(60) DEF Disconnect, Go, TypeOK
  <2>3. was' \in History
    BY <1>11 DEF Disconnect, TypeOK, History
  <2>4. QED
    BY <1>11, <2>1, <2>2, <2>3 DEF Disconnect, TypeOK
<1>12. ASSUME NEW w \in Workers, Admit(w) \/ Find(w)
      PROVE  TypeOK'
  BY <1>12 DEF Admit, Find, Go, Leave, TypeOK, Job, PC
<1>13. ASSUME NEW w \in Workers, Seat(w)
      PROVE  TypeOK'
  <2>1. job' \in [Workers -> Job]
    <3>1. \/ job' = [job EXCEPT ![w] = Idle] \/ job' = [job EXCEPT ![w] = Seated(w)]
          \/ job' = [v \in Workers |-> IF v = w THEN Seated(w) ELSE Crowded(v)]
      BY <1>13 DEF Seat, Leave
    <3>2. CASE job' = [v \in Workers |-> IF v = w THEN Seated(w) ELSE Crowded(v)]
      BY <3>2, MarkedTypes
    <3>3. QED
      BY <3>1, <3>2, MarkedTypes, JobTypes
  <2>2. part' \in [Users -> {"none", "connecting", "connected", "disconnected"}]
    BY <1>13 DEF Seat, TypeOK
  <2>3. copy' \in Copy
    <3>1. (copy.status # "none") \in BOOLEAN /\ copy \in Copy
      BY DEF TypeOK
    <3>2. \A b \in BOOLEAN : [copy EXCEPT !.old = b] \in Copy
      BY <3>1 DEF Copy
    <3>3. copy' = copy \/ copy' = [copy EXCEPT !.old = copy.status # "none"]
      BY <1>13 DEF Seat
    <3>4. QED
      BY <3>1, <3>2, <3>3, Zenon
  <2>4. QED
    BY <1>13, <2>1, <2>2, <2>3 DEF Seat, TypeOK
<1>14. ASSUME NEW w \in Workers, Part(w)
      PROVE  TypeOK'
  BY <1>14, MarkedTypes DEF Part, TypeOK
<1>15. ASSUME NEW w \in Workers, Count(w)
      PROVE  TypeOK'
  <2>1. Cardinality(Active) \in 0 .. Cardinality(Users)
    BY Few DEF Active
  <2>2. [job[w] EXCEPT !.at = "write", !.n = Cardinality(Active)] \in Job
    BY <2>1, ZenonT(60) DEF TypeOK, Job, PC
  <2>3. job' = [job EXCEPT ![w] = [job[w] EXCEPT !.at = "write", !.n = Cardinality(Active)]]
    BY <1>15 DEF Count, TypeOK, Job
  <2>4. job' \in [Workers -> Job]
    BY <2>2, <2>3, JobTypes
  <2>5. QED
    BY <1>15, <2>4 DEF Count, TypeOK
<1>16. ASSUME NEW w \in Workers, Write(w)
      PROVE  TypeOK'
  BY <1>16 DEF Write, Leave, TypeOK, Job, Row, History
<1>17. ASSUME TeacherStart \/ TeacherEnd \/ TeacherUpdate
      PROVE  TypeOK'
  <2>1. used' \in [requests : Nat, losses : Nat] /\ row' \in Row
    BY <1>17, UsedTypes DEF TeacherStart, TeacherEnd, TeacherUpdate, TypeOK, Row, Status
  <2>2. SaysOpen \in BOOLEAN /\ (was.roomless \/ (room = {} /\ row.status = "completed")) \in BOOLEAN
    BY DEF SaysOpen
  <2>3. was' \in History
    BY <1>17, <2>2, StuckTypes, Zenon DEF TeacherStart, TeacherEnd, TeacherUpdate, TypeOK
  <2>4. QED
    BY <1>17, <2>1, <2>3 DEF TeacherStart, TeacherEnd, TeacherUpdate, TypeOK
<1>18. ASSUME CopyExpires \/ RoomExpires
      PROVE  TypeOK'
  BY <1>18, ZenonT(60) DEF CopyExpires, RoomExpires, TypeOK, History
<1>19. ASSUME Crash
      PROVE  TypeOK'
  <2>1. used' \in [requests : Nat, losses : Nat]
    BY <1>19, UsedTypes DEF Crash
  <2>2. was' \in History
    BY <1>19 DEF Crash, TypeOK, History, SaysOpen
  <2>3. QED
    BY <1>19, <2>1, <2>2 DEF Crash, TypeOK
<1>20. ASSUME UNCHANGED vars
      PROVE  TypeOK'
  BY <1>20 DEF vars, TypeOK
<1>21. QED
  BY <1>1, <1>2, <1>3, <1>4, <1>5, <1>6, <1>7, <1>8, <1>9, <1>10, <1>11, <1>12, <1>13,
     <1>14, <1>15, <1>16, <1>17, <1>18, <1>19, <1>20
     DEF Next, Serve

\* Every variable keeps its type.
THEOREM LiveTypes == Spec => []TypeOK
  BY InitTypes, TypesStep, PTL DEF Spec

-----------------------------------------------------------------------------
(* The count and the capacity. *)

\* What the theorems about the count rest on.
CountInv ==
    /\ TypeOK
    /\ CountTruthful
    /\ CopyTrue
    /\ \A w \in Workers : Good(w)

CountPC == {"connect", "count", "write"}
ReadPC == {"fill", "join", "find", "seat"}

\* A step of w that changes no participant and writes no count; what it reads
\* comes from the copy, from the row or from what it had read.
Plain(w) ==
    /\ part' = part /\ row'.count = row.count /\ was'.uncounted = was.uncounted
    /\ \A u \in Workers \ {w} : job'[u] = job[u]
    /\ job[w].at \notin CountPC /\ job'[w].at \notin CountPC
    /\ \/ copy' = copy \/ copy' = NoCopy
       \/ copy' = job[w].got /\ job[w].at = "fill"
    /\ job'[w].at \in ReadPC =>
         \/ job[w].at \in ReadPC /\ job'[w].got = job[w].got
         \/ job'[w].got = copy /\ copy.status # "none"
         \/ job'[w].got.count = row.count
            /\ (~job'[w].got.old => ~was.uncounted /\ Counting = {})
    /\ job'[w].at \in {"find", "seat"} => job'[w].got.count < job'[w].got.max

\* A step that leaves all requests as they are.
Still ==
    /\ part' = part /\ row'.count = row.count /\ was'.uncounted = was.uncounted
    /\ job' = job
    /\ copy' = copy \/ copy' = NoCopy

LEMMA SameActive == part' = part => Active' = Active
  BY DEF Active

LEMMA PlainStep ==
    ASSUME CountInv, NEW w \in Workers, Plain(w)
    PROVE  CountTruthful' /\ CopyTrue' /\ \A u \in Workers : Good(u)'
<1>1. Active' = Active
  BY SameActive DEF Plain
<1>2. Counting' = Counting
  BY DEF Plain, Counting, CountPC
<1>3. CountTruthful'
  BY <1>1, <1>2 DEF CountInv, CountTruthful, Plain
<1>4. Good(w)
  BY DEF CountInv
<1>5. job[w].at = "fill" /\ ~job[w].got.old => Cardinality(Active) <= job[w].got.count
  BY <1>4 DEF Good, Read
<1>6. CopyTrue'
  BY <1>1, <1>5 DEF Plain, CountInv, CopyTrue, NoCopy
<1>7. Good(w)'
  <2>1. Counted(w)' /\ Fits(w)'
    BY DEF Plain, CountPC, Counted, Fits
  <2>2. job'[w].at \in ReadPC /\ ~job'[w].got.old
          => Cardinality(Active) <= job'[w].got.count
    <3> SUFFICES ASSUME job'[w].at \in ReadPC, ~job'[w].got.old
                 PROVE  Cardinality(Active) <= job'[w].got.count
      OBVIOUS
    <3>1. CASE job[w].at \in ReadPC /\ job'[w].got = job[w].got
      BY <3>1, <1>4 DEF Good, Read, ReadPC
    <3>2. CASE job'[w].got = copy /\ copy.status # "none"
      BY <3>2 DEF CountInv, CopyTrue
    <3>3. CASE job'[w].got.count = row.count
               /\ (~job'[w].got.old => ~was.uncounted /\ Counting = {})
      <4>1. Cardinality(Active) \in Nat
        BY Few DEF Active
      <4>2. row.count = Cardinality(Active)
        BY <3>3 DEF CountInv, CountTruthful
      <4>3. QED
        BY <3>3, <4>1, <4>2
    <3>4. QED
      BY <3>1, <3>2, <3>3 DEF Plain
  <2>3. Read(w)'
    BY <1>1, <2>2 DEF Read, Plain, ReadPC
  <2>4. QED
    BY <2>1, <2>3 DEF Good
<1>8. ASSUME NEW u \in Workers \ {w}
      PROVE  Good(u)'
  <2>1. Good(u) /\ job'[u] = job[u]
    BY DEF CountInv, Plain
  <2>2. QED
    BY <1>1, <2>1 DEF Good, Counted, Read, Fits
<1>9. QED
  BY <1>3, <1>6, <1>7, <1>8

LEMMA StillStep ==
    ASSUME CountInv, Still
    PROVE  CountTruthful' /\ CopyTrue' /\ \A u \in Workers : Good(u)'
<1>1. Active' = Active /\ Counting' = Counting
  BY SameActive DEF Still, Counting
<1>2. CountTruthful' /\ CopyTrue'
  BY <1>1 DEF CountInv, CountTruthful, CopyTrue, Still, NoCopy
<1>3. ASSUME NEW u \in Workers
      PROVE  Good(u)'
  <2>1. Good(u)
    BY DEF CountInv
  <2>2. QED
    BY <1>1, <2>1 DEF Still, Good, Counted, Read, Fits
<1>4. QED
  BY <1>2, <1>3

LEMMA PlainAction ==
    ASSUME CountInv, NEW w \in Workers,
           \/ Arrive(w) \/ Fetch(w) \/ Start(w) \/ Close(w) \/ Admit(w) \/ Find(w)
           \/ Update(w)
           \/ \E ok \in BOOLEAN : Look(w, ok) \/ Fill(w, ok) \/ Clear(w, ok)
                                  \/ End(w, ok) \/ Settings(w, ok)
    PROVE  Plain(w)
<1>. DEFINE v == job[w]
<1>1. TypeOK /\ v \in Job /\ Good(w)
  BY DEF CountInv, TypeOK
<1>2. v.for \in Callers /\ v.got \in Copy
  BY <1>1 DEF Job
<1>3. ASSUME Arrive(w)
      PROVE  Plain(w)
  <2>1. ASSUME NEW caller, NEW u, Receive(w, caller, u)
        PROVE  Plain(w)
    <3>1. job'[w].at = "look" /\ \A x \in Workers \ {w} : job'[x] = job[x]
      BY <1>1, <2>1 DEF Receive, Idle, TypeOK
    <3>2. QED
      BY <2>1, <3>1 DEF Receive, Plain, CountPC, ReadPC
  <2>2. ASSUME NEW u, AskLeave(w, u)
        PROVE  Plain(w)
    <3>1. job'[w].at = "leave" /\ \A x \in Workers \ {w} : job'[x] = job[x]
      BY <1>1, <2>2 DEF AskLeave, Idle, TypeOK
    <3>2. QED
      BY <2>2, <3>1 DEF AskLeave, Plain, CountPC, ReadPC
  <2>3. QED
    BY <1>3, <2>1, <2>2 DEF Arrive
<1>4. ASSUME Fetch(w)
      PROVE  Plain(w)
  <2>1. job'[w] = [v EXCEPT !.at = "fill", !.got = [status |-> row.status, count |-> row.count,
                                            max |-> row.max,
                                            old |-> was.uncounted \/ Counting # {}]]
        /\ \A u \in Workers \ {w} : job'[u] = job[u]
    BY <1>1, <1>4 DEF Fetch, TypeOK, Job
  <2>2. job'[w].at = "fill" /\ job'[w].got.count = row.count
        /\ job'[w].got.old = (was.uncounted \/ Counting # {})
    BY <1>1, <2>1 DEF Job
  <2>3. QED
    BY <1>4, <2>1, <2>2 DEF Fetch, Plain, CountPC, ReadPC
<1>5. ASSUME Start(w) \/ Close(w) \/ Admit(w)
      PROVE  Plain(w)
  <2>1. \A u \in Workers \ {w} : job'[u] = job[u]
    BY <1>1, <1>5 DEF Start, Close, Admit, Go, GoOn, Leave, TypeOK
  <2>2. \/ job'[w].at \in {"idle", "clear", "disconnect"}
        \/ /\ job'[w].at = "find" /\ job'[w].got = v.got
           /\ v.at = "join" /\ ~(v.got.count >= v.got.max)
    BY <1>1, <1>5 DEF Start, Close, Admit, Go, GoOn, Leave, Idle, TypeOK, Job
  <2>3. v.got.count \in Nat /\ v.got.max \in Nat
    BY <1>2, CopyNumbers
  <2>4. /\ part' = part /\ row'.count = row.count /\ was'.uncounted = was.uncounted
        /\ copy' = copy /\ v.at \in {"start", "close", "join"}
    BY <1>1, <1>5 DEF Start, Close, Admit, TypeOK, Row, History
  <2>5. QED
    BY <2>1, <2>2, <2>3, <2>4 DEF Plain, CountPC, ReadPC
<1>6. ASSUME Find(w)
      PROVE  Plain(w)
  <2>1. job'[w].at = "seat" /\ job'[w].got = v.got /\ \A u \in Workers \ {w} : job'[u] = job[u]
    BY <1>1, <1>6 DEF Find, TypeOK, Job
  <2>2. v.got.count < v.got.max
    BY <1>1, <1>6 DEF Find, Good, Read
  <2>3. QED
    BY <1>6, <2>1, <2>2 DEF Find, Plain, CountPC, ReadPC
<1>7. ASSUME NEW ok \in BOOLEAN, Look(w, ok)
      PROVE  Plain(w)
  <2>1. \A u \in Workers \ {w} : job'[u] = job[u]
    BY <1>1, <1>7 DEF Look, Got, Go, Leave, TypeOK
  <2>2. \/ job'[w].at \in {"fetch", "idle"}
        \/ /\ job'[w].at \in Callers /\ job'[w].at # "reply"
           /\ job'[w].at = "join" => job'[w].got = copy
           /\ copy.status # "none"
    BY <1>1, <1>2, <1>7, NeededFacts DEF Look, Got, Go, Leave, Idle, Job, TypeOK
  <2>3. QED
    BY <1>7, <2>1, <2>2 DEF Look, Plain, CountPC, ReadPC, Callers
<1>8. ASSUME NEW ok \in BOOLEAN, Fill(w, ok)
      PROVE  Plain(w)
  <2>1. \A u \in Workers \ {w} : job'[u] = job[u]
    BY <1>1, <1>8 DEF Fill, Got, Leave, TypeOK
  <2>2. \/ job'[w].at = "idle"
        \/ /\ job'[w].at \in Callers /\ job'[w].at # "reply"
           /\ job'[w].at = "join" => job'[w].got = v.got
    BY <1>1, <1>2, <1>8, NeededFacts DEF Fill, Got, Leave, Idle, Job, TypeOK
  <2>3. was'.uncounted = was.uncounted /\ (copy' = copy \/ copy' = v.got)
    BY <1>1, <1>8 DEF Fill, TypeOK, History
  <2>4. QED
    BY <1>8, <2>1, <2>2, <2>3 DEF Fill, Plain, CountPC, ReadPC, Callers
<1>9. ASSUME Update(w) \/ \E ok \in BOOLEAN : Clear(w, ok) \/ Settings(w, ok) \/ End(w, ok)
      PROVE  Plain(w)
  <2>1. job'[w].at \in {"look", "settings", "clear", "close", "idle"}
        /\ \A u \in Workers \ {w} : job'[u] = job[u]
    BY <1>1, <1>9 DEF Clear, Update, Settings, End, Go, GoOn, Leave, Idle, Job, TypeOK
  <2>2. was'.uncounted = was.uncounted /\ v.at \in {"clear", "update", "settings", "end"}
    BY <1>1, <1>9 DEF Clear, Update, Settings, End, TypeOK, History
  <2>3. part' = part /\ row'.count = row.count /\ (copy' = copy \/ copy' = NoCopy)
    BY <1>1, <1>9 DEF Clear, Update, Settings, End, TypeOK, Row
  <2>4. QED
    BY <2>1, <2>2, <2>3 DEF Plain, CountPC, ReadPC
<1>10. QED
  BY <1>3, <1>4, <1>5, <1>6, <1>7, <1>8, <1>9

LEMMA StillAction ==
    ASSUME CountInv, \/ TeacherStart \/ TeacherEnd \/ TeacherUpdate
                     \/ CopyExpires \/ RoomExpires \/ UNCHANGED vars
    PROVE  Still
<1>1. row'.count = row.count /\ was'.uncounted = was.uncounted
  BY DEF CountInv, TypeOK, Row, History, TeacherStart, TeacherEnd, TeacherUpdate,
         CopyExpires, RoomExpires, vars
<1>2. QED
  BY <1>1 DEF Still, TeacherStart, TeacherEnd, TeacherUpdate, CopyExpires, RoomExpires, vars

LEMMA Marked ==
    ASSUME TypeOK, NEW u \in Workers
    PROVE  /\ Outdated(u).at = job[u].at /\ Outdated(u).got = job[u].got
           /\ Outdated(u).late = (job[u].at = "write")
           /\ Crowded(u).at = job[u].at
           /\ Crowded(u).late = (job[u].at = "write")
           /\ Crowded(u).got.status = job[u].got.status
           /\ Crowded(u).got.count = job[u].got.count
           /\ Crowded(u).got.max = job[u].got.max
           /\ Crowded(u).got.old = (job[u].at \in Joining)
           /\ Seated(u).at = "connect" /\ Seated(u).got.old = job[u].got.old
           /\ Seated(u).got.status = "none" /\ Seated(u).got.max = job[u].got.max
<1>1. job[u] \in Job /\ job[u].got \in Copy
  BY DEF TypeOK, Job
<1>2. Outdated(u) = [job[u] EXCEPT !.late = job[u].at = "write"]
  BY DEF Outdated
<1>3. Outdated(u).at = job[u].at /\ Outdated(u).got = job[u].got
      /\ Outdated(u).late = (job[u].at = "write")
  BY <1>1, <1>2 DEF Job
<1>4. Crowded(u) = [Outdated(u) EXCEPT !.got = [job[u].got EXCEPT !.old = job[u].at \in Joining]]
  BY <1>1, <1>2 DEF Crowded, Job
<1>5. Crowded(u).at = job[u].at /\ Crowded(u).late = (job[u].at = "write")
      /\ Crowded(u).got = [job[u].got EXCEPT !.old = job[u].at \in Joining]
  BY <1>1, <1>2, <1>4 DEF Job
<1>6. Crowded(u).got.status = job[u].got.status /\ Crowded(u).got.count = job[u].got.count
      /\ Crowded(u).got.max = job[u].got.max
      /\ Crowded(u).got.old = (job[u].at \in Joining)
  BY <1>1, <1>5 DEF Copy
<1>. DEFINE c == [NoCopy EXCEPT !.max = job[u].got.max, !.old = job[u].got.old]
<1>7. c.status = "none" /\ c.max = job[u].got.max /\ c.old = job[u].got.old
  BY DEF NoCopy
<1>8. Seated(u).at = "connect" /\ Seated(u).got = c
  BY DEF Seated, Idle
<1>9. QED
  BY <1>3, <1>5, <1>6, <1>7, <1>8

\* Whoever has counted or read is still right after a step that takes participants
\* away, if it is marked for it.
LEMMA OutdatedGood ==
    ASSUME CountInv, NEW u \in Workers, job'[u] = Outdated(u), Active' \subseteq Active
    PROVE  Good(u)'
<1>1. Good(u) /\ TypeOK
  BY DEF CountInv
<1>2. Cardinality(Active') <= Cardinality(Active)
  BY Few, FS_Subset DEF Active
<1>3. Cardinality(Active') \in Nat /\ Cardinality(Active) \in Nat
  <2>1. Active \subseteq Users /\ Active' \subseteq Users
    BY DEF Active
  <2>2. QED
    BY <2>1, Few
<1>4. job[u].got.count \in Nat /\ job[u].got.max \in Nat
  <2>1. job[u].got \in Copy
    BY <1>1 DEF TypeOK, Job
  <2>2. QED
    BY <2>1, CopyNumbers
<1>5. job'[u].at = job[u].at /\ job'[u].got = job[u].got
      /\ job'[u].late = (job[u].at = "write")
  BY <1>1, Marked
<1>6. Counted(u)'
  BY <1>5 DEF Counted
<1>7. Read(u)'
  BY <1>1, <1>2, <1>3, <1>4, <1>5 DEF Good, Read
<1>8. Fits(u)'
  BY <1>1, <1>2, <1>3, <1>4, <1>5 DEF Good, Fits
<1>9. QED
  BY <1>6, <1>7, <1>8 DEF Good

\* Nor does a step that changes neither the participants nor the request.
LEMMA SameGood ==
    ASSUME CountInv, NEW u \in Workers, job'[u] = job[u], Active' = Active
    PROVE  Good(u)'
<1>1. Good(u)
  BY DEF CountInv
<1>2. QED
  BY <1>1 DEF Good, Counted, Read, Fits

\* A request that holds nothing has nothing to be wrong about.
LEMMA FreshGood ==
    ASSUME NEW u \in Workers, job'[u].at \notin ReadPC \cup {"connect", "write"}
    PROVE  Good(u)'
  BY DEF Good, Counted, Read, Fits, ReadPC

\* After a step of Part(w), Disconnect(w), Connect(w, ok), Count(w) or Write(w) that
\* Plain does not cover.
LEMMA LeaveStep ==
    ASSUME CountInv, NEW w \in Workers,
           Part(w) \/ Disconnect(w) \/ \E ok \in BOOLEAN : Connect(w, ok)
    PROVE  CountTruthful' /\ CopyTrue' /\ \A u \in Workers : Good(u)'
<1>1. TypeOK /\ job[w] \in Job
  BY DEF CountInv, TypeOK
<1>2. Active' \subseteq Active
  BY <1>1 DEF Part, Disconnect, Connect, Active, TypeOK
<1>3. \A u \in Workers \ {w} : job'[u] = Outdated(u) \/ (job'[u] = job[u] /\ part' = part)
  BY <1>1 DEF Part, Disconnect, Connect, Go, GoOn, TypeOK
<1>4. job'[w].at \in {"count", "clear", "idle"}
  BY <1>1 DEF Part, Disconnect, Connect, Go, GoOn, TypeOK, Job, PC, Idle
<1>5. \A u \in Workers : Good(u)'
  <2>1. Good(w)'
    BY <1>4, FreshGood DEF ReadPC
  <2>2. ASSUME NEW u \in Workers \ {w}
        PROVE  Good(u)'
    BY <1>2, <1>3, OutdatedGood, SameGood, SameActive
  <2>3. QED
    BY <2>1, <2>2
<1>6. CopyTrue'
  <2>1. Cardinality(Active') <= Cardinality(Active)
    BY <1>2, Few, FS_Subset DEF Active
  <2>2. Cardinality(Active') \in Nat /\ Cardinality(Active) \in Nat
    <3>1. Active \subseteq Users /\ Active' \subseteq Users
      BY DEF Active
    <3>2. QED
      BY <3>1, Few
  <2>3. copy' = copy /\ copy.count \in Nat
    BY <1>1, Few DEF Part, Disconnect, Connect, TypeOK, Copy
  <2>4. QED
    BY <2>1, <2>2, <2>3 DEF CountInv, CopyTrue
<1>7. CountTruthful'
  <2>1. CASE job'[w].at = "count"
    BY <2>1 DEF CountTruthful, Counting
  <2>2. CASE was'.uncounted
    BY <2>2 DEF CountTruthful
  <2>3. CASE Disconnect(w) /\ part' = part
    <3>1. Counting' = Counting /\ row' = row /\ was' = was
      BY <1>1, <2>3 DEF Disconnect, Go, Counting, TypeOK, Job
    <3>2. QED
      BY <2>3, <3>1, SameActive DEF CountInv, CountTruthful
  <2>4. QED
    <3>1. Part(w) => job'[w].at = "count"
      BY <1>1 DEF Part, PC, Idle
    <3>2. Disconnect(w) => was'.uncounted \/ part' = part
      BY <1>1 DEF Disconnect, TypeOK, History
    <3>3. ASSUME NEW ok \in BOOLEAN, Connect(w, ok)
          PROVE  was'.uncounted \/ job'[w].at = "count"
      BY <1>1, <3>3 DEF Connect, GoOn, TypeOK, History, PC, Idle
    <3>4. QED
      BY <2>1, <2>2, <2>3, <3>1, <3>2, <3>3
<1>8. QED
  BY <1>5, <1>6, <1>7

LEMMA SeatStep ==
    ASSUME CountInv, NEW w \in Workers, Seat(w)
    PROVE  CountTruthful' /\ CopyTrue' /\ \A u \in Workers : Good(u)'
<1>. DEFINE u == job[w].user
<1>1. TypeOK /\ job[w] \in Job /\ Good(w) /\ u \in Users
  BY DEF CountInv, TypeOK, Job
<1>2. CASE job' = [job EXCEPT ![w] = Idle] /\ part' = part /\ copy' = copy
  <2>1. /\ job'[w].at = "idle"
        /\ \A v \in Workers \ {w} : job'[v] = job[v]
    BY <1>1, <1>2 DEF TypeOK, Idle
  <2>2. Plain(w)
    BY <1>2, <2>1 DEF Seat, Plain, CountPC, ReadPC
  <2>3. QED
    BY <2>2, PlainStep
<1>3. CASE /\ part' = [part EXCEPT ![u] = "connecting"] /\ copy' = copy
           /\ job' = [job EXCEPT ![w] = Seated(w)] /\ u \in Active
  <2>1. Active' = Active
    BY <1>1, <1>3 DEF Active, TypeOK
  <2>2. /\ job'[w].at = "connect" /\ job'[w].got.old = job[w].got.old
        /\ job'[w].got.max = job[w].got.max
        /\ \A v \in Workers \ {w} : job'[v] = job[v]
    BY <1>1, <1>3, Marked DEF TypeOK
  <2>3. CountTruthful'
    BY <2>2 DEF CountTruthful, Counting
  <2>4. CopyTrue'
    BY <1>3, <2>1 DEF CountInv, CopyTrue
  <2>5. Good(w)'
    <3>1. Cardinality(Active) \in Nat /\ job[w].got.count \in Nat /\ job[w].got.max \in Nat
      BY <1>1, Few, CopyNumbers DEF Active, Job
    <3>2. ~job[w].got.old => Cardinality(Active) <= job[w].got.max
      BY <1>1, <3>1 DEF Seat, Good, Read
    <3>3. QED
      BY <2>1, <2>2, <3>2 DEF Good, Counted, Read, Fits
  <2>6. \A v \in Workers \ {w} : Good(v)'
    BY <2>1, <2>2, SameGood
  <2>7. QED
    BY <2>3, <2>4, <2>5, <2>6
<1>4. CASE /\ part' = [part EXCEPT ![u] = "connecting"] /\ u \notin Active
           /\ copy' = [copy EXCEPT !.old = copy.status # "none"]
           /\ job' = [v \in Workers |-> IF v = w THEN Seated(w) ELSE Crowded(v)]
  <2>1. Active' = Active \cup {u}
    BY <1>1, <1>4 DEF Active, TypeOK
  <2>2. Cardinality(Active') = Cardinality(Active) + 1 /\ Cardinality(Active) \in Nat
    <3>1. IsFiniteSet(Active) /\ Cardinality(Active) \in Nat
      BY Few DEF Active
    <3>2. QED
      BY <1>4, <2>1, <3>1, FS_AddElement
  <2>3. /\ job'[w].at = "connect" /\ job'[w].got.old = job[w].got.old
        /\ job'[w].got.max = job[w].got.max
        /\ \A v \in Workers \ {w} : job'[v] = Crowded(v)
    BY <1>1, <1>4, Marked
  <2>4. CountTruthful'
    BY <2>3 DEF CountTruthful, Counting
  <2>5. CopyTrue'
    <3>1. copy'.status = copy.status /\ copy'.old = (copy.status # "none")
      BY <1>1, <1>4 DEF TypeOK, Copy
    <3>2. QED
      BY <3>1 DEF CopyTrue
  <2>6. Good(w)'
    <3>1. job[w].got.count \in Nat /\ job[w].got.max \in Nat
      BY <1>1, CopyNumbers DEF Job
    <3>2. ~job[w].got.old => Cardinality(Active') <= job[w].got.max
      BY <1>1, <2>2, <3>1 DEF Seat, Good, Read
    <3>3. QED
      BY <2>3, <3>2 DEF Good, Counted, Read, Fits
  <2>7. ASSUME NEW v \in Workers \ {w}
        PROVE  Good(v)'
    <3>1. /\ job'[v].at = job[v].at /\ job'[v].late = (job[v].at = "write")
          /\ job'[v].got.count = job[v].got.count /\ job'[v].got.max = job[v].got.max
          /\ job'[v].got.old = (job[v].at \in Joining)
      BY <1>1, <2>3, Marked
    <3>2. Good(v)
      BY DEF CountInv
    <3>3. Counted(v)'
      BY <3>1 DEF Counted
    <3>4. Read(v)' /\ Fits(v)'
      BY <3>1, <3>2 DEF Good, Read, Fits, Joining
    <3>5. QED
      BY <3>3, <3>4 DEF Good
  <2>8. QED
    BY <2>4, <2>5, <2>6, <2>7
<1>5. QED
  BY <1>2, <1>3, <1>4 DEF Seat, Leave

LEMMA WriteStep ==
    ASSUME CountInv, NEW w \in Workers, Count(w) \/ Write(w)
    PROVE  CountTruthful' /\ CopyTrue' /\ \A u \in Workers : Good(u)'
<1>1. TypeOK /\ job[w] \in Job /\ Good(w)
  BY DEF CountInv, TypeOK
<1>2. Active' = Active /\ copy' = copy
  BY SameActive DEF Count, Write
<1>3. CopyTrue'
  BY <1>2 DEF CountInv, CopyTrue
<1>4. \A u \in Workers \ {w} : Good(u)'
  <2>1. \A u \in Workers \ {w} : job'[u] = job[u]
    BY <1>1 DEF Count, Write, Leave, TypeOK
  <2>2. QED
    BY <1>2, <2>1, SameGood
<1>5. CASE Count(w)
  <2>1. job'[w].at = "write" /\ job'[w].n = Cardinality(Active)
    BY <1>1, <1>5 DEF Count, TypeOK, Job
  <2>2. Good(w)' /\ CountTruthful'
    BY <1>2, <2>1 DEF Good, Counted, Read, Fits, CountTruthful, Counting
  <2>3. QED
    BY <1>3, <1>4, <2>2
<1>6. CASE Write(w)
  <2>1. job'[w].at = "idle"
    BY <1>1, <1>6 DEF Write, Leave, TypeOK, Idle
  <2>2. Good(w)'
    BY <2>1, FreshGood DEF ReadPC
  <2>3. row'.count = job[w].n /\ was'.uncounted = job[w].late
    BY <1>1, <1>6 DEF Write, TypeOK, Row, History
  <2>4. CountTruthful'
    BY <1>1, <1>2, <1>6, <2>3 DEF Write, Good, Counted, CountTruthful
  <2>5. QED
    BY <1>3, <1>4, <2>2, <2>4
<1>7. QED
  BY <1>5, <1>6

LEMMA CrashStep ==
    ASSUME CountInv, Crash
    PROVE  CountTruthful' /\ CopyTrue' /\ \A u \in Workers : Good(u)'
<1>1. Active' = Active /\ \A u \in Workers : job'[u].at = "idle"
  BY SameActive DEF Crash, Idle
<1>2. \A u \in Workers : Good(u)'
  BY <1>1, FreshGood DEF ReadPC
<1>3. was'.uncounted = (was.uncounted \/ Counting # {})
  BY DEF CountInv, TypeOK, History, Crash
<1>4. CountTruthful' /\ CopyTrue'
  BY <1>1, <1>3 DEF Crash, CountInv, CountTruthful, CopyTrue
<1>5. QED
  BY <1>2, <1>4

LEMMA CountStep == CountInv /\ [Next]_vars => CountInv'
<1> SUFFICES ASSUME CountInv, [Next]_vars
             PROVE  CountTruthful' /\ CopyTrue' /\ \A u \in Workers : Good(u)'
  BY TypesStep DEF CountInv
<1>1. CASE \/ TeacherStart \/ TeacherEnd \/ TeacherUpdate
           \/ CopyExpires \/ RoomExpires \/ UNCHANGED vars
  BY <1>1, StillAction, StillStep
<1>2. CASE Crash
  BY <1>2, CrashStep
<1>3. ASSUME NEW w \in Workers, Arrive(w) \/ Serve(w)
      PROVE  CountTruthful' /\ CopyTrue' /\ \A u \in Workers : Good(u)'
  <2>1. CASE Seat(w)
    BY <2>1, SeatStep
  <2>2. CASE Count(w) \/ Write(w)
    BY <2>2, WriteStep
  <2>3. CASE Part(w) \/ Disconnect(w) \/ \E ok \in BOOLEAN : Connect(w, ok)
    BY <2>3, LeaveStep
  <2>4. CASE \/ Arrive(w) \/ Fetch(w) \/ Start(w) \/ Close(w) \/ Admit(w) \/ Find(w)
             \/ Update(w)
             \/ \E ok \in BOOLEAN : Look(w, ok) \/ Fill(w, ok) \/ Clear(w, ok)
                                    \/ End(w, ok) \/ Settings(w, ok)
    BY <2>4, PlainAction, PlainStep
  <2>5. QED
    BY <1>3, <2>1, <2>2, <2>3, <2>4 DEF Serve
<1>4. QED
  BY <1>1, <1>2, <1>3 DEF Next

LEMMA CountInit == Init => CountInv
<1> SUFFICES ASSUME Init
             PROVE  CountInv
  OBVIOUS
<1>1. TypeOK
  BY InitTypes
<1>2. was.uncounted /\ (copy.old \/ copy.status = "none")
  BY DEF Init, NoCopy
<1>3. \A w \in Workers : Good(w)
  BY DEF Init, Idle, Good, Counted, Read, Fits
<1>4. QED
  BY <1>1, <1>2, <1>3 DEF CountInv, CountTruthful, CopyTrue

\* The number of participants is right at rest, unless its last change went uncounted:
\* with CountInv, a count that has not been marked as late is the number of the active.
THEOREM CountIsTrue == Spec => []CountTruthful
<1>1. CountInv => CountTruthful
  BY DEF CountInv
<1>2. QED
  BY <1>1, CountInit, CountStep, PTL DEF Spec

\* No join takes the session over the capacity it was shown if the count that let it
\* in was true.
THEOREM CapacityKept == Spec => []CapacityHeld
<1>1. CountInv => CapacityHeld
  BY DEF CountInv, Good, Fits, CapacityHeld
<1>2. QED
  BY <1>1, CountInit, CountStep, PTL DEF Spec

-----------------------------------------------------------------------------
(* The end of the session. *)

EndPC == {"disconnect", "clear"}

\* A step that leaves the row's status and the copy's as they are, and an end going on.
LEMMA EndKept ==
    ASSUME EndIsSeen, row'.status = row.status, copy'.status = copy.status,
           was'.stuck = was.stuck,
           \A u \in Workers : job[u].at \in EndPC => job'[u].at \in EndPC
    PROVE  EndIsSeen'
  BY DEF EndIsSeen, SaysOpen, EndPC

\* The requests but w are where they were.
Alone(w) == \A u \in Workers \ {w} : job'[u].at = job[u].at

LEMMA AloneAction ==
    ASSUME TypeOK, NEW w \in Workers, Arrive(w) \/ Serve(w)
    PROVE  Alone(w)
<1>1. CASE \/ Arrive(w) \/ Fetch(w) \/ Start(w) \/ Close(w) \/ Admit(w) \/ Find(w)
           \/ Count(w) \/ Write(w) \/ Update(w)
  <2>1. \A u \in Workers \ {w} : job'[u] = job[u]
    BY <1>1 DEF Arrive, Receive, AskLeave, Fetch, Start, Close, Admit, Find, Count, Write,
                Update, Go, GoOn, Leave, TypeOK
  <2>2. QED
    BY <2>1 DEF Alone
<1>2. ASSUME NEW ok \in BOOLEAN,
             Look(w, ok) \/ Fill(w, ok) \/ Clear(w, ok) \/ End(w, ok) \/ Settings(w, ok)
      PROVE  Alone(w)
  <2>1. \A u \in Workers \ {w} : job'[u] = job[u]
    BY <1>2 DEF Look, Fill, Clear, End, Settings, Got, Go, GoOn, Leave, TypeOK
  <2>2. QED
    BY <2>1 DEF Alone
<1>3. CASE Part(w) \/ Disconnect(w) \/ Seat(w) \/ \E ok \in BOOLEAN : Connect(w, ok)
  <2>1. \A u \in Workers \ {w} :
          job'[u] = job[u] \/ job'[u] = Outdated(u) \/ job'[u] = Crowded(u)
    BY <1>3 DEF Part, Disconnect, Seat, Connect, Go, GoOn, Leave, TypeOK
  <2>2. QED
    BY <2>1, Marked DEF Alone
<1>4. QED
  BY <1>1, <1>2, <1>3 DEF Serve

EndInv == TypeOK /\ EndIsSeen

LEMMA EndStep == EndInv /\ [Next]_vars => EndInv'
<1> SUFFICES ASSUME EndInv, [Next]_vars
             PROVE  EndIsSeen'
  BY TypesStep DEF EndInv
<1>1. TypeOK /\ EndIsSeen
  BY DEF EndInv
<1>2. ASSUME NEW w \in Workers, Alone(w),
             row'.status = row.status, copy'.status = copy.status, was'.stuck = was.stuck,
             job[w].at \in EndPC => job'[w].at \in EndPC
      PROVE  EndIsSeen'
  BY <1>1, <1>2, EndKept DEF Alone
<1>3. ASSUME NEW w \in Workers, Arrive(w) \/ Serve(w)
      PROVE  EndIsSeen'
  <2>1. Alone(w)
    BY <1>1, <1>3, AloneAction
  <2>2. CASE \/ Arrive(w) \/ Fetch(w) \/ Admit(w) \/ Find(w) \/ Count(w) \/ Part(w)
             \/ Update(w) \/ \E ok \in BOOLEAN : Look(w, ok) \/ Settings(w, ok)
    <3>1. row'.status = row.status
      BY <1>1, <2>2 DEF Arrive, Receive, AskLeave, Fetch, Admit, Find, Count, Part, Look,
                        Update, Settings, TypeOK, Row
    <3>2. QED
      BY <1>2, <2>1, <2>2, <3>1
         DEF Arrive, Receive, AskLeave, Fetch, Admit, Find, Count, Part, Look, Update, Settings,
             EndPC
  <2>3. CASE Write(w) \/ Seat(w) \/ \E ok \in BOOLEAN : End(w, ok) \/ Connect(w, ok)
    <3>1. /\ row'.status = row.status /\ copy'.status = copy.status
          /\ was'.stuck = was.stuck /\ job[w].at \notin EndPC
      BY <1>1, <2>3 DEF Write, Seat, End, Connect, TypeOK, Row, Copy, History, EndPC
    <3>2. QED
      BY <1>2, <2>1, <3>1
  <2>4. CASE Disconnect(w)
    <3>1. job'[w].at = "clear" /\ was'.stuck = was.stuck
      BY <1>1, <2>4 DEF Disconnect, Go, TypeOK, Job, History
    <3>2. QED
      BY <1>2, <2>1, <2>4, <3>1 DEF Disconnect, EndPC
  <2>5. CASE Close(w)
    <3>1. job'[w].at = "disconnect"
      BY <1>1, <2>5 DEF Close, Go, TypeOK, Job
    <3>2. QED
      BY <3>1 DEF EndIsSeen
  <2>6. CASE Start(w)
    <3>1. CASE job[w].got.status = "scheduled"
      <4>1. row'.status = "live"
        BY <1>1, <2>6, <3>1 DEF Start, TypeOK, Row
      <4>2. QED
        BY <4>1 DEF EndIsSeen
    <3>2. CASE job[w].got.status # "scheduled"
      BY <1>2, <2>1, <2>6, <3>2 DEF Start, EndPC
    <3>3. QED
      BY <3>1, <3>2
  <2>7. ASSUME NEW ok \in BOOLEAN, Fill(w, ok)
        PROVE  EndIsSeen'
    <3>1. CASE ok
      <4>1. copy' = job[w].got /\ was'.stuck = (job[w].got.status # row.status) /\ row' = row
        BY <1>1, <2>7, <3>1 DEF Fill, TypeOK, History
      <4>2. QED
        BY <4>1 DEF EndIsSeen, SaysOpen
    <3>2. CASE ~ok
      BY <1>2, <2>1, <2>7, <3>2 DEF Fill, EndPC
    <3>3. QED
      BY <3>1, <3>2
  <2>8. ASSUME NEW ok \in BOOLEAN, Clear(w, ok)
        PROVE  EndIsSeen'
    <3>1. was'.stuck = (~ok /\ SaysOpen)
      BY <1>1, <2>8 DEF Clear, TypeOK, History
    <3>2. CASE ok
      BY <2>8, <3>2 DEF Clear, EndIsSeen, SaysOpen, NoCopy
    <3>3. CASE ~ok
      BY <2>8, <3>1, <3>3 DEF Clear, EndIsSeen, SaysOpen
    <3>4. QED
      BY <3>2, <3>3
  <2>9. QED
    BY <1>3, <2>2, <2>3, <2>4, <2>5, <2>6, <2>7, <2>8 DEF Serve
<1>4. CASE TeacherStart
  <2>1. row'.status = "live"
    BY <1>1, <1>4 DEF TeacherStart, TypeOK, Row
  <2>2. QED
    BY <2>1 DEF EndIsSeen
<1>5. CASE TeacherEnd
  <2>1. was'.stuck = SaysOpen /\ copy' = copy
    BY <1>1, <1>5 DEF TeacherEnd, TypeOK, History
  <2>2. QED
    BY <2>1 DEF EndIsSeen, SaysOpen
<1>6. CASE CopyExpires
  BY <1>6 DEF CopyExpires, EndIsSeen, SaysOpen, NoCopy
<1>7. CASE RoomExpires
  <2>1. was'.stuck = was.stuck
    BY <1>1, <1>7 DEF RoomExpires, TypeOK, History
  <2>2. QED
    BY <1>1, <1>7, <2>1, EndKept DEF RoomExpires
<1>8. CASE Crash
  <2>1. was'.stuck = (was.stuck \/ SaysOpen) /\ copy' = copy
    BY <1>1, <1>8 DEF Crash, TypeOK, History
  <2>2. QED
    BY <2>1 DEF EndIsSeen, SaysOpen
<1>9. CASE TeacherUpdate
  <2>1. row'.status = row.status
    BY <1>1, <1>9 DEF TeacherUpdate, TypeOK, Row
  <2>2. QED
    BY <1>1, <1>9, <2>1, EndKept DEF TeacherUpdate
<1>10. CASE UNCHANGED vars
  BY <1>1, <1>10, EndKept DEF vars
<1>11. QED
  BY <1>3, <1>4, <1>5, <1>6, <1>7, <1>8, <1>9, <1>10 DEF Next

\* After an end nobody is shown an open session, but for the cases the history names.
THEOREM EndReachesTheCopy == Spec => []EndIsSeen
<1>1. Init => EndInv
  BY InitTypes DEF Init, EndInv, EndIsSeen
<1>2. EndInv => EndIsSeen
  BY DEF EndInv
<1>3. QED
  BY <1>1, <1>2, EndStep, PTL DEF Spec

-----------------------------------------------------------------------------
(* The room. *)

RoomInv == TypeOK /\ NotBegun /\ LiveHasRoom

\* Nobody who is asked about has seen the session live before it has been.
Unseen(status) == status \in {"none", "scheduled"}

\* A step that takes no room away, changes no status and closes nothing; what it
\* reads and copies is a status that was there.
LEMMA RoomKept ==
    ASSUME RoomInv, row'.status = row.status,
           room' # {} \/ room' = room, was'.roomless = was.roomless,
           copy'.status \in {copy.status, "none"}
             \/ \E u \in Workers : copy'.status = job[u].got.status,
           \A u \in Workers :
             /\ job'[u].at = "close" <=> job[u].at = "close"
             /\ job'[u].got.status \in {job[u].got.status, copy.status, row.status, "none"}
    PROVE  NotBegun' /\ LiveHasRoom'
<1>1. NotBegun'
  <2> SUFFICES ASSUME row.status = "scheduled"
               PROVE  /\ Unseen(copy'.status)
                      /\ \A u \in Workers : Unseen(job'[u].got.status) /\ job'[u].at # "close"
                      /\ room' # {} \/ was'.roomless
    BY DEF NotBegun, Unseen
  <2>1. /\ Unseen(copy.status)
        /\ \A u \in Workers : Unseen(job[u].got.status) /\ job[u].at # "close"
        /\ room # {} \/ was.roomless
    BY DEF RoomInv, NotBegun, Unseen
  <2>2. QED
    BY <2>1 DEF Unseen
<1>2. LiveHasRoom'
  BY DEF RoomInv, LiveHasRoom
<1>3. QED
  BY <1>1, <1>2

LEMMA RoomServe ==
    ASSUME RoomInv, NEW w \in Workers, Arrive(w) \/ Serve(w)
    PROVE  NotBegun' /\ LiveHasRoom'
<1>1. TypeOK /\ NotBegun /\ LiveHasRoom /\ job[w] \in Job /\ job[w].got \in Copy
  BY DEF RoomInv, TypeOK, Job
<1>2. CASE \/ Arrive(w) \/ Fetch(w) \/ Admit(w) \/ Find(w) \/ Count(w)
  <2>1. \A u \in Workers \ {w} : job'[u] = job[u]
    BY <1>1, <1>2 DEF Arrive, Receive, AskLeave, Fetch, Admit, Find, Count, Go, Leave, TypeOK
  <2>2. /\ job[w].at # "close" /\ job'[w].at # "close"
        /\ job'[w].got.status \in {job[w].got.status, row.status, "none"}
    <3>1. CASE Arrive(w)
      <4>1. ASSUME NEW caller, NEW u, Receive(w, caller, u)
            PROVE  job[w].at = "idle" /\ job'[w].at = "look" /\ job'[w].got.status = "none"
        BY <1>1, <4>1 DEF Receive, TypeOK, Idle, NoCopy
      <4>2. ASSUME NEW u, AskLeave(w, u)
            PROVE  job[w].at = "idle" /\ job'[w].at = "leave" /\ job'[w].got.status = "none"
        BY <1>1, <4>2 DEF AskLeave, TypeOK, Idle, NoCopy
      <4>3. QED
        BY <3>1, <4>1, <4>2 DEF Arrive
    <3>2. CASE Fetch(w)
      BY <1>1, <3>2 DEF Fetch, TypeOK, Job
    <3>3. CASE Admit(w) \/ Find(w) \/ Count(w)
      BY <1>1, <3>3 DEF Admit, Find, Count, Go, Leave, TypeOK, Job, Idle, NoCopy
    <3>4. QED
      BY <1>2, <3>1, <3>2, <3>3
  <2>3. UNCHANGED <<row, copy, room, was>>
    BY <1>2 DEF Arrive, Receive, AskLeave, Fetch, Admit, Find, Count
  <2>4. QED
    BY <2>1, <2>2, <2>3, RoomKept
<1>3. ASSUME NEW ok \in BOOLEAN, Look(w, ok)
      PROVE  NotBegun' /\ LiveHasRoom'
  <2>1. \A u \in Workers \ {w} : job'[u] = job[u]
    BY <1>1, <1>3 DEF Look, Got, Go, Leave, TypeOK
  <2>2. /\ job[w].at # "close" /\ job'[w].at # "close"
        /\ job'[w].got.status \in {job[w].got.status, copy.status, "none"}
    BY <1>1, <1>3, NeededFacts DEF Look, Got, Go, Leave, TypeOK, Job, Idle, NoCopy, Callers
  <2>3. QED
    BY <1>3, <2>1, <2>2, RoomKept DEF Look
<1>4. ASSUME NEW ok \in BOOLEAN, Fill(w, ok)
      PROVE  NotBegun' /\ LiveHasRoom'
  <2>1. \A u \in Workers \ {w} : job'[u] = job[u]
    BY <1>1, <1>4 DEF Fill, Got, Leave, TypeOK
  <2>2. /\ job[w].at # "close" /\ job'[w].at # "close"
        /\ job'[w].got.status \in {job[w].got.status, "none"}
    BY <1>1, <1>4, NeededFacts DEF Fill, Got, Leave, TypeOK, Job, Idle, NoCopy, Callers
  <2>3. was'.roomless = was.roomless /\ (copy' = copy \/ copy' = job[w].got)
    BY <1>1, <1>4 DEF Fill, TypeOK, History
  <2>4. QED
    BY <1>4, <2>1, <2>2, <2>3, RoomKept DEF Fill
<1>5. ASSUME Update(w) \/ \E ok \in BOOLEAN : Clear(w, ok) \/ Settings(w, ok)
      PROVE  NotBegun' /\ LiveHasRoom'
  <2>1. \A u \in Workers \ {w} : job'[u] = job[u]
    BY <1>1, <1>5 DEF Clear, Update, Settings, GoOn, TypeOK
  <2>2. /\ job[w].at # "close" /\ job'[w].at # "close"
        /\ job'[w].got.status \in {job[w].got.status, "none"}
    BY <1>1, <1>5 DEF Clear, Update, Settings, GoOn, TypeOK, Job, Idle, NoCopy
  <2>3. /\ was'.roomless = was.roomless /\ copy'.status \in {copy.status, "none"}
        /\ row'.status = row.status /\ (room' # {} \/ room' = room)
    BY <1>1, <1>5 DEF Clear, Update, Settings, TypeOK, Row, History, NoCopy
  <2>4. QED
    BY <2>1, <2>2, <2>3, RoomKept
<1>6. CASE Write(w) \/ Part(w) \/ Disconnect(w) \/ Seat(w) \/ \E ok \in BOOLEAN : Connect(w, ok)
  <2>1. \A u \in Workers \ {w} :
          job'[u] = job[u] \/ job'[u] = Outdated(u) \/ job'[u] = Crowded(u)
    BY <1>1, <1>6 DEF Write, Part, Disconnect, Seat, Connect, Go, GoOn, Leave, TypeOK
  <2>2. \A u \in Workers \ {w} :
          job'[u].at = job[u].at /\ job'[u].got.status = job[u].got.status
    BY <1>1, <2>1, Marked
  <2>3. /\ job[w].at # "close" /\ job'[w].at # "close"
        /\ job'[w].got.status \in {job[w].got.status, "none"}
    <3>1. CASE Seat(w)
      <4>1. job'[w] = Idle \/ job'[w] = Seated(w)
        BY <1>1, <3>1 DEF Seat, Leave, TypeOK
      <4>2. job[w].at = "seat"
        BY <3>1 DEF Seat
      <4>3. QED
        BY <1>1, <4>1, <4>2, Marked DEF Idle, NoCopy
    <3>2. CASE Write(w) \/ Part(w) \/ Disconnect(w) \/ \E ok \in BOOLEAN : Connect(w, ok)
      BY <1>1, <3>2 DEF Write, Part, Disconnect, Connect, Go, GoOn, Leave, TypeOK,
                        Job, Idle, NoCopy
    <3>3. QED
      BY <1>6, <3>1, <3>2
  <2>4. /\ row'.status = row.status /\ copy'.status = copy.status /\ room' = room
        /\ was'.roomless = was.roomless
    BY <1>1, <1>6 DEF Write, Part, Disconnect, Seat, Connect, TypeOK, Row, Copy, History
  <2>5. QED
    BY <2>2, <2>3, <2>4, RoomKept
<1>7. CASE Start(w)
  <2>1. CASE job[w].got.status = "scheduled"
    <3>1. /\ row'.status = "live" /\ room' = room
          /\ was'.roomless = (was.roomless \/ (room = {} /\ job[w].got.status # row.status))
      BY <1>1, <1>7, <2>1 DEF Start, TypeOK, Row, History
    <3>2. room' # {} \/ was'.roomless
      BY <1>1, <2>1, <3>1 DEF NotBegun
    <3>3. QED
      BY <3>1, <3>2 DEF NotBegun, LiveHasRoom
  <2>2. CASE job[w].got.status # "scheduled"
    <3>1. /\ UNCHANGED <<row, copy, room, was>>
          /\ job[w].at # "close" /\ job'[w].at # "close" /\ job'[w].got.status = "none"
          /\ \A u \in Workers \ {w} : job'[u] = job[u]
      BY <1>1, <1>7, <2>2 DEF Start, Leave, TypeOK, Idle, NoCopy
    <3>2. QED
      BY <3>1, RoomKept
  <2>3. QED
    BY <2>1, <2>2
<1>8. CASE Close(w)
  <2>1. row'.status = "completed"
    BY <1>1, <1>8 DEF Close, TypeOK, Row
  <2>2. QED
    BY <2>1 DEF NotBegun, LiveHasRoom
<1>9. ASSUME NEW ok \in BOOLEAN, End(w, ok)
      PROVE  NotBegun' /\ LiveHasRoom'
  <2>1. \A u \in Workers \ {w} : job'[u] = job[u]
    BY <1>1, <1>9 DEF End, GoOn, Leave, TypeOK
  <2>2. CASE job[w].got.status = "live"
    <3>1. row'.status # "scheduled" /\ row' = row
      BY <1>1, <1>9, <2>2 DEF End, NotBegun
    <3>2. CASE job[w].cached
      <4>1. /\ was'.roomless = (was.roomless \/ room' = {})
            /\ job[w].at # "close" /\ job'[w].at # "close"
        BY <1>1, <1>9, <2>2, <3>2 DEF End, Leave, TypeOK, History, Idle
      <4>2. QED
        BY <3>1, <4>1 DEF NotBegun, LiveHasRoom
    <3>3. CASE ~job[w].cached
      <4>1. job'[w].at = "close"
        BY <1>1, <1>9, <2>2, <3>3 DEF End, GoOn, TypeOK, Idle
      <4>2. QED
        BY <3>1, <4>1 DEF NotBegun, LiveHasRoom
    <3>4. QED
      BY <3>2, <3>3
  <2>3. CASE job[w].got.status # "live"
    <3>1. /\ UNCHANGED <<row, copy, room, was>>
          /\ job[w].at # "close" /\ job'[w].at # "close" /\ job'[w].got.status = "none"
      BY <1>1, <1>9, <2>3 DEF End, Leave, TypeOK, Idle, NoCopy
    <3>2. QED
      BY <2>1, <3>1, RoomKept
  <2>4. QED
    BY <2>2, <2>3
<1>10. QED
  BY <1>2, <1>3, <1>4, <1>5, <1>6, <1>7, <1>8, <1>9 DEF Serve

LEMMA RoomStep == RoomInv /\ [Next]_vars => RoomInv'
<1> SUFFICES ASSUME RoomInv, [Next]_vars
             PROVE  NotBegun' /\ LiveHasRoom'
  BY TypesStep DEF RoomInv
<1>1. TypeOK /\ NotBegun /\ LiveHasRoom
  BY DEF RoomInv
<1>2. CASE TeacherStart
  <2>1. /\ row'.status = "live" /\ room' = room /\ job' = job
        /\ was'.roomless = (was.roomless \/ (room = {} /\ row.status = "completed"))
    BY <1>1, <1>2 DEF TeacherStart, TypeOK, Row, History
  <2>2. row.status \in Status
    BY <1>1 DEF TypeOK, Row
  <2>3. (\A u \in Workers : job[u].at # "close") => room' # {} \/ was'.roomless
    BY <1>1, <2>1, <2>2 DEF NotBegun, LiveHasRoom, Status
  <2>4. QED
    BY <2>1, <2>3 DEF NotBegun, LiveHasRoom
<1>3. CASE TeacherEnd
  <2>1. row'.status = "completed"
    BY <1>1, <1>3 DEF TeacherEnd, TypeOK, Row
  <2>2. QED
    BY <2>1 DEF NotBegun, LiveHasRoom
<1>4. CASE CopyExpires
  <2>1. was'.roomless = was.roomless /\ copy'.status = "none"
    BY <1>1, <1>4 DEF CopyExpires, TypeOK, History, NoCopy
  <2>2. QED
    BY <1>4, <2>1, RoomKept DEF CopyExpires
<1>5. CASE RoomExpires
  <2>1. was'.roomless = (was.roomless \/ room' = {}) /\ row' = row /\ job' = job /\ copy' = copy
    BY <1>1, <1>5 DEF RoomExpires, TypeOK, History
  <2>2. QED
    BY <1>1, <2>1 DEF NotBegun, LiveHasRoom
<1>6. CASE Crash
  <2>1. /\ was'.roomless = (was.roomless \/ room' = {}) /\ row' = row /\ copy' = copy
        /\ \A u \in Workers : job'[u].at = "idle" /\ job'[u].got.status = "none"
    BY <1>1, <1>6 DEF Crash, TypeOK, History, Idle, NoCopy
  <2>2. QED
    BY <1>1, <2>1 DEF NotBegun, LiveHasRoom
<1>7. CASE TeacherUpdate
  <2>1. row'.status = row.status
    BY <1>1, <1>7 DEF TeacherUpdate, TypeOK, Row
  <2>2. QED
    BY <1>7, <2>1, RoomKept DEF TeacherUpdate
<1>8. CASE UNCHANGED vars
  BY <1>8, RoomKept DEF vars
<1>9. QED
  BY <1>2, <1>3, <1>4, <1>5, <1>6, <1>7, <1>8, RoomServe DEF Next

\* A live session has its room, but for the cases the history names: before the first
\* start nobody can have closed it.
THEOREM LiveRoomIsThere == Spec => []LiveHasRoom
<1>1. Init => RoomInv
  <2> SUFFICES ASSUME Init
               PROVE  NotBegun /\ LiveHasRoom
    BY InitTypes DEF RoomInv
  <2>1. /\ row.status = "scheduled" /\ copy.status \in {"none", "scheduled"}
        /\ \A w \in Workers : job[w].got.status = "none" /\ job[w].at = "idle"
        /\ room # {} \/ was.roomless
    <3>1. row.status = "scheduled" /\ copy.status \in {"none", "scheduled"}
      BY DEF Init, NoCopy
    <3>2. \A w \in Workers : job[w].got.status = "none" /\ job[w].at = "idle"
      BY DEF Init, Idle, NoCopy
    <3>3. room # {} \/ was.roomless
      BY DEF Init
    <3>4. QED
      BY <3>1, <3>2, <3>3
  <2>2. QED
    BY <2>1 DEF NotBegun, LiveHasRoom
<1>2. RoomInv => LiveHasRoom
  BY DEF RoomInv
<1>3. QED
  BY <1>1, <1>2, RoomStep, PTL DEF Spec
=============================================================================
