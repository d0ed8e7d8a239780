------------------------ MODULE AssessmentRows_proofs ------------------------
(* Theorems about the rows that AssessmentSession leaves behind: its grades,  *)
(* its active sessions and the attempts handed in, for any number of requests *)
(* and attempts and any setting of the assessment.                            *)
EXTENDS AssessmentSession_proofs

-----------------------------------------------------------------------------
(* One step, seen from one request.                                           *)

Acts(w) == Start(w) \/ Receive(w) \/ Lookup(w) \/ Handle(w)

LEMMA Turn ==
    ASSUME Typing, [Next]_vars, NEW v \in Workers
    PROVE  Acts(v) \/ Stays(v) \/ Ends(v)
<1>1. ASSUME NEW w \in Workers, Acts(w), w # v
      PROVE  Stays(v)
  BY <1>1, OthersStay DEF Acts, Others
<1>2. CASE Cron \/ Tick \/ (\E i \in Ids : Evict(i)) \/ UNCHANGED vars
  BY <1>2 DEF Cron, CronQuery, CronTimeOut, CronExpire, Tick, Evict, locals, vars, Stays
<1>3. CASE StartUnavailable
  BY <1>3 DEF StartUnavailable, Ends
<1>. QED  BY <1>1, <1>2, <1>3 DEF Next, Acts

\* Where getSessionByToken leaves a request.
LEMMA Reading ==
    ASSUME Typing, NEW w \in Workers, Receive(w) \/ Lookup(w)
    PROVE  \/ Ends(w)
           \/ pc'[w] \in {"find", "fill"}
           \/ /\ job'[w].op \in TokenOps /\ ~Refused(job'[w].op, copy'[w])
              /\ \/ pc'[w] = "expire" /\ FindsExpired(job'[w].op, copy'[w])
                 \/ pc'[w] = FirstWrite[job'[w].op] /\ ~FindsExpired(job'[w].op, copy'[w])
<1>1. CASE Receive(w)
  <2>1. PICK j \in Job : /\ j.op \in TokenOps
                         /\ \/ Dispatch(w, j, cache[j.id])
                            \/ Continue(w, j, NoRow, "find")
    BY <1>1, Received
  <2>2. CASE Continue(w, j, NoRow, "find")
    BY <2>2, Moves
  <2>3. CASE Dispatch(w, j, cache[j.id])
    BY <2>1, <2>3, Dispatched
  <2>. QED  BY <2>1, <2>2, <2>3
<1>2. CASE Find(w)
  BY <1>2, Moves DEF Find
<1>3. CASE Fill(w)
  <2>1. job[w] \in Job /\ job[w].op \in TokenOps
    BY <1>3 DEF Fill, Typing, TypeOK, JobOK, StartLabels
  <2>. QED  BY <1>3, <2>1, Dispatched DEF Fill
<1>. QED  BY <1>1, <1>2, <1>3 DEF Lookup

\* No lookup leads to the labels past the first write.
LEMMA ReadingLabels ==
    ASSUME Typing, NEW w \in Workers, Receive(w) \/ Lookup(w)
    PROVE  /\ pc'[w] \in {"idle", "find", "fill", "touch", "write", "complete", "violate",
                          "pause", "resume", "expire"}
           /\ pc'[w] = "expire" => job'[w].op \in ChecksExpiry
           /\ pc'[w] = "pause" => AllowPause
           /\ pc'[w] = "resume" => copy'[w].status = "paused"
  BY Reading DEF Ends, FirstWrite, TokenOps, FindsExpired, Refused

\* Where a step of a handler leads: to the end of the request, or on with it.
LEMMA HandleLabels ==
    ASSUME Typing, NEW w \in Workers, Handle(w)
    PROVE  \/ Ends(w)
           \/ /\ job'[w] = job[w] /\ copy'[w] = copy[w]
              /\ \/ WriteAnswer(w) /\ pc'[w] = "save"
                 \/ Complete(w) /\ pc'[w] = "handin"
                 \/ HandIn(w) /\ pc'[w] = "clear"
                 \/ pc[w] = "clear" /\ job[w].op = "submit" /\ pc'[w] = "gradeCheck"
                 \/ GradeCheck(w) /\ pc'[w] = "gradeInsert" /\ ~HasGrade(job[w].id)
                 \/ GradeCheck(w) /\ pc'[w] = "gradeFail"
                 \/ GradeInsert(w) /\ pc'[w] = "gradeMark"
                 \/ pc[w] = "expire" /\ pc'[w] \in {"timeout", "clear"}
                 \/ pc[w] = "timeout" /\ pc'[w] = "clear"
<1>1. CASE Touch(w) \/ SaveAnswer(w) \/ GradeMark(w) \/ GradeFail(w)
  BY <1>1, Moves DEF Touch, SaveAnswer, GradeMark, GradeFail
<1>2. CASE Violate(w) \/ Pause(w) \/ Resume(w)
  BY <1>2, Moves DEF Violate, Pause, Resume
<1>3. CASE WriteAnswer(w) \/ Complete(w) \/ HandIn(w)
  BY <1>3, Moves DEF WriteAnswer, Complete, HandIn
<1>4. CASE Clear(w)
  BY <1>4, Moves DEF Clear
<1>5. CASE GradeCheck(w) \/ GradeInsert(w)
  BY <1>5, Moves DEF GradeCheck, GradeInsert
<1>6. CASE Expire(w) \/ TimeOut(w)
  BY <1>6, Moves DEF Expire, TimeOut
<1>. QED  BY <1>1, <1>2, <1>3, <1>4, <1>5, <1>6 DEF Handle

-----------------------------------------------------------------------------
(* Grades.  createGrade finds no grade before it inserts one, so the grades   *)
(* of an attempt and the requests about to insert one never exceed the        *)
(* requests there are.                                                        *)

Inserting(i) == {w \in Workers : pc[w] = "gradeInsert" /\ job[w].id = i}

GradesCounted ==
    \A i \in Ids : grades[i] + Cardinality(Inserting(i)) <= Cardinality(Workers)

LEMMA InsertingFinite ==
    ASSUME NEW i
    PROVE  /\ IsFiniteSet(Inserting(i)) /\ Cardinality(Inserting(i)) \in Nat
           /\ Cardinality(Inserting(i)) <= Cardinality(Workers)
           /\ Cardinality(Workers) \in Nat
<1>1. Inserting(i) \subseteq Workers
  BY DEF Inserting
<1>. QED  BY <1>1, WorkersAssumption, FS_Subset, FS_CardinalityType

LEMMA InsertingStep ==
    ASSUME Typing, [Next]_vars, NEW v \in Workers, pc'[v] = "gradeInsert"
    PROVE  \/ pc[v] = "gradeInsert" /\ job'[v] = job[v] /\ ~GradeInsert(v)
           \/ GradeCheck(v) /\ job'[v] = job[v] /\ ~HasGrade(job[v].id)
<1>1. CASE Start(v)
  BY <1>1, Moves DEF Start, StartLimit, StartTerminate, StartCount, StartAttempt, StartSession,
                     StartStore, Ends, Typing, TypeOK
<1>2. CASE Receive(v) \/ Lookup(v)
  BY <1>2, ReadingLabels
<1>3. CASE Handle(v)
  BY <1>3, HandleLabels DEF Ends
<1>4. CASE Stays(v) \/ Ends(v)
  <2>1. pc[v] = "gradeInsert" /\ job'[v] = job[v]
    BY <1>4 DEF Stays, Ends
  <2>2. ~GradeInsert(v)
    BY Moves DEF GradeInsert
  <2>. QED  BY <2>1, <2>2
<1>. QED  BY <1>1, <1>2, <1>3, <1>4, Turn DEF Acts

LEMMA GradesStep ==
    ASSUME [Next]_vars
    PROVE  UNCHANGED grades \/ \E w \in Workers : GradeInsert(w)
  BY DEF Next, Start, StartLimit, StartTerminate, StartCount, StartAttempt, StartSession,
         StartStore, Receive, Lookup, Find, Fill, Handle, Touch, WriteAnswer, SaveAnswer,
         Complete, HandIn, Clear, GradeCheck, GradeMark, GradeFail, Violate, Pause, Resume,
         Expire, TimeOut, Cron, CronQuery, CronTimeOut, CronExpire, StartUnavailable, Tick,
         Evict, rows, vars

LEMMA GradesNext ==
    ASSUME Typing, GradesCounted, [Next]_vars
    PROVE  GradesCounted'
<1>. SUFFICES ASSUME NEW i \in Ids
              PROVE  grades'[i] + Cardinality(Inserting(i)') <= Cardinality(Workers)
  BY DEF GradesCounted
<1>. /\ grades \in [Ids -> Nat] /\ pc \in [Workers -> PC]
     /\ grades[i] + Cardinality(Inserting(i)) <= Cardinality(Workers)
  BY DEF Typing, TypeOK, GradesCounted
<1>1. Inserting(i)' \subseteq Workers
  BY DEF Inserting
<1>2. /\ IsFiniteSet(Inserting(i)') /\ Cardinality(Inserting(i)') \in Nat
      /\ Cardinality(Inserting(i)') <= Cardinality(Workers) /\ Cardinality(Workers) \in Nat
  BY <1>1, WorkersAssumption, FS_Subset, FS_CardinalityType
<1>3. IsFiniteSet(Inserting(i)) /\ Cardinality(Inserting(i)) \in Nat
  BY InsertingFinite
<1>4. ASSUME NEW w \in Workers, GradeInsert(w), job[w].id = i
      PROVE  grades'[i] + Cardinality(Inserting(i)') <= Cardinality(Workers)
  <2>1. w \in Inserting(i) /\ w \notin Inserting(i)'
    BY <1>4, Moves DEF GradeInsert, Inserting
  <2>2. Inserting(i)' \subseteq Inserting(i) \ {w}
    <3>1. ASSUME NEW v \in Inserting(i)' PROVE v \in Inserting(i)
      <4>1. v \in Workers /\ v # w /\ pc'[v] = "gradeInsert" /\ job'[v].id = i
        BY <2>1, <3>1 DEF Inserting
      <4>2. Stays(v)
        BY <1>4, <4>1, OthersStay DEF Handle, Others
      <4>. QED  BY <4>1, <4>2 DEF Stays, Inserting
    <3>. QED  BY <2>1, <3>1
  <2>3. Cardinality(Inserting(i) \ {w}) = Cardinality(Inserting(i)) - 1
    BY <1>3, <2>1, FS_RemoveElement
  <2>4. IsFiniteSet(Inserting(i) \ {w})
    BY <1>3, FS_Subset
  <2>5. Cardinality(Inserting(i)') <= Cardinality(Inserting(i) \ {w})
    BY <2>2, <2>4, FS_Subset
  <2>6. grades'[i] = grades[i] + 1
    BY <1>4 DEF GradeInsert
  <2>. QED  BY <1>2, <1>3, <2>3, <2>5, <2>6
<1>5. CASE grades'[i] = grades[i]
  <2>1. CASE Inserting(i)' \subseteq Inserting(i)
    <3>1. Cardinality(Inserting(i)') <= Cardinality(Inserting(i))
      BY <1>3, <2>1, FS_Subset
    <3>. QED  BY <1>2, <1>3, <1>5, <3>1
  <2>2. CASE ~(Inserting(i)' \subseteq Inserting(i))
    <3>1. grades[i] = 0
      BY <2>2, InsertingStep DEF Inserting, HasGrade
    <3>. QED  BY <1>2, <1>5, <3>1
  <2>. QED  BY <2>1, <2>2
<1>6. ASSUME NEW w \in Workers, GradeInsert(w), job[w].id # i
      PROVE  grades'[i] = grades[i]
  BY <1>6 DEF GradeInsert
<1>. QED  BY <1>4, <1>5, <1>6, GradesStep

\* createGrade inserts no more grades for an attempt than there are requests in
\* flight, however often submissions overlap, crash and are sent again.
THEOREM GradesAreFew == Spec => []GradesBounded
<1>1. Init => GradesCounted
  <2>. SUFFICES ASSUME Init, NEW i \in Ids
                PROVE  grades[i] + Cardinality(Inserting(i)) <= Cardinality(Workers)
    BY DEF GradesCounted
  <2>1. grades[i] = 0
    BY DEF Init
  <2>. QED  BY <2>1, InsertingFinite
<1>2. Typing /\ GradesCounted /\ [Next]_vars => (Typing /\ GradesCounted)'
  BY TypingNext, GradesNext
<1>3. Typing /\ GradesCounted => GradesBounded
  BY InsertingFinite DEF GradesCounted, GradesBounded, Typing, TypeOK
<1>. QED  BY <1>1, <1>2, <1>3, TypingInit, PTL DEF Spec
-----------------------------------------------------------------------------
(* Handed in before it is graded.  Only a submission goes on to the grading,  *)
(* after it has handed the attempt in; an expiry that is noticed on the way   *)
(* belongs to another kind of request.                                        *)

GradeLabels == {"gradeCheck", "gradeInsert", "gradeMark", "gradeFail"}
HandedIn(i) == attempt[i].status \in {"submitted", "timed_out"}
OnGrade(w) == pc[w] \in GradeLabels \/ (pc[w] = "clear" /\ job[w].op = "submit")

GradedLate ==
    /\ \A w \in Workers :
          /\ OnGrade(w) => HandedIn(job[w].id)
          /\ pc[w] \in {"expire", "timeout"} => job[w].op # "submit"
          /\ pc[w] = "gradeMark" => grades[job[w].id] > 0
    /\ \A i \in Ids :
          /\ grades[i] > 0 => HandedIn(i)
          /\ attempt[i].grading = "graded" => grades[i] > 0

LEMMA ClosingRow ==
    ASSUME Typing, NEW i \in Ids, NEW st \in AttemptStatus, NEW a,
           attempt' = [attempt EXCEPT ![i].status = st, ![i].answers = a]
    PROVE  /\ attempt'[i].status = st /\ attempt'[i].answers = a
           /\ \A k \in Ids : /\ attempt'[k].grading = attempt[k].grading
                             /\ k # i => attempt'[k] = attempt[k]
  BY DEF Typing, TypeOK, Attempt

LEMMA MarkingRow ==
    ASSUME Typing, NEW i \in Ids, NEW g, attempt' = [attempt EXCEPT ![i].grading = g]
    PROVE  /\ attempt'[i].grading = g
           /\ \A k \in Ids : /\ attempt'[k].status = attempt[k].status
                             /\ attempt'[k].answers = attempt[k].answers
                             /\ k # i => attempt'[k] = attempt[k]
  BY DEF Typing, TypeOK, Attempt

\* What a step does to the attempts.
LEMMA AttemptRows ==
    ASSUME Typing, Present, [Next]_vars
    PROVE  \/ UNCHANGED attempt
           \/ \E w \in Workers : StartAttempt(w)
           \/ \E w \in Workers : /\ HandIn(w) /\ job[w].id \in Ids
                                 /\ attempt' = [attempt EXCEPT ![job[w].id].status = "submitted",
                                                               ![job[w].id].answers = copy[w].answers]
           \/ \E i \in Ids, a \in SUBSET Questions :
                 /\ \/ CronTimeOut /\ i = cron.at
                    \/ \E w \in Workers : TimeOut(w) /\ i = job[w].id /\ a = copy[w].answers
                 /\ TimedOut(i, a)
           \/ \E w \in Workers, g \in {"graded", "in_progress"} :
                 /\ job[w].id \in Ids
                 /\ \/ GradeMark(w) /\ g = "graded"
                    \/ GradeFail(w) /\ g = "in_progress"
                 /\ attempt' = [attempt EXCEPT ![job[w].id].grading = g]
<1>1. ASSUME NEW w \in Workers, HandIn(w) \/ TimeOut(w) \/ GradeMark(w) \/ GradeFail(w)
      PROVE  job[w].id \in Ids /\ copy[w].answers \in SUBSET Questions
  BY <1>1, Named DEF HandIn, TimeOut, GradeMark, GradeFail, StartLabels, Typing, TypeOK, Row
<1>2. CASE CronTimeOut
  <2>1. cron.at \in Ids
    BY <1>2 DEF CronTimeOut, Typing, CronOK
  <2>2. cron.read[cron.at].answers \in SUBSET Questions
    BY <2>1 DEF Typing, TypeOK, Row
  <2>. QED  BY <1>2, <2>1, <2>2 DEF CronTimeOut
<1>3. ASSUME NEW w \in Workers, HandIn(w)
      PROVE  /\ HandIn(w) /\ job[w].id \in Ids
             /\ attempt' = [attempt EXCEPT ![job[w].id].status = "submitted",
                                           ![job[w].id].answers = copy[w].answers]
  BY <1>1, <1>3 DEF HandIn
<1>4. ASSUME NEW w \in Workers, TimeOut(w)
      PROVE  TimedOut(job[w].id, copy[w].answers)
  BY <1>4 DEF TimeOut
<1>5. ASSUME NEW w \in Workers, GradeMark(w)
      PROVE  attempt' = [attempt EXCEPT ![job[w].id].grading = "graded"]
  BY <1>5 DEF GradeMark
<1>6. ASSUME NEW w \in Workers, GradeFail(w)
      PROVE  attempt' = [attempt EXCEPT ![job[w].id].grading = "in_progress"]
  BY <1>6 DEF GradeFail
<1>7. ASSUME NEW w \in Workers, Start(w), ~StartAttempt(w)
      PROVE  UNCHANGED attempt
  BY <1>7 DEF Start, StartLimit, StartTerminate, StartCount, StartSession, StartStore, rows
<1>8. ASSUME NEW w \in Workers, Receive(w) \/ Lookup(w)
      PROVE  UNCHANGED attempt
  BY <1>8 DEF Receive, Lookup, Find, Fill, rows
<1>9. ASSUME NEW w \in Workers, Handle(w), ~HandIn(w), ~TimeOut(w), ~GradeMark(w), ~GradeFail(w)
      PROVE  UNCHANGED attempt
  BY <1>9 DEF Handle, Touch, WriteAnswer, SaveAnswer, Complete, Clear, GradeCheck,
              GradeInsert, Violate, Pause, Resume, Expire, rows
<1>10. ASSUME Cron, ~CronTimeOut
       PROVE  UNCHANGED attempt
  BY <1>10 DEF Cron, CronQuery, CronExpire, rows
<1>11. ASSUME StartUnavailable \/ Tick \/ (\E i \in Ids : Evict(i)) \/ UNCHANGED vars
       PROVE  UNCHANGED attempt
  BY <1>11 DEF StartUnavailable, Tick, Evict, rows, vars
<1>. QED  BY <1>1, <1>2, <1>3, <1>4, <1>5, <1>6, <1>7, <1>8, <1>9, <1>10, <1>11 DEF Next

LEMMA HandedInStays ==
    ASSUME Typing, Present, [Next]_vars, NEW i \in Ids, HandedIn(i)
    PROVE  HandedIn(i)'
<1>1. ASSUME NEW w \in Workers, StartAttempt(w)
      PROVE  HandedIn(i)'
  BY <1>1, NewAttempt DEF HandedIn, Attempts
<1>2. ASSUME NEW k \in Ids, NEW a, NEW st \in {"submitted", "timed_out"},
             attempt' = [attempt EXCEPT ![k].status = st, ![k].answers = a]
      PROVE  HandedIn(i)'
  BY <1>2, ClosingRow DEF HandedIn, AttemptStatus
<1>3. ASSUME NEW k \in Ids, NEW g, attempt' = [attempt EXCEPT ![k].grading = g]
      PROVE  HandedIn(i)'
  BY <1>3, MarkingRow DEF HandedIn
<1>4. ASSUME UNCHANGED attempt PROVE HandedIn(i)'
  BY <1>4 DEF HandedIn
<1>. QED  BY <1>1, <1>2, <1>3, <1>4, AttemptRows DEF TimedOut

LEMMA GradedStep ==
    ASSUME Typing, Present, [Next]_vars, NEW i \in Ids, attempt'[i].grading = "graded"
    PROVE  \/ attempt[i].grading = "graded"
           \/ \E w \in Workers : GradeMark(w) /\ job[w].id = i
<1>1. ASSUME NEW w \in Workers, StartAttempt(w)
      PROVE  attempt[i].grading = "graded"
  <2>1. PICK k \in Ids : attempt' = [attempt EXCEPT ![k] =
              [NoAttempt EXCEPT !.status = "in_progress", !.number = number[w]]]
    BY <1>1 DEF StartAttempt
  <2>2. k # i
    BY <2>1 DEF NoAttempt, Typing, TypeOK
  <2>. QED  BY <2>1, <2>2 DEF Typing, TypeOK
<1>2. ASSUME NEW k \in Ids, NEW a, NEW st \in {"submitted", "timed_out"},
             attempt' = [attempt EXCEPT ![k].status = st, ![k].answers = a]
      PROVE  attempt[i].grading = "graded"
  BY <1>2, ClosingRow DEF AttemptStatus
<1>3. ASSUME NEW w \in Workers, NEW g, job[w].id \in Ids,
             \/ GradeMark(w) /\ g = "graded"
             \/ GradeFail(w) /\ g = "in_progress",
             attempt' = [attempt EXCEPT ![job[w].id].grading = g]
      PROVE  \/ attempt[i].grading = "graded"
             \/ GradeMark(w) /\ job[w].id = i
  BY <1>3, MarkingRow
<1>4. ASSUME UNCHANGED attempt PROVE attempt[i].grading = "graded"
  BY <1>4
<1>. QED  BY <1>1, <1>2, <1>3, <1>4, AttemptRows DEF TimedOut

\* How a request gets to the grading, or to an expiry.
LEMMA OnGradeStep ==
    ASSUME Typing, [Next]_vars, NEW v \in Workers
    PROVE  /\ OnGrade(v)' => /\ job'[v] = job[v]
                             /\ \/ OnGrade(v)
                                \/ HandIn(v)
                                \/ pc[v] \in {"expire", "timeout"} /\ job[v].op = "submit"
           /\ pc'[v] \in {"expire", "timeout"} =>
                \/ pc[v] \in {"expire", "timeout"} /\ job'[v] = job[v]
                \/ job'[v].op \in ChecksExpiry
           /\ pc'[v] = "gradeMark" =>
                /\ job'[v] = job[v]
                /\ pc[v] = "gradeMark" \/ GradeInsert(v)
<1>1. CASE Start(v)
  BY <1>1, Moves DEF Start, StartLimit, StartTerminate, StartCount, StartAttempt, StartSession,
                     StartStore, Ends, Typing, TypeOK, OnGrade, GradeLabels
<1>2. CASE Receive(v) \/ Lookup(v)
  BY <1>2, ReadingLabels DEF OnGrade, GradeLabels
<1>3. CASE Handle(v)
  BY <1>3, HandleLabels DEF GradeCheck, GradeInsert, Ends, OnGrade, GradeLabels
<1>4. CASE Stays(v) \/ Ends(v)
  BY <1>4 DEF Stays, Ends, OnGrade, GradeLabels
<1>. QED  BY <1>1, <1>2, <1>3, <1>4, Turn DEF Acts

LEMMA GradedNext ==
    ASSUME Typing, Present, GradedLate, [Next]_vars
    PROVE  GradedLate'
<1>. grades \in [Ids -> Nat]
  BY DEF Typing, TypeOK
<1>1. ASSUME NEW i \in Ids, grades[i] > 0
      PROVE  grades'[i] > 0
  BY <1>1, GradesStep DEF GradeInsert
<1>2. ASSUME NEW i \in Ids, grades'[i] > 0
      PROVE  HandedIn(i)'
  <2>1. CASE grades[i] > 0
    BY <2>1, HandedInStays DEF GradedLate
  <2>2. CASE \E w \in Workers : GradeInsert(w) /\ job[w].id = i
    BY <2>2, HandedInStays DEF GradedLate, GradeInsert, OnGrade, GradeLabels
  <2>. QED  BY <1>2, <2>1, <2>2, GradesStep DEF GradeInsert
<1>3. ASSUME NEW i \in Ids, attempt'[i].grading = "graded"
      PROVE  grades'[i] > 0
  BY <1>1, <1>3, GradedStep DEF GradedLate, GradeMark
<1>4. ASSUME NEW v \in Workers, OnGrade(v)'
      PROVE  attempt'[job'[v].id].status \in {"submitted", "timed_out"}
  <2>1. CASE OnGrade(v)
    <3>1. HandedIn(job[v].id) /\ job[v].id \in Ids
      BY <2>1, Named DEF GradedLate, OnGrade, GradeLabels, StartLabels
    <3>. QED  BY <1>4, <3>1, HandedInStays, OnGradeStep DEF HandedIn
  <2>2. CASE HandIn(v)
    <3>1. job[v].id \in Ids
      BY <2>2, Named DEF HandIn, StartLabels
    <3>2. attempt' = [attempt EXCEPT ![job[v].id].status = "submitted",
                                     ![job[v].id].answers = copy[v].answers]
      BY <2>2 DEF HandIn
    <3>. QED  BY <1>4, <3>1, <3>2, ClosingRow, OnGradeStep DEF HandedIn, AttemptStatus
  <2>. QED  BY <1>4, <2>1, <2>2, OnGradeStep DEF GradedLate
<1>5. ASSUME NEW v \in Workers, pc'[v] \in {"expire", "timeout"}
      PROVE  job'[v].op # "submit"
  BY <1>5, OnGradeStep DEF GradedLate, ChecksExpiry
<1>6. ASSUME NEW v \in Workers, pc'[v] = "gradeMark"
      PROVE  grades'[job[v].id] > 0 /\ job'[v] = job[v]
  <2>1. CASE pc[v] = "gradeMark"
    BY <1>1, <1>6, <2>1, OnGradeStep, Named DEF GradedLate, StartLabels
  <2>2. CASE GradeInsert(v)
    <3>1. job[v].id \in Ids
      BY <2>2, Named DEF GradeInsert, StartLabels
    <3>. QED  BY <1>6, <2>2, <3>1, OnGradeStep DEF GradeInsert
  <2>. QED  BY <1>6, <2>1, <2>2, OnGradeStep
<1>7. \A v \in Workers : OnGrade(v)' => HandedIn(job[v].id)'
  BY <1>4 DEF HandedIn
<1>8. \A v \in Workers : pc'[v] = "gradeMark" => grades'[job'[v].id] > 0
  BY <1>6
<1>. QED  BY <1>2, <1>3, <1>5, <1>7, <1>8 DEF GradedLate, HandedIn

\* A grade is given, and an attempt marked as graded, only after the attempt has
\* been handed in, whatever expires, crashes or is sent again in between.
THEOREM GradedAfterHandIn == Spec => []GradedWasHandedIn
<1>1. Init => GradedLate
  BY DEF Init, GradedLate, OnGrade, GradeLabels, NoAttempt
<1>2. Typing /\ Present /\ GradedLate /\ [Next]_vars => (Typing /\ Present /\ GradedLate)'
  BY TypingNext, PresentNext, GradedNext
<1>3. GradedLate => GradedWasHandedIn
  BY DEF GradedLate, GradedWasHandedIn, HandedIn
<1>. QED  BY <1>1, <1>2, <1>3, TypingInit, PresentInit, PTL DEF Spec
-----------------------------------------------------------------------------
(* What a step does to the session rows, to their copies in the cache and to  *)
(* the copies the requests hold.                                              *)

Keeps(i, st, a) ==
    /\ session'[i].status = st /\ session'[i].answers = a
    /\ session'[i].expires = session[i].expires

LEMMA StatusSet ==
    ASSUME Typing, NEW i \in Ids, NEW j, NEW st,
           session' = [session EXCEPT ![j].status = st]
    PROVE  session'[i] = session[i] \/ (i = j /\ Keeps(i, st, session[i].answers))
  BY DEF Typing, TypeOK, Row, Keeps

LEMMA SessionRow ==
    ASSUME Typing, [Next]_vars, NEW i \in Ids
    PROVE  \/ session'[i] = session[i]
           \/ \E w \in Workers : /\ StartSession(w) /\ job[w].id = i
                                 /\ session'[i].status = "active" /\ session'[i].answers = {}
           \/ \E w \in Workers : /\ WriteAnswer(w) /\ job[w].id = i
                                 /\ Keeps(i, session[i].status, Answered(w).answers)
           \/ \E w \in Workers, st \in SessionStatus :
                 /\ Keeps(i, st, session[i].answers)
                 /\ \/ StartTerminate(w) /\ session[i].status = "active" /\ st = "terminated"
                    \/ /\ job[w].id = i
                       /\ \/ Complete(w) /\ st = "completed"
                          \/ Pause(w) /\ st = "paused"
                          \/ Resume(w) /\ st = "active"
                          \/ Expire(w) /\ st = "expired"
                          \/ Violate(w) /\ st = "terminated"
           \/ \E w \in Workers : /\ Violate(w) /\ job[w].id = i
                                 /\ Keeps(i, session[i].status, session[i].answers)
           \/ CronExpire(i) /\ Keeps(i, "expired", session[i].answers)
<1>. session \in [Ids -> Row] /\ {"completed", "paused", "active", "expired", "terminated"} \subseteq SessionStatus
  BY DEF Typing, TypeOK, SessionStatus, Open
<1>1. ASSUME NEW w \in Workers, StartTerminate(w)
      PROVE  \/ session'[i] = session[i]
             \/ session[i].status = "active" /\ Keeps(i, "terminated", session[i].answers)
  BY <1>1 DEF StartTerminate, Superseded, Row, Keeps
<1>2. ASSUME NEW w \in Workers, StartSession(w)
      PROVE  \/ session'[i] = session[i]
             \/ job[w].id = i /\ session'[i].status = "active" /\ session'[i].answers = {}
  BY <1>2 DEF StartSession
<1>3. ASSUME NEW w \in Workers, WriteAnswer(w)
      PROVE  \/ session'[i] = session[i]
             \/ job[w].id = i /\ Keeps(i, session[i].status, Answered(w).answers)
  BY <1>3 DEF WriteAnswer, Row, Keeps
<1>4. ASSUME NEW w \in Workers, Violate(w)
      PROVE  \/ session'[i] = session[i]
             \/ job[w].id = i /\ Keeps(i, "terminated", session[i].answers)
             \/ job[w].id = i /\ Keeps(i, session[i].status, session[i].answers)
  <2>1. PICK v, st : /\ st \in {"terminated", session[job[w].id].status}
                     /\ session' = [session EXCEPT ![job[w].id].violations = v,
                                                   ![job[w].id].status = st]
    <3>. DEFINE count == IF copy[w].violations + 1 < MaxViolations
                         THEN copy[w].violations + 1 ELSE MaxViolations
    <3>1. session' = [session EXCEPT
            ![job[w].id].violations = count,
            ![job[w].id].status = IF count = MaxViolations THEN "terminated" ELSE @]
      BY <1>4 DEF Violate
    <3>2. job[w].id \in Ids
      BY <1>4 DEF Violate, Typing, TypeOK, JobOK, StartLabels
    <3>3. session' = [session EXCEPT
            ![job[w].id].violations = count,
            ![job[w].id].status = IF count = MaxViolations THEN "terminated"
                                  ELSE session[job[w].id].status]
      BY <3>1, <3>2 DEF Row
    <3>. QED  BY <3>3
  <2>. QED  BY <2>1 DEF Row, Keeps
<1>5. ASSUME NEW w \in Workers, Complete(w) \/ Pause(w) \/ Resume(w) \/ Expire(w)
      PROVE  \/ session'[i] = session[i]
             \/ /\ job[w].id = i
                /\ \/ Complete(w) /\ Keeps(i, "completed", session[i].answers)
                   \/ Pause(w) /\ Keeps(i, "paused", session[i].answers)
                   \/ Resume(w) /\ Keeps(i, "active", session[i].answers)
                   \/ Expire(w) /\ Keeps(i, "expired", session[i].answers)
  BY <1>5, StatusSet DEF Complete, Pause, Resume, Expire
<1>6. ASSUME NEW k \in Ids, CronExpire(k)
      PROVE  \/ session'[i] = session[i]
             \/ CronExpire(i) /\ Keeps(i, "expired", session[i].answers)
  BY <1>6, StatusSet DEF CronExpire
<1>7. ASSUME NEW w \in Workers, Start(w), ~StartTerminate(w), ~StartSession(w)
      PROVE  UNCHANGED session
  BY <1>7 DEF Start, StartLimit, StartCount, StartAttempt, StartStore, rows
<1>8. ASSUME NEW w \in Workers, Receive(w) \/ Lookup(w)
      PROVE  UNCHANGED session
  BY <1>8 DEF Receive, Lookup, Find, Fill, rows
<1>9. ASSUME NEW w \in Workers, Handle(w), ~WriteAnswer(w), ~Violate(w),
             ~(Complete(w) \/ Pause(w) \/ Resume(w) \/ Expire(w))
      PROVE  UNCHANGED session
  BY <1>9 DEF Handle, Touch, SaveAnswer, HandIn, Clear, GradeCheck, GradeInsert, GradeMark,
              GradeFail, TimeOut, rows
<1>10. ASSUME CronQuery \/ CronTimeOut \/ StartUnavailable \/ Tick \/ (\E k \in Ids : Evict(k))
              \/ UNCHANGED vars
       PROVE  UNCHANGED session
  BY <1>10 DEF CronQuery, CronTimeOut, StartUnavailable, Tick, Evict, rows, vars
<1>. QED  BY <1>1, <1>2, <1>3, <1>4, <1>5, <1>6, <1>7, <1>8, <1>9, <1>10 DEF Next, Cron

LEMMA PutRow ==
    ASSUME Typing, NEW i \in Ids, NEW j, NEW s, CachePut(j, s)
    PROVE  cache'[i] = cache[i] \/ (i = j /\ cache'[i] = s)
  BY DEF CachePut, Typing, TypeOK

LEMMA CacheRow ==
    ASSUME Typing, [Next]_vars, NEW i \in Ids
    PROVE  \/ cache'[i] = cache[i]
           \/ cache'[i] = NoRow
           \/ \E w \in Workers : /\ job[w].id = i
                                 /\ \/ StartStore(w) /\ cache'[i] = copy[w]
                                    \/ Fill(w) /\ cache'[i] = copy[w]
                                    \/ Touch(w) /\ cache'[i] = copy[w]
                                    \/ SaveAnswer(w) /\ cache'[i] = Answered(w)
<1>1. ASSUME NEW w \in Workers, StartStore(w) \/ Fill(w) \/ Touch(w)
      PROVE  cache'[i] = cache[i] \/ (job[w].id = i /\ cache'[i] = copy[w])
  BY <1>1, PutRow DEF StartStore, Fill, Touch
<1>2. ASSUME NEW w \in Workers, SaveAnswer(w)
      PROVE  cache'[i] = cache[i] \/ (job[w].id = i /\ cache'[i] = Answered(w))
  BY <1>2, PutRow DEF SaveAnswer
<1>3. ASSUME NEW w \in Workers, Clear(w)
      PROVE  cache'[i] = cache[i] \/ cache'[i] = NoRow
  BY <1>3, PutRow DEF Clear, CacheDel
<1>4. ASSUME NEW k \in Ids, Evict(k)
      PROVE  cache'[i] = cache[i] \/ cache'[i] = NoRow
  BY <1>4 DEF Evict, Typing, TypeOK
<1>5. ASSUME NEW w \in Workers, Start(w), ~StartStore(w)
      PROVE  UNCHANGED cache
  BY <1>5 DEF Start, StartLimit, StartTerminate, StartCount, StartAttempt, StartSession
<1>6. ASSUME NEW w \in Workers, Receive(w) \/ Find(w)
      PROVE  UNCHANGED cache
  BY <1>6 DEF Receive, Find
<1>7. ASSUME NEW w \in Workers, Handle(w), ~Touch(w), ~SaveAnswer(w), ~Clear(w)
      PROVE  UNCHANGED cache
  BY <1>7 DEF Handle, WriteAnswer, Complete, HandIn, GradeCheck, GradeInsert, GradeMark,
              GradeFail, Violate, Pause, Resume, Expire, TimeOut
<1>8. ASSUME Cron \/ StartUnavailable \/ Tick \/ UNCHANGED vars
      PROVE  UNCHANGED cache
  BY <1>8 DEF Cron, CronQuery, CronTimeOut, CronExpire, StartUnavailable, Tick, vars
<1>. QED  BY <1>1, <1>2, <1>3, <1>4, <1>5, <1>6, <1>7, <1>8 DEF Next, Lookup

\* The row a request goes on from, and the session it is about.
LEMMA ReadingRow ==
    ASSUME Typing, NEW w \in Workers, Receive(w) \/ Lookup(w)
    PROVE  \/ Ends(w)
           \/ /\ job'[w].id \in Ids /\ job'[w].id \in issued
              /\ \/ /\ Receive(w)
                    /\ SerialClient => \A v \in Workers : job[v].id # job'[w].id
                    /\ \/ pc'[w] = "find" /\ copy'[w] = NoRow
                       \/ /\ pc'[w] \notin {"find", "fill"}
                          /\ cache[job'[w].id].status # "absent"
                          /\ copy'[w] = cache[job'[w].id]
                 \/ Find(w) /\ pc'[w] = "fill" /\ job'[w] = job[w] /\ copy'[w] = session[job[w].id]
                 \/ Fill(w) /\ job'[w] = job[w] /\ copy'[w] = copy[w] /\ pc'[w] \notin {"find", "fill"}
<1>1. CASE Receive(w)
  <2>1. PICK j \in Job :
             /\ j.op \in TokenOps /\ j.id \in issued /\ j.id \in Ids
             /\ SerialClient => \A v \in Workers : job[v].id # j.id
             /\ \/ cache[j.id].status # "absent" /\ Dispatch(w, j, cache[j.id])
                \/ Continue(w, j, NoRow, "find")
    BY <1>1, Received
  <2>2. CASE Continue(w, j, NoRow, "find")
    BY <1>1, <2>1, <2>2, Moves
  <2>3. CASE cache[j.id].status # "absent" /\ Dispatch(w, j, cache[j.id])
    <3>1. \/ Ends(w)
          \/ job'[w] = j /\ copy'[w] = cache[j.id] /\ pc'[w] \in {"expire", FirstWrite[j.op]}
      BY <2>1, <2>3, Dispatched
    <3>2. FirstWrite[j.op] \notin {"find", "fill"}
      BY <2>1 DEF FirstWrite, TokenOps
    <3>. QED  BY <1>1, <2>1, <2>3, <3>1, <3>2
  <2>. QED  BY <2>1, <2>2, <2>3
<1>2. ASSUME Lookup(w)
      PROVE  job[w] \in Job /\ job[w].op \in TokenOps /\ job[w].id \in issued /\ job[w].id \in Ids
  BY <1>2 DEF Lookup, Find, Fill, Typing, TypeOK, JobOK, StartLabels
<1>3. CASE Find(w)
  BY <1>2, <1>3, Moves DEF Find, Lookup
<1>4. CASE Fill(w)
  <2>1. \/ Ends(w)
        \/ job'[w] = job[w] /\ copy'[w] = copy[w] /\ pc'[w] \in {"expire", FirstWrite[job[w].op]}
    BY <1>2, <1>4, Dispatched DEF Fill, Lookup
  <2>2. FirstWrite[job[w].op] \notin {"find", "fill"}
    BY <1>2, <1>4 DEF FirstWrite, TokenOps, Lookup
  <2>. QED  BY <1>2, <1>4, <2>1, <2>2 DEF Lookup
<1>. QED  BY <1>1, <1>3, <1>4 DEF Lookup

LEMMA AnsweredRow ==
    ASSUME Typing, NEW w \in Workers
    PROVE  /\ Answered(w).status = copy[w].status /\ Answered(w).expires = copy[w].expires
           /\ Answered(w).answers = copy[w].answers \cup job[w].answer
<1>. copy[w] \in Row
  BY DEF Typing, TypeOK
<1>. QED  BY DEF Answered, Row

LEMMA HandleRow ==
    ASSUME Typing, NEW w \in Workers, Handle(w)
    PROVE  Ends(w) \/ (job'[w] = job[w] /\ copy'[w] = copy[w])
  BY Moves
     DEF Handle, Touch, WriteAnswer, SaveAnswer, Complete, HandIn, Clear, GradeCheck,
         GradeInsert, GradeMark, GradeFail, Violate, Pause, Resume, Expire, TimeOut
-----------------------------------------------------------------------------
(* Active sessions.  Where no session can be paused, only StartSession makes  *)
(* one active; and when a request has just terminated the others, every       *)
(* active session to come belongs to a start that is still under way.         *)

NoPause ==
    ~AllowPause =>
      /\ \A w \in Workers : pc[w] \notin {"pause", "resume"} /\ copy[w].status # "paused"
      /\ \A i \in Ids : session[i].status # "paused" /\ cache[i].status # "paused"

Starters == {w \in Workers : pc[w] \in {"count", "attempt", "session"}}

ActiveCounted ==
    ~AllowPause => Cardinality(ActiveSessions) + Cardinality(Starters) <= Cardinality(Workers)

LEMMA CopyStep ==
    ASSUME Typing, [Next]_vars, NEW v \in Workers
    PROVE  \/ copy'[v] = copy[v]
           \/ copy'[v] = NoRow
           \/ \E i \in Ids : copy'[v] = cache[i] \/ copy'[v] = session[i]
           \/ StartSession(v) /\ copy'[v].status = "active"
<1>1. CASE Start(v)
  BY <1>1, Moves DEF Start, StartLimit, StartTerminate, StartCount, StartAttempt, StartSession,
                     StartStore, Ends, Typing, TypeOK
<1>2. CASE Receive(v) \/ Lookup(v)
  BY <1>2, ReadingRow DEF Ends
<1>3. CASE Handle(v)
  BY <1>3, HandleRow DEF Ends
<1>4. CASE Stays(v) \/ Ends(v)
  BY <1>4 DEF Stays, Ends
<1>. QED  BY <1>1, <1>2, <1>3, <1>4, Turn DEF Acts

LEMMA PauseStep ==
    ASSUME Typing, [Next]_vars, NEW v \in Workers, ~AllowPause, pc'[v] \in {"pause", "resume"}
    PROVE  pc[v] \in {"pause", "resume"} \/ copy'[v].status = "paused"
<1>1. CASE Start(v)
  BY <1>1, Moves DEF Start, StartLimit, StartTerminate, StartCount, StartAttempt, StartSession,
                     StartStore, Ends, Typing, TypeOK
<1>2. CASE Receive(v) \/ Lookup(v)
  BY <1>2, ReadingLabels
<1>3. CASE Handle(v)
  BY <1>3, HandleLabels DEF Ends
<1>4. CASE Stays(v) \/ Ends(v)
  BY <1>4 DEF Stays, Ends
<1>. QED  BY <1>1, <1>2, <1>3, <1>4, Turn DEF Acts

LEMMA NoPauseNext ==
    ASSUME Typing, NoPause, [Next]_vars
    PROVE  NoPause'
<1>. SUFFICES ASSUME ~AllowPause
              PROVE  /\ \A w \in Workers : /\ pc'[w] \notin {"pause", "resume"}
                                           /\ copy'[w].status # "paused"
                     /\ \A i \in Ids : session'[i].status # "paused" /\ cache'[i].status # "paused"
  BY DEF NoPause
<1>1. ASSUME NEW w \in Workers PROVE copy'[w].status # "paused"
  BY CopyStep DEF NoPause, NoRow
<1>2. ASSUME NEW w \in Workers PROVE pc'[w] \notin {"pause", "resume"}
  BY <1>1, PauseStep DEF NoPause
<1>3. ASSUME NEW i \in Ids PROVE session'[i].status # "paused"
  BY SessionRow DEF NoPause, Keeps, Pause
<1>4. ASSUME NEW i \in Ids PROVE cache'[i].status # "paused"
  BY CacheRow, AnsweredRow DEF NoPause, NoRow
<1>. QED  BY <1>1, <1>2, <1>3, <1>4

LEMMA ActiveFinite ==
    /\ IsFiniteSet(ActiveSessions) /\ Cardinality(ActiveSessions) \in Nat
    /\ IsFiniteSet(Starters) /\ Cardinality(Starters) \in Nat
    /\ Cardinality(Starters) <= Cardinality(Workers) /\ Cardinality(Workers) \in Nat
<1>1. ActiveSessions \subseteq Ids /\ Starters \subseteq Workers
  BY DEF ActiveSessions, Starters
<1>. QED  BY <1>1, IdsAssumption, WorkersAssumption, FS_Subset, FS_CardinalityType

LEMMA StartersStep ==
    ASSUME Typing, [Next]_vars, NEW v \in Workers, v \in Starters'
    PROVE  (v \in Starters /\ ~StartSession(v)) \/ StartTerminate(v)
<1>1. CASE Start(v)
  BY <1>1, Moves DEF Start, StartLimit, StartTerminate, StartCount, StartAttempt, StartSession,
                     StartStore, Ends, Typing, TypeOK, Starters
<1>2. CASE Receive(v) \/ Lookup(v)
  BY <1>2, ReadingLabels DEF Starters
<1>3. CASE Handle(v)
  BY <1>3, HandleLabels DEF Ends, Starters
<1>4. CASE Stays(v) \/ Ends(v)
  BY <1>4 DEF Stays, Ends, Starters, StartSession, Typing, TypeOK
<1>. QED  BY <1>1, <1>2, <1>3, <1>4, Turn DEF Acts

LEMMA ActiveNext ==
    ASSUME Typing, NoPause, ActiveCounted, [Next]_vars
    PROVE  ActiveCounted'
<1>. SUFFICES ASSUME ~AllowPause
              PROVE  Cardinality(ActiveSessions') + Cardinality(Starters') <= Cardinality(Workers)
  BY DEF ActiveCounted
<1>. Cardinality(ActiveSessions) + Cardinality(Starters) <= Cardinality(Workers)
  BY DEF ActiveCounted
<1>1. /\ IsFiniteSet(ActiveSessions') /\ Cardinality(ActiveSessions') \in Nat
      /\ IsFiniteSet(Starters') /\ Cardinality(Starters') \in Nat
      /\ Cardinality(Starters') <= Cardinality(Workers) /\ Cardinality(Workers) \in Nat
  <2>1. ActiveSessions' \subseteq Ids /\ Starters' \subseteq Workers
    BY DEF ActiveSessions, Starters
  <2>. QED  BY <2>1, IdsAssumption, WorkersAssumption, FS_Subset, FS_CardinalityType
<1>2. ASSUME NEW i \in ActiveSessions', i \notin ActiveSessions
      PROVE  \E w \in Workers : StartSession(w) /\ job[w].id = i
  <2>1. i \in Ids /\ session'[i].status = "active" /\ session[i].status # "active"
    BY <1>2 DEF ActiveSessions
  <2>. QED  BY <2>1, SessionRow DEF Keeps, Resume, NoPause
<1>3. CASE \E w \in Workers : StartTerminate(w)
  <2>1. ActiveSessions' = {}
    BY <1>3 DEF StartTerminate, Superseded, ActiveSessions, Typing, TypeOK, Row
  <2>. QED  BY <1>1, <2>1, FS_EmptySet
<1>4. ASSUME NEW w \in Workers, StartSession(w)
      PROVE  Cardinality(ActiveSessions') + Cardinality(Starters') <= Cardinality(Workers)
  <2>1. \A v \in Workers : StartSession(v) => v = w
    BY <1>4 DEF StartSession, Typing, TypeOK
  <2>2. ActiveSessions' \subseteq ActiveSessions \cup {job[w].id}
    BY <1>2, <2>1
  <2>3. w \in Starters
    BY <1>4 DEF StartSession, Starters
  <2>4. \A v \in Workers : ~StartTerminate(v)
    BY <1>4 DEF StartSession, StartTerminate, Goto, Typing, TypeOK
  <2>5. Starters' \subseteq Starters \ {w}
    <3>1. Starters' \subseteq Workers
      BY DEF Starters
    <3>. QED  BY <1>4, <2>4, <3>1, StartersStep
  <2>6. Cardinality(Starters \ {w}) = Cardinality(Starters) - 1
    BY <2>3, ActiveFinite, FS_RemoveElement
  <2>7. Cardinality(Starters') <= Cardinality(Starters \ {w})
    BY <2>5, ActiveFinite, FS_Subset
  <2>8. /\ Cardinality(ActiveSessions') <= Cardinality(ActiveSessions \cup {job[w].id})
        /\ Cardinality(ActiveSessions \cup {job[w].id}) <= Cardinality(ActiveSessions) + 1
        /\ Cardinality(ActiveSessions \cup {job[w].id}) \in Nat
    <3>1. /\ IsFiniteSet(ActiveSessions \cup {job[w].id})
          /\ Cardinality(ActiveSessions \cup {job[w].id}) \in
                {Cardinality(ActiveSessions), Cardinality(ActiveSessions) + 1}
      BY ActiveFinite, FS_AddElement
    <3>. QED  BY <2>2, <3>1, ActiveFinite, FS_Subset
  <2>. QED  BY <1>1, <2>6, <2>7, <2>8, ActiveFinite
<1>5. CASE \A w \in Workers : ~StartTerminate(w) /\ ~StartSession(w)
  <2>1. ActiveSessions' \subseteq ActiveSessions
    BY <1>2, <1>5
  <2>2. Starters' \subseteq Starters
    <3>1. Starters' \subseteq Workers
      BY DEF Starters
    <3>. QED  BY <1>5, <3>1, StartersStep
  <2>. QED  BY <1>1, <2>1, <2>2, ActiveFinite, FS_Subset
<1>. QED  BY <1>3, <1>4, <1>5

\* Where pausing is not allowed, starts that overlap leave no more active sessions
\* than there are requests in flight, although none of them sees the others' rows.
THEOREM ActiveSessionsAreFew == Spec => []ActiveBounded
<1>1. Init => NoPause /\ ActiveCounted
  <2>. SUFFICES ASSUME Init PROVE NoPause /\ ActiveCounted
    OBVIOUS
  <2>1. NoPause
    BY DEF Init, NoPause, NoRow
  <2>2. ActiveSessions = {}
    BY DEF Init, ActiveSessions, NoRow
  <2>. QED  BY <2>1, <2>2, FS_EmptySet, ActiveFinite DEF ActiveCounted
<1>2. Typing /\ NoPause /\ ActiveCounted /\ [Next]_vars => (Typing /\ NoPause /\ ActiveCounted)'
  BY TypingNext, NoPauseNext, ActiveNext
<1>3. ActiveCounted => ActiveBounded
  BY ActiveFinite DEF ActiveCounted, ActiveBounded
<1>. QED  BY <1>1, <1>2, <1>3, TypingInit, PTL DEF Spec
-----------------------------------------------------------------------------
(* Dates.  The end of a session is fixed when its row is saved.  Everything    *)
(* that is read later, from the table or from the cache, names the same end;   *)
(* so whoever finds a session expired is right, however old its copy is.       *)

Holding == {"store", "fill", "touch", "write", "save"}

Dated(s, i) ==
    /\ s.status # "absent"
    /\ s.expires = session[i].expires
    /\ s.status = "expired" => s.expires <= now

Ended(i) == session[i].status # "absent" /\ session[i].expires <= now

RowDates ==
    \A i \in Ids :
        /\ session[i].status = "expired" => session[i].expires <= now
        /\ cache[i].status # "absent" => session[i].status # "absent" /\ Dated(cache[i], i)
        /\ cron.read[i].status # "absent" => Ended(i)
        /\ i \in issued => session[i].status # "absent"

CronDates == cron.pc = "timeout" => Ended(cron.at)

RequestDates ==
    \A w \in Workers :
        /\ pc[w] \in Holding => session[job[w].id].status # "absent" /\ Dated(copy[w], job[w].id)
        /\ pc[w] \in {"expire", "timeout"} => Ended(job[w].id)
        /\ pc[w] = "session" => session[job[w].id].status = "absent"

Unique ==
    \A v, w \in Workers :
        pc[v] = "session" /\ pc[w] = "session" /\ job[v].id = job[w].id => v = w

Dates == RowDates /\ CronDates /\ RequestDates /\ Unique

LEMMA NowStep ==
    ASSUME Typing, [Next]_vars
    PROVE  now \in Nat /\ now' \in Nat /\ now <= now'
<1>. now \in Nat
  BY DEF Typing, TypeOK
<1>1. CASE Tick
  BY <1>1 DEF Tick
<1>2. CASE ~Tick
  <2>1. now' = now
    BY <1>2 DEF Next, Start, StartLimit, StartTerminate, StartCount, StartAttempt, StartSession,
         StartStore, Receive, Lookup, Find, Fill, Handle, Touch, WriteAnswer, SaveAnswer,
         Complete, HandIn, Clear, GradeCheck, GradeInsert, GradeMark, GradeFail, Violate, Pause,
         Resume, Expire, TimeOut, Cron, CronQuery, CronTimeOut, CronExpire, StartUnavailable,
         Evict, vars
  <2>. QED  BY <2>1
<1>. QED  BY <1>1, <1>2

\* A row that is there stays, with its end.
LEMMA EndStays ==
    ASSUME Typing, Dates, [Next]_vars, NEW i \in Ids, session[i].status # "absent"
    PROVE  session'[i].status # "absent" /\ session'[i].expires = session[i].expires
<1>1. ASSUME NEW w \in Workers, StartSession(w), job[w].id = i
      PROVE  FALSE
  BY <1>1 DEF StartSession, Dates, RequestDates
<1>2. \A st \in SessionStatus : st # "absent"
  BY DEF SessionStatus, Open
<1>. QED  BY <1>1, <1>2, SessionRow DEF Keeps

LEMMA EndedStays ==
    ASSUME Typing, Dates, [Next]_vars, NEW i \in Ids, Ended(i)
    PROVE  Ended(i)'
<1>. session[i].expires \in Nat
  BY DEF Typing, TypeOK, Row
<1>. QED  BY EndStays, NowStep DEF Ended

\* A row that is not there comes only with StartSession.
LEMMA AbsentStays ==
    ASSUME Typing, Dates, [Next]_vars, NEW i \in Ids, session[i].status = "absent"
    PROVE  \/ session'[i].status = "absent"
           \/ \E w \in Workers : StartSession(w) /\ job[w].id = i
<1>1. i \notin issued /\ cron.read[i].status = "absent"
  BY DEF Dates, RowDates, Ended
<1>2. ASSUME NEW w \in Workers, Complete(w) \/ Pause(w) \/ Resume(w) \/ Expire(w) \/ Violate(w)
      PROVE  job[w].id \in issued
  BY <1>2 DEF Complete, Pause, Resume, Expire, Violate, Typing, JobOK, StartLabels
<1>. QED  BY <1>1, <1>2, SessionRow DEF Keeps, CronExpire

\* What the cron holds, it has held before or has just selected.
CronReads ==
    /\ \A i \in Ids : cron'.read[i].status # "absent" =>
           cron.read[i].status # "absent" \/ Overdue(i)
    /\ cron'.pc = "timeout" =>
           \/ cron.pc = "timeout" /\ cron'.at = cron.at /\ cron.at \in Ids
           \/ cron'.at \in Ids /\ cron.read[cron'.at].status # "absent"

LEMMA CronRow ==
    ASSUME Typing, [Next]_vars
    PROVE  CronReads
<1>. cron.read \in [Ids -> Row]
  BY DEF Typing, TypeOK
<1>1. ASSUME UNCHANGED cron PROVE CronReads
  BY <1>1 DEF Typing, CronOK, CronReads
<1>2. ASSUME cron' = CronIdle PROVE CronReads
  BY <1>2 DEF CronIdle, NothingRead, NoRow, CronReads
<1>3. ASSUME NEW i \in Ids, CronDone(i) PROVE CronReads
  <2>1. CASE cron' = CronIdle
    BY <1>2, <2>1
  <2>2. CASE cron' = [pc |-> "expire", at |-> NoId, read |-> [cron.read EXCEPT ![i] = NoRow]]
    BY <2>2 DEF NoRow, CronReads
  <2>. QED  BY <1>3, <2>1, <2>2 DEF CronDone
<1>4. CASE CronQuery
  BY <1>4 DEF CronQuery, CronIdle, NoRow, CronReads
<1>5. CASE CronTimeOut
  <2>1. PICK i \in Ids : CronDone(i)
    BY <1>5 DEF CronTimeOut, Typing, CronOK
  <2>. QED  BY <1>3, <2>1
<1>6. ASSUME NEW i \in Ids, CronExpire(i) PROVE CronReads
  <2>1. CASE cron' = [cron EXCEPT !.pc = "timeout", !.at = i]
    <3>1. cron'.read = cron.read /\ cron'.at = i
      BY <2>1 DEF Typing, TypeOK
    <3>. QED  BY <1>6, <3>1 DEF CronExpire, CronReads
  <2>. QED  BY <1>3, <1>6, <2>1 DEF CronExpire
<1>7. CASE StartUnavailable
  BY <1>2, <1>7 DEF StartUnavailable
<1>8. ASSUME NEW w \in Workers, Acts(w)
      PROVE  UNCHANGED cron
  BY <1>8 DEF Acts, Start, StartLimit, StartTerminate, StartCount, StartAttempt, StartSession,
              StartStore, Receive, Lookup, Find, Fill, Handle, Touch, WriteAnswer,
              SaveAnswer, Complete, HandIn, Clear, GradeCheck, GradeInsert, GradeMark,
              GradeFail, Violate, Pause, Resume, Expire, TimeOut
<1>9. CASE Tick \/ (\E i \in Ids : Evict(i)) \/ UNCHANGED vars
  BY <1>1, <1>9 DEF Tick, Evict, vars
<1>. QED  BY <1>1, <1>4, <1>5, <1>6, <1>7, <1>8, <1>9 DEF Next, Cron, Acts

LEMMA IssuedRow ==
    ASSUME [Next]_vars, NEW i \in issued'
    PROVE  i \in issued \/ \E w \in Workers : StartStore(w) /\ job[w].id = i
<1>1. ASSUME NEW w \in Workers, StartStore(w)
      PROVE  i \in issued \/ job[w].id = i
  BY <1>1 DEF StartStore
<1>2. CASE \A w \in Workers : ~StartStore(w)
  BY <1>2 DEF Next, Start, StartLimit, StartTerminate, StartCount, StartAttempt, StartSession,
         Receive, Lookup, Find, Fill, Handle, Touch, WriteAnswer, SaveAnswer,
         Complete, HandIn, Clear, GradeCheck, GradeInsert, GradeMark, GradeFail, Violate, Pause,
         Resume, Expire, TimeOut, Cron, CronQuery, CronTimeOut, CronExpire, StartUnavailable,
         Tick, Evict, vars
<1>. QED  BY <1>1, <1>2

LEMMA RowDatesNext ==
    ASSUME Typing, Present, Dates, [Next]_vars
    PROVE  RowDates'
<1>. SUFFICES ASSUME NEW i \in Ids
              PROVE  /\ session'[i].status = "expired" => session'[i].expires <= now'
                     /\ cache'[i].status # "absent" =>
                           session'[i].status # "absent" /\ Dated(cache[i], i)'
                     /\ cron'.read[i].status # "absent" => Ended(i)'
                     /\ i \in issued' => session'[i].status # "absent"
  BY DEF RowDates
<1>. /\ now \in Nat /\ now' \in Nat /\ now <= now' /\ session[i].expires \in Nat
     /\ session \in [Ids -> Row] /\ cache \in [Ids -> Row]
  BY NowStep DEF Typing, TypeOK, Row
<1>. RowDates /\ RequestDates
  BY DEF Dates
<1>1. session'[i].status = "expired" => session'[i].expires <= now'
  <2>1. ASSUME session[i].status # "expired", session'[i].status = "expired"
        PROVE  session[i].expires <= now /\ session'[i].expires = session[i].expires
    <3>1. ASSUME NEW w \in Workers, Expire(w), job[w].id = i
          PROVE  session[i].expires <= now
      BY <3>1 DEF Expire, RequestDates, Ended
    <3>2. ASSUME CronExpire(i)
          PROVE  session[i].expires <= now
      BY <3>2 DEF CronExpire, RowDates, Ended
    <3>. QED  BY <2>1, <3>1, <3>2, SessionRow DEF Keeps
  <2>2. ASSUME session[i].status = "expired"
        PROVE  session'[i].expires <= now'
    BY <2>2, EndedStays DEF RowDates, Ended
  <2>. QED  BY <2>1, <2>2
<1>2. ASSUME NEW s, Dated(s, i), session[i].status # "absent"
      PROVE  /\ session'[i].status # "absent"
             /\ s.status # "absent" /\ s.expires = session'[i].expires
             /\ s.status = "expired" => s.expires <= now'
  BY <1>2, EndStays DEF Dated
<1>3. ASSUME cache'[i].status # "absent"
      PROVE  session'[i].status # "absent" /\ Dated(cache[i], i)'
  <2>1. PICK s : /\ Dated(s, i) /\ session[i].status # "absent"
                 /\ cache'[i].status = s.status /\ cache'[i].expires = s.expires
    <3>1. ASSUME NEW w \in Workers, job[w].id = i,
                 StartStore(w) \/ Fill(w) \/ Touch(w) \/ SaveAnswer(w)
          PROVE  Dated(copy[w], i) /\ session[i].status # "absent"
      BY <3>1 DEF StartStore, Fill, Touch, SaveAnswer, RequestDates, Holding
    <3>2. cache'[i] # NoRow
      BY <1>3 DEF NoRow
    <3>3. CASE cache'[i] = cache[i]
      BY <1>3, <3>3 DEF RowDates
    <3>4. ASSUME NEW w \in Workers, job[w].id = i,
                 \/ (StartStore(w) \/ Fill(w) \/ Touch(w)) /\ cache'[i] = copy[w]
                 \/ SaveAnswer(w) /\ cache'[i] = Answered(w)
          PROVE  \E s : /\ Dated(s, i) /\ session[i].status # "absent"
                        /\ cache'[i].status = s.status /\ cache'[i].expires = s.expires
      <4>1. Dated(copy[w], i) /\ session[i].status # "absent"
        BY <3>1, <3>4
      <4>2. cache'[i].status = copy[w].status /\ cache'[i].expires = copy[w].expires
        BY <3>4, AnsweredRow
      <4>. QED  BY <4>1, <4>2
    <3>. QED  BY <3>2, <3>3, <3>4, CacheRow
  <2>. QED  BY <1>2, <2>1 DEF Dated
<1>4. ASSUME cron'.read[i].status # "absent"
      PROVE  Ended(i)'
  BY <1>4, CronRow, EndedStays DEF RowDates, Ended, Overdue, Open, CronReads
<1>5. ASSUME i \in issued'
      PROVE  session'[i].status # "absent"
  BY <1>5, IssuedRow, EndStays DEF RowDates, RequestDates, StartStore, Holding
<1>. QED  BY <1>1, <1>3, <1>4, <1>5

LEMMA CronDatesNext ==
    ASSUME Typing, Dates, [Next]_vars
    PROVE  CronDates'
<1>. SUFFICES ASSUME cron'.pc = "timeout"
              PROVE  session'[cron'.at].status # "absent" /\ session'[cron'.at].expires <= now'
  BY DEF CronDates, Ended
<1>1. PICK i \in Ids : i = cron'.at /\ Ended(i)
  BY CronRow DEF Dates, CronDates, RowDates, CronReads
<1>. QED  BY <1>1, EndedStays DEF Ended
\* How a request comes to hold a row, to end a session, or to open one.
LEMMA HoldingStep ==
    ASSUME Typing, [Next]_vars, NEW v \in Workers, pc'[v] \in Holding
    PROVE  \/ StartSession(v) /\ job'[v] = job[v]
           \/ pc[v] \in Holding /\ job'[v] = job[v] /\ copy'[v] = copy[v]
           \/ /\ job'[v].id \in Ids /\ job'[v].id \in issued
              /\ \/ cache[job'[v].id].status # "absent" /\ copy'[v] = cache[job'[v].id]
                 \/ copy'[v] = session[job'[v].id]
<1>1. CASE Start(v)
  BY <1>1, Moves DEF Start, StartLimit, StartTerminate, StartCount, StartAttempt, StartSession,
                     StartStore, Ends, Typing, TypeOK, Holding
<1>2. CASE Receive(v) \/ Lookup(v)
  BY <1>2, ReadingRow DEF Ends, Holding, Fill
<1>3. CASE Handle(v)
  BY <1>3, HandleLabels DEF WriteAnswer, Complete, HandIn, Ends, Holding
<1>4. CASE Stays(v) \/ Ends(v)
  BY <1>4 DEF Stays, Ends, Holding
<1>. QED  BY <1>1, <1>2, <1>3, <1>4, Turn DEF Acts

LEMMA EndingStep ==
    ASSUME Typing, [Next]_vars, NEW v \in Workers, pc'[v] \in {"expire", "timeout"}
    PROVE  \/ pc[v] \in {"expire", "timeout"} /\ job'[v] = job[v]
           \/ /\ IsExpired(copy'[v])
              /\ job'[v].id \in Ids /\ job'[v].id \in issued
              /\ \/ cache[job'[v].id].status # "absent" /\ copy'[v] = cache[job'[v].id]
                 \/ pc[v] \in Holding /\ job'[v] = job[v] /\ copy'[v] = copy[v]
<1>1. CASE Start(v)
  BY <1>1, Moves DEF Start, StartLimit, StartTerminate, StartCount, StartAttempt, StartSession,
                     StartStore, Ends, Typing, TypeOK
<1>2. CASE Receive(v) \/ Lookup(v)
  <2>1. IsExpired(copy'[v])
    <3>1. \A op \in TokenOps : FirstWrite[op] \notin {"expire", "timeout"}
      BY DEF TokenOps, FirstWrite
    <3>. QED  BY <1>2, <3>1, Reading DEF Ends, FindsExpired
  <2>2. ~Ends(v)
    BY DEF Ends
  <2>. QED  BY <1>2, <2>1, <2>2, ReadingRow DEF Fill, Holding
<1>3. CASE Handle(v)
  BY <1>3, HandleLabels DEF Ends
<1>4. CASE Stays(v) \/ Ends(v)
  BY <1>4 DEF Stays, Ends
<1>. QED  BY <1>1, <1>2, <1>3, <1>4, Turn DEF Acts

LEMMA OpeningStep ==
    ASSUME Typing, [Next]_vars, NEW v \in Workers, pc'[v] = "session"
    PROVE  \/ pc[v] = "session" /\ job'[v] = job[v] /\ ~StartSession(v)
           \/ StartAttempt(v)
<1>1. CASE Start(v)
  BY <1>1, Moves DEF Start, StartLimit, StartTerminate, StartCount, StartSession,
                     StartStore, Ends, Typing, TypeOK
<1>2. CASE Receive(v) \/ Lookup(v)
  BY <1>2, ReadingLabels
<1>3. CASE Handle(v)
  BY <1>3, HandleLabels DEF Ends
<1>4. CASE Stays(v) \/ Ends(v)
  BY <1>4 DEF Stays, Ends, StartSession, Typing, TypeOK
<1>. QED  BY <1>1, <1>2, <1>3, <1>4, Turn DEF Acts

LEMMA UniqueNext ==
    ASSUME Typing, Present, Unique, [Next]_vars
    PROVE  Unique'
<1>. SUFFICES ASSUME NEW v \in Workers, NEW w \in Workers,
                     pc'[v] = "session", pc'[w] = "session", job'[v].id = job'[w].id, v # w
              PROVE  FALSE
  BY DEF Unique
<1>1. ASSUME NEW a \in Workers, NEW b \in Workers, a # b, StartAttempt(a), pc'[b] = "session",
             job'[a].id = job'[b].id
      PROVE  FALSE
  <2>1. pc[b] = "session" /\ job'[b] = job[b]
    BY <1>1, OthersStay DEF Start, Others, Stays
  <2>2. job[b].id \in Attempts
    BY <2>1 DEF Present
  <2>. QED  BY <1>1, <2>1, <2>2, NewAttempt
<1>. QED  BY <1>1, OpeningStep DEF Unique

LEMMA RequestDatesNext ==
    ASSUME Typing, Present, Dates, [Next]_vars
    PROVE  RequestDates'
<1>. now \in Nat /\ now' \in Nat /\ now <= now' /\ session \in [Ids -> Row]
  BY NowStep DEF Typing, TypeOK
<1>. RowDates /\ RequestDates /\ Unique
  BY DEF Dates
<1>1. ASSUME NEW s, NEW i \in Ids, Dated(s, i), session[i].status # "absent"
      PROVE  /\ session'[i].status # "absent"
             /\ s.status # "absent" /\ s.expires = session'[i].expires
             /\ s.status = "expired" => s.expires <= now'
  <2>1. session[i].expires \in Nat
    BY DEF Row
  <2>. QED  BY <1>1, <2>1, EndStays DEF Dated
<1>2. ASSUME NEW v \in Workers, pc[v] \in Holding \cup {"expire", "timeout"}
      PROVE  job[v].id \in Ids
  BY <1>2 DEF Holding, Typing, TypeOK, JobOK, StartLabels
<1>3. ASSUME NEW i \in issued
      PROVE  i \in Ids /\ session[i].status # "absent" /\ Dated(session[i], i)
  BY <1>3 DEF RowDates, Dated, Typing, TypeOK
<1>4. ASSUME NEW v \in Workers, pc'[v] \in Holding
      PROVE  /\ session'[job'[v].id].status # "absent"
             /\ copy'[v].status # "absent" /\ copy'[v].expires = session'[job'[v].id].expires
             /\ copy'[v].status = "expired" => copy'[v].expires <= now'
  <2>1. CASE StartSession(v)
    BY <2>1 DEF StartSession, Typing, TypeOK, JobOK
  <2>2. CASE ~StartSession(v)
    <3>1. PICK i \in Ids : job'[v].id = i /\ Dated(copy'[v], i) /\ session[i].status # "absent"
      BY <1>2, <1>3, <1>4, <2>2, HoldingStep DEF RowDates, RequestDates
    <3>. QED  BY <1>1, <3>1
  <2>. QED  BY <2>1, <2>2
<1>5. ASSUME NEW v \in Workers, pc'[v] \in {"expire", "timeout"}
      PROVE  session'[job'[v].id].status # "absent" /\ session'[job'[v].id].expires <= now'
  <2>1. PICK i \in Ids : job'[v].id = i /\ Ended(i)
    <3>1. CASE pc[v] \in {"expire", "timeout"} /\ job'[v] = job[v]
      BY <1>2, <3>1 DEF RequestDates
    <3>2. ASSUME NEW i \in Ids, Dated(copy'[v], i), session[i].status # "absent",
                 IsExpired(copy'[v])
          PROVE  Ended(i)
      BY <3>2 DEF Dated, IsExpired, Ended, Row
    <3>3. CASE /\ IsExpired(copy'[v]) /\ job'[v].id \in Ids
               /\ \/ cache[job'[v].id].status # "absent" /\ copy'[v] = cache[job'[v].id]
                  \/ pc[v] \in Holding /\ job'[v] = job[v] /\ copy'[v] = copy[v]
      <4>1. Dated(copy'[v], job'[v].id) /\ session[job'[v].id].status # "absent"
        BY <3>3 DEF RowDates, RequestDates
      <4>. QED  BY <3>2, <3>3, <4>1
    <3>. QED  BY <1>5, <3>1, <3>3, EndingStep
  <2>. QED  BY <2>1, EndedStays DEF Ended
<1>6. ASSUME NEW v \in Workers, pc'[v] = "session"
      PROVE  session'[job'[v].id].status = "absent"
  <2>1. CASE StartAttempt(v)
    <3>1. PICK i \in Ids : i \notin Attempts /\ job'[v].id = i
      BY <2>1, NewAttempt
    <3>2. session[i].status = "absent"
      BY <3>1 DEF Present, Sessions
    <3>. QED  BY <2>1, <3>1, <3>2 DEF StartAttempt
  <2>2. CASE pc[v] = "session" /\ job'[v] = job[v] /\ ~StartSession(v)
    <3>1. job[v].id \in Ids /\ session[job[v].id].status = "absent"
      BY <2>2 DEF RequestDates, Typing, JobOK
    <3>2. ASSUME NEW w \in Workers, StartSession(w), job[w].id = job[v].id
          PROVE  FALSE
      <4>1. pc[w] = "session"
        BY <3>2 DEF StartSession
      <4>. QED  BY <2>2, <3>2, <4>1 DEF Unique
    <3>. QED  BY <2>2, <3>1, <3>2, AbsentStays
  <2>. QED  BY <1>6, <2>1, <2>2, OpeningStep
<1>. QED  BY <1>4, <1>5, <1>6 DEF RequestDates, Dated, Ended

LEMMA DatesInit == Init => Dates
  BY DEF Init, Dates, RowDates, CronDates, RequestDates, Unique, NoRow, CronIdle, NothingRead,
         Holding

LEMMA DatesNext ==
    ASSUME Typing, Present, Dates, [Next]_vars
    PROVE  Dates'
  BY RowDatesNext, CronDatesNext, RequestDatesNext, UniqueNext DEF Dates

\* Handed in is handed in until the end of the session, whatever stale copy of the
\* row a request or the cron works from.
THEOREM HandInStands == Spec => HandedInUntilTime
<1>1. ASSUME Typing, Present, Dates, [Next]_vars, NEW i \in Ids,
             attempt[i].status = "submitted", attempt'[i].status # "submitted"
      PROVE  attempt'[i].status = "timed_out" /\ session[i].expires <= now
  <2>1. ASSUME NEW w \in Workers, StartAttempt(w)
        PROVE  attempt'[i] = attempt[i]
    BY <1>1, <2>1, NewAttempt DEF Attempts
  <2>2. ASSUME NEW k \in Ids, NEW a, NEW st \in {"submitted", "timed_out"},
               attempt' = [attempt EXCEPT ![k].status = st, ![k].answers = a]
        PROVE  st = "timed_out" /\ k = i /\ attempt'[i].status = "timed_out"
    BY <1>1, <2>2, ClosingRow, ZenonT(40) DEF AttemptStatus
  <2>3. ASSUME NEW k \in Ids, NEW g, attempt' = [attempt EXCEPT ![k].grading = g]
        PROVE  attempt'[i].status = attempt[i].status
    BY <2>3, MarkingRow
  <2>4. ASSUME CronTimeOut, cron.at = i
        PROVE  session[i].expires <= now
    BY <1>1, <2>4 DEF CronTimeOut, Dates, CronDates, Ended
  <2>5. ASSUME NEW w \in Workers, TimeOut(w), job[w].id = i
        PROVE  session[i].expires <= now
    BY <1>1, <2>5 DEF TimeOut, Dates, RequestDates, Ended
  <2>6. CASE \E k \in Ids, a \in SUBSET Questions :
                 /\ \/ CronTimeOut /\ k = cron.at
                    \/ \E w \in Workers : TimeOut(w) /\ k = job[w].id /\ a = copy[w].answers
                 /\ TimedOut(k, a)
    <3>1. PICK k \in Ids, a \in SUBSET Questions :
                 /\ \/ CronTimeOut /\ k = cron.at
                    \/ \E w \in Workers : TimeOut(w) /\ k = job[w].id
                 /\ TimedOut(k, a)
      BY <2>6
    <3>2. k = i /\ attempt'[i].status = "timed_out"
      BY <2>2, <3>1 DEF TimedOut
    <3>3. session[i].expires <= now
      BY <3>1, <3>2, <2>4, <2>5
    <3>. QED  BY <3>2, <3>3
  <2>. QED  BY <1>1, <2>1, <2>2, <2>3, <2>6, AttemptRows
<1>2. Typing /\ Present /\ Dates /\ [Next]_vars => (Typing /\ Present /\ Dates)'
  BY TypingNext, PresentNext, DatesNext
<1>3. Typing /\ Present /\ Dates /\ [Next]_vars
        => [\A i \in Ids : attempt[i].status = "submitted" /\ attempt'[i].status # "submitted" =>
              attempt'[i].status = "timed_out" /\ session[i].expires <= now]_vars
  BY <1>1
<1>. QED  BY <1>2, <1>3, TypingInit, PresentInit, DatesInit, PTL DEF Spec, HandedInUntilTime
=============================================================================
