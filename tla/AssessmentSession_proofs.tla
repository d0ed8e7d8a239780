---------------------- MODULE AssessmentSession_proofs ----------------------
(* Theorems about AssessmentSession, for any number of requests, attempts and *)
(* questions and any setting of the assessment.                              *)
EXTENDS AssessmentSession, FiniteSetTheorems, TLAPS

-----------------------------------------------------------------------------
(* Typing.  That a request writes rows that exist depends on where it stands:  *)
(* only a start carries no id, and only until it has saved its attempt.        *)

StartLabels == {"terminate", "count", "attempt", "session", "store"}

JobOK ==
    \A w \in Workers :
        /\ pc[w] \in {"idle", "terminate", "count", "attempt"} => job[w].id = NoId
        /\ pc[w] \in {"session", "store"} => job[w].id \in Ids
        /\ pc[w] \notin StartLabels \cup {"idle"} =>
               job[w].id \in issued /\ job[w].op \in TokenOps

CronOK == cron.pc = "timeout" => cron.at \in Ids

Typing == TypeOK /\ JobOK /\ CronOK

LEMMA RowTypes ==
    /\ NoRow \in Row
    /\ NoAttempt \in Attempt
    /\ NoJob \in Job
    /\ NothingRead \in [Ids -> Row]
  BY DEF NoRow, Row, NoAttempt, Attempt, NoJob, Job, NothingRead

LEMMA CachePutTypes ==
    ASSUME TypeOK, NEW i, NEW s \in Row, CachePut(i, s)
    PROVE  cache' \in [Ids -> Row]
  BY DEF TypeOK, CachePut

LEMMA AnsweredType ==
    ASSUME TypeOK, NEW w \in Workers
    PROVE  Answered(w) \in Row
<1>1. copy[w] \in Row /\ job[w].answer \subseteq Questions
  BY DEF TypeOK, Job
<1>2. copy[w].answers \cup job[w].answer \in SUBSET Questions
  BY <1>1 DEF Row
<1>. QED  BY <1>1, <1>2 DEF Answered, Row

LEMMA RowUpdate ==
    ASSUME NEW s \in Row, NEW st \in SessionStatus \cup {"absent"},
           NEW a \in SUBSET Questions, NEW v \in Nat
    PROVE  /\ [s EXCEPT !.status = st] \in Row
           /\ [s EXCEPT !.answers = a] \in Row
           /\ [s EXCEPT !.violations = v, !.status = st] \in Row
  BY DEF Row

LEMMA AttemptUpdate ==
    ASSUME NEW t \in Attempt, NEW st \in AttemptStatus, NEW a \in SUBSET Questions,
           NEW g \in {"pending", "in_progress", "graded"}
    PROVE  /\ [t EXCEPT !.status = st, !.answers = a] \in Attempt
           /\ [t EXCEPT !.grading = g] \in Attempt
  BY DEF Attempt

\* A row that changes in one field to a value of that field is still a row.
LEMMA SetRow ==
    ASSUME TypeOK, NEW i,
           NEW st \in SessionStatus \cup {"absent"}, NEW a \in SUBSET Questions, NEW v \in Nat
    PROVE  /\ [session EXCEPT ![i].status = st] \in [Ids -> Row]
           /\ [session EXCEPT ![i].answers = a] \in [Ids -> Row]
           /\ [session EXCEPT ![i].violations = v, ![i].status = st] \in [Ids -> Row]
<1>1. session \in [Ids -> Row]
  BY DEF TypeOK
<1>2. CASE i \in Ids
  <2>1. session[i] \in Row
    BY <1>1, <1>2
  <2>2. [session EXCEPT ![i].violations = v, ![i].status = st]
          = [session EXCEPT ![i] = [session[i] EXCEPT !.violations = v, !.status = st]]
    BY <1>1, <1>2
  <2>. QED  BY <1>1, <1>2, <2>1, <2>2, RowUpdate
<1>3. CASE i \notin Ids
  BY <1>1, <1>3
<1>. QED  BY <1>2, <1>3

LEMMA SetAttempt ==
    ASSUME TypeOK, NEW i, NEW st \in AttemptStatus, NEW a \in SUBSET Questions,
           NEW g \in {"pending", "in_progress", "graded"}
    PROVE  /\ [attempt EXCEPT ![i].status = st, ![i].answers = a] \in [Ids -> Attempt]
           /\ [attempt EXCEPT ![i].grading = g] \in [Ids -> Attempt]
<1>1. attempt \in [Ids -> Attempt]
  BY DEF TypeOK
<1>2. CASE i \in Ids
  <2>1. attempt[i] \in Attempt
    BY <1>1, <1>2
  <2>2. [attempt EXCEPT ![i].status = st, ![i].answers = a]
          = [attempt EXCEPT ![i] = [attempt[i] EXCEPT !.status = st, !.answers = a]]
    BY <1>1, <1>2
  <2>. QED  BY <1>1, <1>2, <2>1, <2>2, AttemptUpdate
<1>3. CASE i \notin Ids
  BY <1>1, <1>3
<1>. QED  BY <1>2, <1>3

LEMMA AttemptsFinite ==
    /\ IsFiniteSet(Attempts)
    /\ Cardinality(Attempts) \in Nat
  BY IdsAssumption, FS_Subset, FS_CardinalityType DEF Attempts

LEMMA CronTypes ==
    ASSUME TypeOK, NEW i, CronDone(i)
    PROVE  cron' \in [pc : {"idle", "expire", "timeout"}, at : Ids \cup {NoId},
                      read : [Ids -> Row]]
  BY RowTypes DEF TypeOK, CronDone, CronIdle

LEMMA TypingInit == Init => Typing
  BY RowTypes DEF Init, Typing, TypeOK, JobOK, CronOK, CronIdle, PC, NoJob

\* The requests that are not w stand where they stood.
LEMMA OthersJob ==
    ASSUME Typing, NEW w \in Workers, NEW label \in PC, NEW j \in Job,
           pc' = [pc EXCEPT ![w] = label], job' = [job EXCEPT ![w] = j],
           issued \subseteq issued',
           label \in {"idle", "terminate", "count", "attempt"} => j.id = NoId,
           label \in {"session", "store"} => j.id \in Ids,
           label \notin StartLabels \cup {"idle"} => j.id \in issued' /\ j.op \in TokenOps
    PROVE  JobOK' /\ pc' \in [Workers -> PC] /\ job' \in [Workers -> Job]
<1>1. pc \in [Workers -> PC] /\ job \in [Workers -> Job]
  BY DEF Typing, TypeOK
<1>2. \A v \in Workers : v # w => pc'[v] = pc[v] /\ job'[v] = job[v]
  BY <1>1
<1>3. pc'[w] = label /\ job'[w] = j
  BY <1>1
<1>. QED  BY <1>1, <1>2, <1>3 DEF Typing, JobOK

LEMMA FinishTypes ==
    ASSUME Typing, NEW w \in Workers, Finish(w), issued \subseteq issued'
    PROVE  /\ JobOK' /\ pc' \in [Workers -> PC] /\ job' \in [Workers -> Job]
           /\ copy' \in [Workers -> Row] /\ number' \in [Workers -> Nat]
<1>1. "idle" \in PC /\ NoJob.id = NoId
  BY DEF PC, NoJob
<1>2. pc' = [pc EXCEPT ![w] = "idle"] /\ job' = [job EXCEPT ![w] = NoJob]
  BY DEF Finish
<1>3. JobOK' /\ pc' \in [Workers -> PC] /\ job' \in [Workers -> Job]
  BY <1>1, <1>2, RowTypes, OthersJob DEF StartLabels
<1>. QED  BY <1>3, RowTypes DEF Finish, Typing, TypeOK

\* A step from one label to the next of the same handler.
LEMMA GotoTypes ==
    ASSUME Typing, NEW w \in Workers, NEW label \in PC, Goto(w, label),
           issued \subseteq issued',
           \/ pc[w] \in {"terminate", "count"} /\ label \in {"count", "attempt"}
           \/ pc[w] \notin StartLabels \cup {"idle"} /\ label \notin StartLabels \cup {"idle"}
    PROVE  /\ JobOK' /\ pc' \in [Workers -> PC] /\ job' \in [Workers -> Job]
           /\ copy' \in [Workers -> Row] /\ number' \in [Workers -> Nat]
<1>1. job \in [Workers -> Job] /\ job[w] \in Job
  BY DEF Typing, TypeOK
<1>2. job' = [job EXCEPT ![w] = job[w]]
  BY <1>1 DEF Goto
<1>3. pc' = [pc EXCEPT ![w] = label]
  BY DEF Goto
<1>4. JobOK' /\ pc' \in [Workers -> PC] /\ job' \in [Workers -> Job]
  <2>1. CASE pc[w] \in {"terminate", "count"} /\ label \in {"count", "attempt"}
    BY <1>1, <1>2, <1>3, <2>1, OthersJob DEF Typing, JobOK, StartLabels
  <2>2. CASE pc[w] \notin StartLabels \cup {"idle"} /\ label \notin StartLabels \cup {"idle"}
    BY <1>1, <1>2, <1>3, <2>2, OthersJob DEF Typing, JobOK, StartLabels
  <2>. QED  BY <2>1, <2>2
<1>. QED  BY <1>4 DEF Goto, Typing, TypeOK

LEMMA ContinueTypes ==
    ASSUME Typing, NEW w \in Workers, NEW j \in Job, NEW s \in Row,
           NEW label \in PC \ (StartLabels \cup {"idle"}), Continue(w, j, s, label),
           issued \subseteq issued', j.id \in issued', j.op \in TokenOps
    PROVE  /\ JobOK' /\ pc' \in [Workers -> PC] /\ job' \in [Workers -> Job]
           /\ copy' \in [Workers -> Row] /\ number' \in [Workers -> Nat]
<1>1. JobOK' /\ pc' \in [Workers -> PC] /\ job' \in [Workers -> Job]
  BY OthersJob DEF Continue, StartLabels
<1>. QED  BY <1>1 DEF Continue, Typing, TypeOK

LEMMA DispatchTypes ==
    ASSUME Typing, NEW w \in Workers, NEW j \in Job, NEW s \in Row, Dispatch(w, j, s),
           issued \subseteq issued', j.id \in issued', j.op \in TokenOps
    PROVE  /\ JobOK' /\ pc' \in [Workers -> PC] /\ job' \in [Workers -> Job]
           /\ copy' \in [Workers -> Row] /\ number' \in [Workers -> Nat]
<1>1. FirstWrite[j.op] \in PC \ (StartLabels \cup {"idle"})
  BY DEF FirstWrite, TokenOps, PC, StartLabels
<1>2. "expire" \in PC \ (StartLabels \cup {"idle"})
  BY DEF PC, StartLabels
<1>3. CASE Finish(w)
  BY <1>3, FinishTypes
<1>4. CASE Continue(w, j, s, "expire")
  BY <1>2, <1>4, ContinueTypes
<1>5. CASE Continue(w, j, s, FirstWrite[j.op])
  BY <1>1, <1>5, ContinueTypes
<1>. QED  BY <1>3, <1>4, <1>5 DEF Dispatch

LEMMA TypingStart ==
    ASSUME Typing, NEW w \in Workers, Start(w)
    PROVE  Typing'
<1>. StartLabels \subseteq PC /\ "idle" \in PC
  BY DEF PC, StartLabels
<1>. job[w] \in Job /\ copy[w] \in Row /\ TypeOK
  BY DEF Typing, TypeOK
<1>1. CASE StartLimit(w)
  <2>1. [NoJob EXCEPT !.op = "start"] \in Job /\ [NoJob EXCEPT !.op = "start"].id = NoId
    BY DEF NoJob, Job
  <2>2. JobOK' /\ pc' \in [Workers -> PC] /\ job' \in [Workers -> Job]
    BY <1>1, <2>1, OthersJob DEF StartLimit, StartLabels
  <2>. QED  BY <1>1, <2>2 DEF StartLimit, Typing, TypeOK, CronOK, rows
<1>2. CASE StartTerminate(w)
  <2>1. \A i \in Ids : session[i] \in Row
    BY DEF TypeOK
  <2>2. \A i \in Ids : [session[i] EXCEPT !.status = "terminated"] \in Row
    BY <2>1 DEF Row, SessionStatus
  <2>3. session' \in [Ids -> Row]
    BY <1>2, <2>1, <2>2 DEF StartTerminate
  <2>. QED  BY <1>2, <2>3, GotoTypes DEF StartTerminate, Typing, TypeOK, CronOK, StartLabels
<1>3. CASE StartCount(w)
  <2>1. job' = [job EXCEPT ![w] = job[w]]
    BY <1>3 DEF StartCount, TypeOK
  <2>2. JobOK' /\ pc' \in [Workers -> PC] /\ job' \in [Workers -> Job]
    BY <1>3, <2>1, OthersJob DEF StartCount, Typing, JobOK, StartLabels
  <2>. QED  BY <1>3, <2>2, AttemptsFinite
         DEF StartCount, NextNumber, Typing, TypeOK, CronOK, rows
<1>4. CASE StartAttempt(w)
  <2>1. PICK i \in Ids :
          /\ attempt' = [attempt EXCEPT ![i] =
                [NoAttempt EXCEPT !.status = "in_progress", !.number = number[w]]]
          /\ job' = [job EXCEPT ![w].id = i]
    BY <1>4 DEF StartAttempt
  <2>2. [NoAttempt EXCEPT !.status = "in_progress", !.number = number[w]] \in Attempt
    BY DEF TypeOK, Attempt, NoAttempt, AttemptStatus
  <2>3. attempt' \in [Ids -> Attempt]
    BY <2>1, <2>2 DEF TypeOK
  <2>4. [job[w] EXCEPT !.id = i] \in Job /\ [job[w] EXCEPT !.id = i].id = i
    BY DEF Job
  <2>5. job' = [job EXCEPT ![w] = [job[w] EXCEPT !.id = i]]
    BY <2>1 DEF TypeOK
  <2>6. pc' = [pc EXCEPT ![w] = "session"]
        /\ UNCHANGED <<session, cache, grades, issued, acked, copy, number, cron, now, crashes>>
    BY <1>4 DEF StartAttempt
  <2>7. JobOK' /\ pc' \in [Workers -> PC] /\ job' \in [Workers -> Job]
    BY <2>4, <2>5, <2>6, OthersJob DEF StartLabels
  <2>. QED  BY <2>3, <2>6, <2>7 DEF Typing, TypeOK, CronOK
<1>5. CASE StartSession(w)
  <2>. DEFINE row == [status |-> "active", expires |-> now + TimeLimit, answers |-> {},
                      violations |-> 0]
  <2>1. row \in Row
    <3>1. now + TimeLimit \in Nat
      BY LimitsAssumption DEF TypeOK
    <3>2. "active" \in SessionStatus
      BY DEF SessionStatus, Open
    <3>. QED  BY <3>1, <3>2 DEF Row
  <2>2. session' = [session EXCEPT ![job[w].id] = row] /\ copy' = [copy EXCEPT ![w] = row]
    BY <1>5 DEF StartSession
  <2>. HIDE DEF row
  <2>3. session' \in [Ids -> Row] /\ copy' \in [Workers -> Row]
    BY <2>1, <2>2 DEF TypeOK
  <2>4. job' = [job EXCEPT ![w] = job[w]]
    BY <1>5 DEF StartSession, TypeOK
  <2>5. JobOK' /\ pc' \in [Workers -> PC] /\ job' \in [Workers -> Job]
    BY <1>5, <2>4, OthersJob DEF StartSession, Typing, JobOK, StartLabels
  <2>. QED  BY <1>5, <2>3, <2>5 DEF StartSession, Typing, TypeOK, CronOK
<1>6. CASE StartStore(w)
  <2>1. cache' \in [Ids -> Row]
    BY <1>6, CachePutTypes DEF StartStore
  <2>2. job[w].id \in Ids
    BY <1>6 DEF StartStore, Typing, JobOK
  <2>3. issued' = issued \cup {job[w].id} /\ issued' \subseteq Ids
    BY <1>6, <2>2 DEF StartStore, TypeOK
  <2>. QED  BY <1>6, <2>1, <2>3, FinishTypes DEF StartStore, Typing, TypeOK, CronOK, rows
<1>. QED  BY <1>1, <1>2, <1>3, <1>4, <1>5, <1>6 DEF Start

LEMMA TypingReceive ==
    ASSUME Typing, NEW w \in Workers, Receive(w)
    PROVE  Typing'
<1>1. PICK op \in Ops \cap TokenOps, i \in issued, q \in Questions :
        LET j == [op |-> op, id |-> i, answer |-> IF op = "answer" THEN {q} ELSE {}]
        IN  \/ Dispatch(w, j, cache[i])
            \/ Continue(w, j, NoRow, "find")
  BY DEF Receive
<1>. DEFINE j == [op |-> op, id |-> i, answer |-> IF op = "answer" THEN {q} ELSE {}]
<1>2. j \in Job /\ j.id \in issued /\ j.op \in TokenOps /\ i \in Ids
  BY DEF Job, Typing, TypeOK
<1>3. cache[i] \in Row /\ "find" \in PC \ (StartLabels \cup {"idle"})
  BY <1>2 DEF Typing, TypeOK, PC, StartLabels
<1>4. UNCHANGED <<rows, cache, issued, acked, cron, now, crashes>>
  BY DEF Receive
<1>5. Dispatch(w, j, cache[i]) \/ Continue(w, j, NoRow, "find")
  BY <1>1
<1>. HIDE DEF j
<1>6. /\ JobOK' /\ pc' \in [Workers -> PC] /\ job' \in [Workers -> Job]
      /\ copy' \in [Workers -> Row] /\ number' \in [Workers -> Nat]
  BY <1>2, <1>3, <1>4, <1>5, RowTypes, DispatchTypes, ContinueTypes
<1>. QED  BY <1>4, <1>6 DEF Typing, TypeOK, CronOK, rows

LEMMA TypingLookup ==
    ASSUME Typing, NEW w \in Workers, Lookup(w)
    PROVE  Typing'
<1>. TypeOK /\ job[w] \in Job /\ copy[w] \in Row
  BY DEF Typing, TypeOK
<1>1. job[w].id \in issued /\ job[w].id \in Ids /\ job[w].op \in TokenOps
  BY DEF Lookup, Find, Fill, Typing, TypeOK, JobOK, StartLabels
<1>2. CASE Find(w)
  <2>1. session[job[w].id] \in Row /\ "fill" \in PC \ (StartLabels \cup {"idle"})
    BY <1>1 DEF TypeOK, PC, StartLabels
  <2>. QED  BY <1>1, <1>2, <2>1, ContinueTypes DEF Find, Typing, TypeOK, CronOK, rows
<1>3. CASE Fill(w)
  <2>1. cache' \in [Ids -> Row]
    BY <1>3, CachePutTypes DEF Fill
  <2>. QED  BY <1>1, <1>3, <2>1, DispatchTypes DEF Fill, Typing, TypeOK, CronOK, rows
<1>. QED  BY <1>2, <1>3 DEF Lookup

LEMMA TypingHandle ==
    ASSUME Typing, NEW w \in Workers, Handle(w)
    PROVE  Typing'
<1>. TypeOK /\ job[w] \in Job /\ copy[w] \in Row
  BY DEF Typing, TypeOK
<1>. DEFINE id == job[w].id
            After == {"save", "handin", "clear", "gradeCheck", "gradeInsert",
                      "gradeMark", "gradeFail", "timeout"}
<1>1. After \subseteq PC /\ After \cap (StartLabels \cup {"idle"}) = {}
  BY DEF PC, StartLabels
<1>2. /\ copy[w].answers \in SUBSET Questions /\ copy[w].violations \in Nat
      /\ job[w].answer \in SUBSET Questions
      /\ {"completed", "expired", "terminated", "active", "paused"} \subseteq SessionStatus
  BY DEF Row, Job, SessionStatus, Open
<1>3. Answered(w) \in Row /\ Answered(w).answers \in SUBSET Questions
  BY AnsweredType DEF Row
<1>4. ASSUME NEW label \in After, Goto(w, label), UNCHANGED issued,
             pc[w] \notin StartLabels \cup {"idle"}
      PROVE  /\ JobOK' /\ pc' \in [Workers -> PC] /\ job' \in [Workers -> Job]
             /\ copy' \in [Workers -> Row] /\ number' \in [Workers -> Nat]
  BY <1>1, <1>4, GotoTypes
<1>. HIDE DEF id
<1>5. CASE Touch(w)
  <2>1. cache' \in [Ids -> Row]
    BY <1>5, CachePutTypes DEF Touch
  <2>. QED  BY <1>5, <2>1, FinishTypes DEF Touch, Typing, TypeOK, CronOK, rows
<1>6. CASE WriteAnswer(w)
  <2>1. session' \in [Ids -> Row]
    BY <1>3, <1>6, SetRow DEF WriteAnswer, SessionStatus
  <2>. QED  BY <1>4, <1>6, <2>1 DEF WriteAnswer, Typing, TypeOK, CronOK, StartLabels
<1>7. CASE SaveAnswer(w)
  <2>1. cache' \in [Ids -> Row]
    BY <1>3, <1>7, CachePutTypes DEF SaveAnswer
  <2>2. acked' \in [Ids -> SUBSET Questions]
    BY <1>2, <1>7 DEF SaveAnswer, TypeOK
  <2>. QED  BY <1>7, <2>1, <2>2, FinishTypes DEF SaveAnswer, Typing, TypeOK, CronOK, rows
<1>8. CASE Complete(w)
  <2>1. session' \in [Ids -> Row]
    BY <1>2, <1>8, SetRow DEF Complete
  <2>. QED  BY <1>4, <1>8, <2>1 DEF Complete, Typing, TypeOK, CronOK, StartLabels
<1>9. CASE HandIn(w)
  <2>1. attempt' \in [Ids -> Attempt]
    BY <1>2, <1>9, SetAttempt DEF HandIn, AttemptStatus
  <2>. QED  BY <1>4, <1>9, <2>1 DEF HandIn, Typing, TypeOK, CronOK, StartLabels
<1>10. CASE Clear(w)
  <2>1. cache' \in [Ids -> Row]
    BY <1>10, RowTypes, CachePutTypes DEF Clear, CacheDel
  <2>2. Goto(w, "gradeCheck") \/ Finish(w)
    BY <1>10 DEF Clear
  <2>3. /\ JobOK' /\ pc' \in [Workers -> PC] /\ job' \in [Workers -> Job]
        /\ copy' \in [Workers -> Row] /\ number' \in [Workers -> Nat]
    BY <1>4, <1>10, <2>2, FinishTypes DEF Clear, StartLabels
  <2>. QED  BY <1>10, <2>1, <2>3 DEF Clear, Typing, TypeOK, CronOK, rows
<1>11. CASE GradeCheck(w)
  BY <1>4, <1>11 DEF GradeCheck, Typing, TypeOK, CronOK, rows, StartLabels
<1>12. CASE GradeInsert(w)
  <2>1. grades' \in [Ids -> Nat]
    <3>1. job[w].id \in Ids
      BY <1>12 DEF GradeInsert, Typing, TypeOK, JobOK, StartLabels
    <3>. QED  BY <1>12, <3>1 DEF GradeInsert, TypeOK
  <2>. QED  BY <1>4, <1>12, <2>1 DEF GradeInsert, Typing, TypeOK, CronOK, StartLabels
<1>13. CASE GradeMark(w)
  <2>1. attempt' \in [Ids -> Attempt]
    BY <1>13, SetAttempt DEF GradeMark, AttemptStatus
  <2>. QED  BY <1>13, <2>1, FinishTypes DEF GradeMark, Typing, TypeOK, CronOK
<1>14. CASE GradeFail(w)
  <2>1. attempt' \in [Ids -> Attempt]
    BY <1>14, SetAttempt DEF GradeFail, AttemptStatus
  <2>. QED  BY <1>14, <2>1, FinishTypes DEF GradeFail, Typing, TypeOK, CronOK
<1>15. CASE Violate(w)
  <2>1. PICK count \in Nat, st \in SessionStatus \cup {"absent"} :
          session' = [session EXCEPT ![job[w].id].violations = count,
                                     ![job[w].id].status = st]
    <3>. DEFINE count == IF copy[w].violations + 1 < MaxViolations
                         THEN copy[w].violations + 1 ELSE MaxViolations
                st == IF count = MaxViolations THEN "terminated"
                      ELSE session[job[w].id].status
    <3>1. count \in Nat
      BY <1>2, LimitsAssumption
    <3>2. job[w].id \in Ids
      BY <1>15 DEF Violate, Typing, TypeOK, JobOK, StartLabels
    <3>3. session[job[w].id].status \in SessionStatus \cup {"absent"}
      BY <3>2 DEF TypeOK, Row
    <3>4. st \in SessionStatus \cup {"absent"}
      BY <1>2, <3>3
    <3>5. session' = [session EXCEPT ![job[w].id].violations = count,
                                     ![job[w].id].status = st]
      BY <1>15, <3>2 DEF Violate, TypeOK
    <3>. HIDE DEF count, st
    <3>. QED  BY <3>1, <3>4, <3>5
  <2>2. session' \in [Ids -> Row]
    BY <2>1, SetRow
  <2>. QED  BY <1>15, <2>2, FinishTypes DEF Violate, Typing, TypeOK, CronOK
<1>16. CASE Pause(w)
  <2>1. session' \in [Ids -> Row]
    BY <1>2, <1>16, SetRow DEF Pause
  <2>. QED  BY <1>16, <2>1, FinishTypes DEF Pause, Typing, TypeOK, CronOK
<1>17. CASE Resume(w)
  <2>1. session' \in [Ids -> Row]
    BY <1>2, <1>17, SetRow DEF Resume
  <2>. QED  BY <1>17, <2>1, FinishTypes DEF Resume, Typing, TypeOK, CronOK
<1>18. CASE Expire(w)
  <2>1. session' \in [Ids -> Row]
    BY <1>2, <1>18, SetRow DEF Expire
  <2>. QED  BY <1>4, <1>18, <2>1 DEF Expire, Typing, TypeOK, CronOK, StartLabels
<1>19. CASE TimeOut(w)
  <2>1. attempt' \in [Ids -> Attempt]
    BY <1>2, <1>19, SetAttempt DEF TimeOut, TimedOut, AttemptStatus
  <2>. QED  BY <1>4, <1>19, <2>1 DEF TimeOut, Typing, TypeOK, CronOK, StartLabels
<1>. QED  BY <1>5, <1>6, <1>7, <1>8, <1>9, <1>10, <1>11, <1>12, <1>13, <1>14, <1>15,
             <1>16, <1>17, <1>18, <1>19 DEF Handle

LEMMA TypingRest ==
    ASSUME Typing, \/ Cron \/ StartUnavailable \/ Tick \/ \E i \in Ids : Evict(i)
    PROVE  Typing'
<1>. TypeOK
  BY DEF Typing
<1>1. CASE CronQuery
  <2>1. [i \in Ids |-> IF Overdue(i) THEN session[i] ELSE NoRow] \in [Ids -> Row]
    BY RowTypes DEF TypeOK
  <2>. QED  BY <1>1, <2>1
         DEF CronQuery, CronIdle, Typing, TypeOK, JobOK, CronOK, rows, locals
<1>2. CASE CronTimeOut
  <2>1. cron.at \in Ids
    BY <1>2 DEF CronTimeOut, Typing, CronOK
  <2>2. cron.read[cron.at].answers \in SUBSET Questions
    BY <2>1 DEF TypeOK, Row
  <2>3. attempt' \in [Ids -> Attempt]
    BY <1>2, <2>2, SetAttempt DEF CronTimeOut, TimedOut, AttemptStatus
  <2>4. CronDone(cron.at) /\ cron'.pc # "timeout"
    BY <1>2 DEF CronTimeOut, CronDone, CronIdle
  <2>. QED  BY <1>2, <2>3, <2>4, CronTypes
         DEF CronTimeOut, Typing, TypeOK, JobOK, CronOK, locals
<1>3. ASSUME NEW i \in Ids, CronExpire(i)
      PROVE  Typing'
  <2>1. session' \in [Ids -> Row]
    BY <1>3, SetRow DEF CronExpire, SessionStatus
  <2>2. CASE cron' = [cron EXCEPT !.pc = "timeout", !.at = i]
    BY <1>3, <2>1, <2>2 DEF CronExpire, Typing, TypeOK, JobOK, CronOK, locals
  <2>3. CASE CronDone(i)
    <3>1. cron'.pc # "timeout"
      BY <2>3 DEF CronDone, CronIdle
    <3>. QED  BY <1>3, <2>1, <2>3, <3>1, CronTypes
           DEF CronExpire, Typing, TypeOK, JobOK, CronOK, locals
  <2>. QED  BY <1>3, <2>2, <2>3 DEF CronExpire
<1>4. CASE StartUnavailable
  BY <1>4, RowTypes DEF StartUnavailable, CronIdle, Typing, TypeOK, JobOK, CronOK, rows, PC,
                        NoJob
<1>5. CASE Tick
  BY <1>5 DEF Tick, Typing, TypeOK, JobOK, CronOK, rows, locals
<1>6. ASSUME NEW i \in Ids, Evict(i)
      PROVE  Typing'
  BY <1>6, RowTypes DEF Evict, Typing, TypeOK, JobOK, CronOK, rows, locals
<1>. QED  BY <1>1, <1>2, <1>3, <1>4, <1>5, <1>6 DEF Cron

LEMMA TypingNext ==
    ASSUME Typing, [Next]_vars
    PROVE  Typing'
<1>1. CASE UNCHANGED vars
  BY <1>1 DEF vars, Typing, TypeOK, JobOK, CronOK
<1>2. CASE Next
  BY <1>2, TypingStart, TypingReceive, TypingLookup, TypingHandle, TypingRest DEF Next
<1>. QED  BY <1>1, <1>2

\* Every row, copy and local of every handler keeps its type, and every handler
\* that writes a row knows which one: TypeOK with JobOK and CronOK.
THEOREM TypeCorrect == Spec => []Typing
<1>1. Init => Typing
  BY TypingInit
<1>2. Typing /\ [Next]_vars => Typing'
  BY TypingNext
<1>. QED  BY <1>1, <1>2, PTL DEF Spec

THEOREM TypeSafe == Spec => []TypeOK
<1>1. Typing => TypeOK
  BY DEF Typing
<1>. QED  BY <1>1, TypeCorrect, PTL

-----------------------------------------------------------------------------
(* Attempts.  An attempt is saved before its session, and before anything     *)
(* can name it; so no handler brings an attempt into being but StartAttempt,  *)
(* and none takes one away.                                                   *)

Sessions == {i \in Ids : session[i].status # "absent"}

Present ==
    /\ Sessions \cup issued \subseteq Attempts
    /\ \A w \in Workers : pc[w] \in {"session", "store"} => job[w].id \in Attempts
    /\ \A i \in Ids : cron.read[i].status # "absent" => i \in Attempts
    /\ cron.pc = "timeout" => cron.at \in Attempts

LEMMA Closing ==
    ASSUME Typing, NEW i \in Ids, NEW st \in AttemptStatus, NEW a,
           attempt' = [attempt EXCEPT ![i].status = st, ![i].answers = a], i \in Attempts
    PROVE  Attempts' = Attempts
<1>1. attempt'[i].status = st /\ st # "absent"
  BY DEF Typing, TypeOK, Attempt, AttemptStatus
<1>2. \A k \in Ids : k # i => attempt'[k] = attempt[k]
  BY DEF Typing, TypeOK
<1>. QED  BY <1>1, <1>2 DEF Attempts

LEMMA Marking ==
    ASSUME Typing, NEW i \in Ids, NEW g, attempt' = [attempt EXCEPT ![i].grading = g]
    PROVE  Attempts' = Attempts
<1>1. \A k \in Ids : attempt'[k].status = attempt[k].status
  BY DEF Typing, TypeOK, Attempt
<1>. QED  BY <1>1 DEF Attempts

\* What the id of a request is, past getSessionByToken.
LEMMA Named ==
    ASSUME Typing, Present, NEW w \in Workers, pc[w] \notin StartLabels \cup {"idle"}
    PROVE  job[w].id \in Ids /\ job[w].id \in issued /\ job[w].id \in Attempts
  BY DEF Typing, TypeOK, JobOK, Present

LEMMA AttemptsStep ==
    ASSUME Typing, Present, [Next]_vars
    PROVE  Attempts' = Attempts \/ \E w \in Workers : StartAttempt(w)
<1>1. ASSUME UNCHANGED attempt
      PROVE  Attempts' = Attempts
  BY <1>1 DEF Attempts
<1>2. ASSUME NEW w \in Workers, HandIn(w)
      PROVE  Attempts' = Attempts
  BY <1>2, Named, Closing DEF HandIn, StartLabels, AttemptStatus
<1>3. ASSUME NEW w \in Workers, TimeOut(w)
      PROVE  Attempts' = Attempts
  BY <1>3, Named, Closing DEF TimeOut, TimedOut, StartLabels, AttemptStatus
<1>4. ASSUME NEW w \in Workers, GradeMark(w) \/ GradeFail(w)
      PROVE  Attempts' = Attempts
  BY <1>4, Named, Marking DEF GradeMark, GradeFail, StartLabels
<1>5. CASE CronTimeOut
  <2>1. cron.at \in Ids /\ cron.at \in Attempts
    BY <1>5 DEF CronTimeOut, Present, Typing, CronOK
  <2>. QED  BY <1>5, <2>1, Closing DEF CronTimeOut, TimedOut, AttemptStatus
<1>6. ASSUME NEW w \in Workers, Start(w), ~StartAttempt(w)
      PROVE  UNCHANGED attempt
  BY <1>6 DEF Start, StartLimit, StartTerminate, StartCount, StartSession, StartStore, rows
<1>7. ASSUME NEW w \in Workers, Receive(w) \/ Lookup(w)
      PROVE  UNCHANGED attempt
  BY <1>7 DEF Receive, Lookup, Find, Fill, rows
<1>8. ASSUME NEW w \in Workers, Handle(w), ~HandIn(w), ~TimeOut(w),
             ~(GradeMark(w) \/ GradeFail(w))
      PROVE  UNCHANGED attempt
  BY <1>8 DEF Handle, Touch, WriteAnswer, SaveAnswer, Complete, Clear, GradeCheck,
              GradeInsert, Violate, Pause, Resume, Expire, rows
<1>9. CASE Cron /\ ~CronTimeOut
  BY <1>1, <1>9 DEF Cron, CronQuery, CronExpire, rows
<1>10. CASE StartUnavailable \/ Tick \/ \E i \in Ids : Evict(i)
  BY <1>1, <1>10 DEF StartUnavailable, Tick, Evict, rows
<1>11. CASE UNCHANGED vars
  BY <1>1, <1>11 DEF vars
<1>. QED  BY <1>1, <1>2, <1>3, <1>4, <1>5, <1>6, <1>7, <1>8, <1>9, <1>10, <1>11 DEF Next

LEMMA NewAttempt ==
    ASSUME Typing, NEW w \in Workers, StartAttempt(w)
    PROVE  \E i \in Ids : /\ i \notin Attempts /\ Attempts' = Attempts \cup {i}
                          /\ job'[w].id = i
                          /\ attempt'[i].number = number[w]
                          /\ \A k \in Attempts : attempt'[k] = attempt[k]
<1>1. PICK i \in Ids :
        /\ attempt[i].status = "absent"
        /\ attempt' = [attempt EXCEPT ![i] =
              [NoAttempt EXCEPT !.status = "in_progress", !.number = number[w]]]
        /\ job' = [job EXCEPT ![w].id = i]
  BY DEF StartAttempt
<1>2. /\ attempt'[i].status = "in_progress"
      /\ attempt'[i].number = number[w]
  BY <1>1 DEF Typing, TypeOK, NoAttempt
<1>3. \A k \in Ids : k # i => attempt'[k] = attempt[k]
  BY <1>1 DEF Typing, TypeOK
<1>4. job'[w].id = i
  BY <1>1 DEF Typing, TypeOK, Job
<1>. QED  BY <1>1, <1>2, <1>3, <1>4 DEF Attempts

LEMMA WritingStatus ==
    ASSUME Typing, NEW i \in Ids, NEW st, i \in Attempts, Sessions \subseteq Attempts,
           \/ session' = [session EXCEPT ![i].status = st]
           \/ \E v : session' = [session EXCEPT ![i].violations = v, ![i].status = st]
    PROVE  Sessions' \subseteq Attempts
<1>1. \A k \in Ids : k # i => session'[k] = session[k]
  BY DEF Typing, TypeOK
<1>. QED  BY <1>1 DEF Sessions

LEMMA SessionsStep ==
    ASSUME Typing, Present, [Next]_vars
    PROVE  Sessions' \subseteq Attempts
<1>. Sessions \subseteq Attempts /\ session \in [Ids -> Row]
  BY DEF Present, Typing, TypeOK
<1>1. ASSUME UNCHANGED session
      PROVE  Sessions' \subseteq Attempts
  BY <1>1 DEF Sessions
<1>2. ASSUME NEW w \in Workers, StartTerminate(w)
      PROVE  Sessions' \subseteq Attempts
  <2>1. \A i \in Ids : session[i].status = "absent" => session'[i].status = "absent"
    BY <1>2 DEF StartTerminate, Superseded
  <2>. QED  BY <2>1 DEF Sessions
<1>3. ASSUME NEW w \in Workers, StartSession(w)
      PROVE  Sessions' \subseteq Attempts
  <2>1. job[w].id \in Attempts
    BY <1>3 DEF StartSession, Present
  <2>2. \A k \in Ids : k # job[w].id => session'[k] = session[k]
    BY <1>3 DEF StartSession
  <2>. QED  BY <2>1, <2>2 DEF Sessions
<1>4. ASSUME NEW w \in Workers, WriteAnswer(w)
      PROVE  Sessions' \subseteq Attempts
  <2>1. \A k \in Ids : session'[k].status = session[k].status
    BY <1>4 DEF WriteAnswer, Row
  <2>. QED  BY <2>1 DEF Sessions
<1>5. ASSUME NEW w \in Workers, Complete(w) \/ Pause(w) \/ Resume(w) \/ Expire(w) \/ Violate(w)
      PROVE  Sessions' \subseteq Attempts
  <2>1. job[w].id \in Ids /\ job[w].id \in Attempts
    BY <1>5, Named DEF Complete, Pause, Resume, Expire, Violate, StartLabels
  <2>2. CASE Violate(w)
    <3>1. \A k \in Ids : k # job[w].id => session'[k] = session[k]
      BY <2>2 DEF Violate
    <3>. QED  BY <2>1, <3>1 DEF Sessions
  <2>3. CASE Complete(w) \/ Pause(w) \/ Resume(w) \/ Expire(w)
    BY <2>1, <2>3, WritingStatus DEF Complete, Pause, Resume, Expire
  <2>. QED  BY <1>5, <2>2, <2>3
<1>6. ASSUME NEW i \in Ids, CronExpire(i)
      PROVE  Sessions' \subseteq Attempts
  <2>1. i \in Attempts
    BY <1>6 DEF CronExpire, Present
  <2>. QED  BY <1>6, <2>1, WritingStatus DEF CronExpire
<1>7. ASSUME NEW w \in Workers, Start(w), ~StartTerminate(w), ~StartSession(w)
      PROVE  UNCHANGED session
  BY <1>7 DEF Start, StartLimit, StartCount, StartAttempt, StartStore, rows
<1>8. ASSUME NEW w \in Workers, Receive(w) \/ Lookup(w)
      PROVE  UNCHANGED session
  BY <1>8 DEF Receive, Lookup, Find, Fill, rows
<1>9. ASSUME NEW w \in Workers, Handle(w), ~WriteAnswer(w),
             ~(Complete(w) \/ Pause(w) \/ Resume(w) \/ Expire(w) \/ Violate(w))
      PROVE  UNCHANGED session
  BY <1>9 DEF Handle, Touch, SaveAnswer, HandIn, Clear, GradeCheck, GradeInsert, GradeMark,
              GradeFail, TimeOut, rows
<1>10. CASE CronQuery \/ CronTimeOut \/ StartUnavailable \/ Tick \/ \E i \in Ids : Evict(i)
  BY <1>1, <1>10 DEF CronQuery, CronTimeOut, StartUnavailable, Tick, Evict, rows
<1>11. CASE UNCHANGED vars
  BY <1>1, <1>11 DEF vars
<1>. QED  BY <1>1, <1>2, <1>3, <1>4, <1>5, <1>6, <1>7, <1>8, <1>9, <1>10, <1>11
       DEF Next, Cron

LEMMA AttemptsKept ==
    ASSUME Typing, Present, [Next]_vars
    PROVE  Attempts \subseteq Attempts'
  BY AttemptsStep, NewAttempt

\* A request comes to hold the id of a new row only by saving that row.
LEMMA StartingStep ==
    ASSUME Typing, Present, [Next]_vars, NEW v \in Workers, pc'[v] \in {"session", "store"}
    PROVE  job'[v].id \in Attempts'
<1>. Attempts \subseteq Attempts'
  BY AttemptsKept
<1>. /\ pc \in [Workers -> PC] /\ job \in [Workers -> Job]
     /\ {"session", "store"} \cap ((PC \ StartLabels) \cup {"idle", "terminate", "count", "attempt"}) = {}
  BY DEF Typing, TypeOK, StartLabels
<1>0. ASSUME pc'[v] = pc[v], job'[v] = job[v]
      PROVE  job'[v].id \in Attempts'
  BY <1>0 DEF Present
<1>1. ASSUME NEW w \in Workers, NEW label, NEW j,
             pc' = [pc EXCEPT ![w] = label], job' = [job EXCEPT ![w] = j],
             label \notin {"session", "store"}
      PROVE  job'[v].id \in Attempts'
  BY <1>0, <1>1
<1>2. ASSUME NEW w \in Workers, NEW label, Goto(w, label), label \notin {"session", "store"}
      PROVE  job'[v].id \in Attempts'
  BY <1>0, <1>2 DEF Goto
<1>3. ASSUME NEW w \in Workers, Finish(w)
      PROVE  job'[v].id \in Attempts'
  BY <1>1, <1>3 DEF Finish
<1>4. ASSUME NEW w \in Workers, NEW j \in Job, NEW s, j.op \in TokenOps, Dispatch(w, j, s)
      PROVE  job'[v].id \in Attempts'
  <2>1. FirstWrite[j.op] \notin {"session", "store"}
    BY <1>4 DEF FirstWrite, TokenOps
  <2>. QED  BY <1>1, <1>3, <1>4, <2>1 DEF Dispatch, Continue
<1>5. ASSUME NEW w \in Workers, StartAttempt(w)
      PROVE  job'[v].id \in Attempts'
  <2>1. job'[w].id \in Attempts'
    BY <1>5, NewAttempt
  <2>2. v # w => pc'[v] = pc[v] /\ job'[v] = job[v]
    BY <1>5 DEF StartAttempt
  <2>. QED  BY <1>0, <2>1, <2>2
<1>6. ASSUME NEW w \in Workers, StartSession(w)
      PROVE  job'[v].id \in Attempts'
  <2>1. job'[w] = job[w] /\ job[w].id \in Attempts
    BY <1>6 DEF StartSession, Present
  <2>2. v # w => pc'[v] = pc[v] /\ job'[v] = job[v]
    BY <1>6 DEF StartSession
  <2>. QED  BY <1>0, <2>1, <2>2
<1>7. ASSUME NEW w \in Workers, Start(w), ~StartAttempt(w), ~StartSession(w)
      PROVE  job'[v].id \in Attempts'
  BY <1>0, <1>1, <1>2, <1>3, <1>7 DEF Start, StartLimit, StartTerminate, StartCount, StartStore
<1>8. ASSUME NEW w \in Workers, Receive(w)
      PROVE  job'[v].id \in Attempts'
  <2>1. PICK op \in Ops \cap TokenOps, i \in issued, q \in Questions :
        LET j == [op |-> op, id |-> i, answer |-> IF op = "answer" THEN {q} ELSE {}]
        IN  Dispatch(w, j, cache[i]) \/ Continue(w, j, NoRow, "find")
    BY <1>8 DEF Receive
  <2>. DEFINE j == [op |-> op, id |-> i, answer |-> IF op = "answer" THEN {q} ELSE {}]
  <2>2. j \in Job /\ j.op \in TokenOps
    BY DEF Job, Typing, TypeOK
  <2>. HIDE DEF j
  <2>. QED  BY <1>1, <1>4, <2>1, <2>2 DEF Continue, j
<1>9. ASSUME NEW w \in Workers, Lookup(w)
      PROVE  job'[v].id \in Attempts'
  <2>1. job[w] \in Job /\ job[w].op \in TokenOps
    BY <1>9 DEF Lookup, Find, Fill, Typing, TypeOK, JobOK, StartLabels
  <2>. QED  BY <1>1, <1>4, <1>9, <2>1 DEF Lookup, Find, Fill, Continue
<1>10. ASSUME NEW w \in Workers, Handle(w)
       PROVE  job'[v].id \in Attempts'
  BY <1>2, <1>3, <1>10
     DEF Handle, Touch, WriteAnswer, SaveAnswer, Complete, HandIn, Clear, GradeCheck,
         GradeInsert, GradeMark, GradeFail, Violate, Pause, Resume, Expire, TimeOut
<1>11. CASE Cron \/ Tick \/ \E i \in Ids : Evict(i)
  BY <1>0, <1>11 DEF Cron, CronQuery, CronTimeOut, CronExpire, Tick, Evict, locals
<1>12. CASE StartUnavailable
  BY <1>12 DEF StartUnavailable
<1>13. CASE UNCHANGED vars
  BY <1>0, <1>13 DEF vars
<1>. QED  BY <1>5, <1>6, <1>7, <1>8, <1>9, <1>10, <1>11, <1>12, <1>13 DEF Next

LEMMA IssuedStep ==
    ASSUME Typing, Present, [Next]_vars
    PROVE  issued' \subseteq Attempts
<1>. issued \subseteq Attempts
  BY DEF Present
<1>1. ASSUME NEW w \in Workers, StartStore(w)
      PROVE  issued' \subseteq Attempts
  BY <1>1 DEF StartStore, Present
<1>2. ASSUME NEW w \in Workers, Start(w), ~StartStore(w)
      PROVE  UNCHANGED issued
  BY <1>2 DEF Start, StartLimit, StartTerminate, StartCount, StartAttempt, StartSession
<1>3. ASSUME NEW w \in Workers, Receive(w) \/ Lookup(w) \/ Handle(w)
      PROVE  UNCHANGED issued
  BY <1>3 DEF Receive, Lookup, Find, Fill, Handle, Touch, WriteAnswer, SaveAnswer, Complete,
              HandIn, Clear, GradeCheck, GradeInsert, GradeMark, GradeFail, Violate, Pause,
              Resume, Expire, TimeOut
<1>4. CASE Cron \/ StartUnavailable \/ Tick \/ \E i \in Ids : Evict(i)
  BY <1>4 DEF Cron, CronQuery, CronTimeOut, CronExpire, StartUnavailable, Tick, Evict
<1>5. CASE UNCHANGED vars
  BY <1>5 DEF vars
<1>. QED  BY <1>1, <1>2, <1>3, <1>4, <1>5 DEF Next

CronPresent ==
    /\ \A i \in Ids : cron.read[i].status # "absent" => i \in Attempts
    /\ cron.pc = "timeout" => cron.at \in Attempts

LEMMA CronStep ==
    ASSUME Typing, Present, [Next]_vars, Attempts \subseteq Attempts'
    PROVE  CronPresent'
<1>. CronPresent /\ Sessions \subseteq Attempts
  BY DEF Present, CronPresent
<1>1. ASSUME UNCHANGED cron
      PROVE  CronPresent'
  BY <1>1 DEF CronPresent
<1>2. ASSUME cron' = CronIdle
      PROVE  CronPresent'
  BY <1>2 DEF CronIdle, CronPresent, NothingRead, NoRow
<1>3. ASSUME NEW i \in Ids, CronDone(i)
      PROVE  CronPresent'
  <2>1. CASE cron' = CronIdle
    BY <1>2, <2>1
  <2>2. CASE cron' = [pc |-> "expire", at |-> NoId, read |-> [cron.read EXCEPT ![i] = NoRow]]
    <3>1. cron.read \in [Ids -> Row]
      BY DEF Typing, TypeOK
    <3>2. \A k \in Ids : cron'.read[k].status # "absent" => cron.read[k].status # "absent"
      BY <2>2, <3>1 DEF NoRow
    <3>. QED  BY <2>2, <3>2 DEF CronPresent
  <2>. QED  BY <1>3, <2>1, <2>2 DEF CronDone
<1>4. CASE CronQuery
  <2>1. \A i \in Ids : cron'.read[i].status # "absent" => i \in Sessions
    BY <1>4 DEF CronQuery, CronIdle, Overdue, Open, NoRow, Sessions
  <2>2. cron'.pc = "expire"
    BY <1>4 DEF CronQuery, CronIdle
  <2>. QED  BY <2>1, <2>2 DEF CronPresent
<1>5. CASE CronTimeOut
  BY <1>3, <1>5 DEF CronTimeOut, Typing, CronOK
<1>6. ASSUME NEW i \in Ids, CronExpire(i)
      PROVE  CronPresent'
  <2>1. CASE cron' = [cron EXCEPT !.pc = "timeout", !.at = i]
    <3>1. cron'.read = cron.read /\ cron'.at = i
      BY <2>1 DEF Typing, TypeOK
    <3>. QED  BY <1>6, <3>1 DEF CronExpire, CronPresent
  <2>. QED  BY <1>3, <1>6, <2>1 DEF CronExpire
<1>7. CASE StartUnavailable
  BY <1>2, <1>7 DEF StartUnavailable
<1>8. ASSUME NEW w \in Workers, Start(w) \/ Receive(w) \/ Lookup(w) \/ Handle(w)
      PROVE  UNCHANGED cron
  BY <1>8 DEF Start, StartLimit, StartTerminate, StartCount, StartAttempt, StartSession,
              StartStore, Receive, Lookup, Find, Fill, Handle, Touch, WriteAnswer,
              SaveAnswer, Complete, HandIn, Clear, GradeCheck, GradeInsert, GradeMark,
              GradeFail, Violate, Pause, Resume, Expire, TimeOut
<1>9. CASE Tick \/ \E i \in Ids : Evict(i)
  BY <1>1, <1>9 DEF Tick, Evict
<1>10. CASE UNCHANGED vars
  BY <1>1, <1>10 DEF vars
<1>. QED  BY <1>1, <1>4, <1>5, <1>6, <1>7, <1>8, <1>9, <1>10 DEF Next, Cron

LEMMA PresentInit == Init => Present
  BY DEF Init, Present, Sessions, Attempts, NoRow, NoAttempt, CronIdle, NothingRead

LEMMA PresentNext ==
    ASSUME Typing, Present, [Next]_vars
    PROVE  Present'
<1>1. Attempts \subseteq Attempts'
  BY AttemptsKept
<1>2. Sessions' \cup issued' \subseteq Attempts'
  BY <1>1, SessionsStep, IssuedStep
<1>3. \A w \in Workers : pc'[w] \in {"session", "store"} => job'[w].id \in Attempts'
  BY StartingStep
<1>4. CronPresent'
  BY <1>1, CronStep
<1>. QED  BY <1>2, <1>3, <1>4 DEF Present, CronPresent

-----------------------------------------------------------------------------
(* Requests that have passed validateAttemptLimits and not yet saved their    *)
(* attempt.  Each had found an attempt left; so the saved attempts and these  *)
(* requests together never exceed what one attempt less than the limit and    *)
(* all the requests make.                                                     *)

Admitted == {w \in Workers : pc[w] \in {"terminate", "count", "attempt"}}

AttemptsCounted ==
    Cardinality(Attempts) + Cardinality(Admitted) <= MaxAttempts - 1 + Cardinality(Workers)

LEMMA AdmittedFinite ==
    /\ IsFiniteSet(Admitted) /\ Cardinality(Admitted) \in Nat
    /\ Cardinality(Workers) \in Nat \ {0}
    /\ Cardinality(Admitted) <= Cardinality(Workers)
<1>1. IsFiniteSet(Workers) /\ Admitted \subseteq Workers
  BY WorkersAssumption DEF Admitted
<1>2. Cardinality(Workers) # 0
  BY WorkersAssumption, FS_EmptySet
<1>. QED  BY <1>1, <1>2, FS_Subset, FS_CardinalityType

LEMMA AdmittedStep ==
    ASSUME Typing, Present, [Next]_vars
    PROVE  \/ Admitted' \subseteq Admitted
           \/ \E w \in Workers : StartLimit(w)
<1>. /\ pc \in [Workers -> PC]
     /\ \A w \in Workers : job[w] \in Job
  BY DEF Typing, TypeOK
<1>. DEFINE Pre == {"terminate", "count", "attempt"}
<1>0. ASSUME UNCHANGED pc
      PROVE  Admitted' \subseteq Admitted
  BY <1>0 DEF Admitted
<1>1. ASSUME NEW w \in Workers, NEW label,
             pc' = [pc EXCEPT ![w] = label], label \in Pre => pc[w] \in Pre
      PROVE  Admitted' \subseteq Admitted
  BY <1>1 DEF Admitted
<1>2. ASSUME NEW w \in Workers, Finish(w)
      PROVE  Admitted' \subseteq Admitted
  BY <1>1, <1>2 DEF Finish
<1>3. ASSUME NEW w \in Workers, NEW j \in Job, NEW s, j.op \in TokenOps, Dispatch(w, j, s)
      PROVE  Admitted' \subseteq Admitted
  <2>1. FirstWrite[j.op] \notin Pre
    BY <1>3 DEF FirstWrite, TokenOps
  <2>. QED  BY <1>1, <1>2, <1>3, <2>1 DEF Dispatch, Continue
<1>4. ASSUME NEW w \in Workers, Start(w), ~StartLimit(w)
      PROVE  Admitted' \subseteq Admitted
  BY <1>1, <1>2, <1>4
     DEF Start, StartTerminate, StartCount, StartAttempt, StartSession, StartStore, Goto
<1>5. ASSUME NEW w \in Workers, Receive(w)
      PROVE  Admitted' \subseteq Admitted
  <2>1. PICK op \in Ops \cap TokenOps, i \in issued, q \in Questions :
        LET j == [op |-> op, id |-> i, answer |-> IF op = "answer" THEN {q} ELSE {}]
        IN  Dispatch(w, j, cache[i]) \/ Continue(w, j, NoRow, "find")
    BY <1>5 DEF Receive
  <2>. DEFINE j == [op |-> op, id |-> i, answer |-> IF op = "answer" THEN {q} ELSE {}]
  <2>2. j \in Job /\ j.op \in TokenOps
    BY DEF Job, Typing, TypeOK
  <2>. HIDE DEF j
  <2>. QED  BY <1>1, <1>3, <2>1, <2>2 DEF Continue, j
<1>6. ASSUME NEW w \in Workers, Lookup(w)
      PROVE  Admitted' \subseteq Admitted
  <2>1. job[w].op \in TokenOps
    BY <1>6 DEF Lookup, Find, Fill, Typing, TypeOK, JobOK, StartLabels
  <2>. QED  BY <1>1, <1>3, <1>6, <2>1 DEF Lookup, Find, Fill, Continue
<1>7. ASSUME NEW w \in Workers, Handle(w)
      PROVE  Admitted' \subseteq Admitted
  BY <1>1, <1>2, <1>7
     DEF Handle, Touch, WriteAnswer, SaveAnswer, Complete, HandIn, Clear, GradeCheck,
         GradeInsert, GradeMark, GradeFail, Violate, Pause, Resume, Expire, TimeOut, Goto
<1>8. CASE Cron \/ Tick \/ \E i \in Ids : Evict(i)
  BY <1>0, <1>8 DEF Cron, CronQuery, CronTimeOut, CronExpire, Tick, Evict, locals
<1>9. CASE StartUnavailable
  BY <1>9 DEF StartUnavailable, Admitted
<1>10. CASE UNCHANGED vars
  BY <1>0, <1>10 DEF vars
<1>. QED  BY <1>4, <1>5, <1>6, <1>7, <1>8, <1>9, <1>10 DEF Next

LEMMA CountedNext ==
    ASSUME Typing, Present, AttemptsCounted, [Next]_vars
    PROVE  AttemptsCounted'
<1>. MaxAttempts \in Nat /\ Cardinality(Attempts) \in Nat /\ IsFiniteSet(Attempts)
  BY LimitsAssumption, AttemptsFinite
<1>1. /\ Cardinality(Admitted') \in Nat /\ Cardinality(Admitted) \in Nat
      /\ Cardinality(Admitted') <= Cardinality(Workers) /\ Cardinality(Workers) \in Nat
      /\ IsFiniteSet(Admitted)
  <2>1. Admitted' \subseteq Workers
    BY DEF Admitted
  <2>. QED  BY <2>1, AdmittedFinite, WorkersAssumption, FS_Subset, FS_CardinalityType
<1>2. CASE \E w \in Workers : StartLimit(w)
  <2>1. Cardinality(Attempts) < MaxAttempts /\ Attempts' = Attempts
    BY <1>2 DEF StartLimit, AttemptLeft, rows, Attempts
  <2>. QED  BY <1>1, <2>1 DEF AttemptsCounted
<1>3. ASSUME NEW w \in Workers, StartAttempt(w)
      PROVE  AttemptsCounted'
  <2>1. PICK i \in Ids : i \notin Attempts /\ Attempts' = Attempts \cup {i}
    BY <1>3, NewAttempt
  <2>2. Cardinality(Attempts') = Cardinality(Attempts) + 1
    BY <2>1, FS_AddElement
  <2>3. w \in Admitted /\ Admitted' = Admitted \ {w}
    BY <1>3 DEF StartAttempt, Admitted, Typing, TypeOK
  <2>4. Cardinality(Admitted') = Cardinality(Admitted) - 1
    BY <1>1, <2>3, FS_RemoveElement
  <2>. QED  BY <1>1, <2>2, <2>4 DEF AttemptsCounted
<1>4. CASE Attempts' = Attempts /\ Admitted' \subseteq Admitted
  <2>1. Cardinality(Admitted') <= Cardinality(Admitted)
    BY <1>1, <1>4, FS_Subset
  <2>. QED  BY <1>1, <1>4, <2>1 DEF AttemptsCounted
<1>. QED  BY <1>2, <1>3, <1>4, AttemptsStep, AdmittedStep

LEMMA CountedInit == Init => AttemptsCounted
<1>. SUFFICES ASSUME Init PROVE AttemptsCounted
  OBVIOUS
<1>1. Attempts = {} /\ Admitted = {}
  BY DEF Init, Attempts, NoAttempt, Admitted
<1>. QED  BY <1>1, FS_EmptySet, AdmittedFinite, LimitsAssumption DEF AttemptsCounted

\* validateAttemptLimits is exceeded by fewer attempts than there are requests in
\* flight; in particular never by a client that sends one request at a time.
THEOREM AttemptLimit == Spec => []AttemptsBounded
<1>1. Init => Typing /\ Present /\ AttemptsCounted
  BY TypingInit, PresentInit, CountedInit
<1>2. Typing /\ Present /\ AttemptsCounted /\ [Next]_vars
        => (Typing /\ Present /\ AttemptsCounted)'
  BY TypingNext, PresentNext, CountedNext
<1>3. AttemptsCounted => AttemptsBounded
  BY LimitsAssumption, AttemptsFinite, AdmittedFinite DEF AttemptsCounted, AttemptsBounded
<1>. QED  BY <1>1, <1>2, <1>3, PTL DEF Spec

-----------------------------------------------------------------------------
(* A step of one request, as the other requests and the rows see it.          *)

Stays(v) ==
    /\ pc'[v] = pc[v] /\ job'[v] = job[v] /\ copy'[v] = copy[v] /\ number'[v] = number[v]
Others(w) == \A v \in Workers \ {w} : Stays(v)

Ends(w) == pc'[w] = "idle" /\ job'[w] = NoJob /\ copy'[w] = NoRow /\ number'[w] = 0

LEMMA Moves ==
    ASSUME Typing, NEW w \in Workers
    PROVE  /\ Finish(w) => Ends(w) /\ Others(w)
           /\ \A label : Goto(w, label) =>
                /\ pc'[w] = label /\ job'[w] = job[w] /\ copy'[w] = copy[w]
                /\ number'[w] = number[w] /\ Others(w)
           /\ \A j, s, label : Continue(w, j, s, label) =>
                /\ pc'[w] = label /\ job'[w] = j /\ copy'[w] = s
                /\ number'[w] = number[w] /\ Others(w)
<1>. /\ pc \in [Workers -> PC] /\ job \in [Workers -> Job]
     /\ copy \in [Workers -> Row] /\ number \in [Workers -> Nat]
  BY DEF Typing, TypeOK
<1>1. Finish(w) => Ends(w) /\ Others(w)
  BY DEF Finish, Ends, Others, Stays
<1>2. ASSUME NEW label, Goto(w, label)
      PROVE  /\ pc'[w] = label /\ job'[w] = job[w] /\ copy'[w] = copy[w]
             /\ number'[w] = number[w] /\ Others(w)
  BY <1>2 DEF Goto, Others, Stays
<1>3. ASSUME NEW j, NEW s, NEW label, Continue(w, j, s, label)
      PROVE  /\ pc'[w] = label /\ job'[w] = j /\ copy'[w] = s
             /\ number'[w] = number[w] /\ Others(w)
  BY <1>3 DEF Continue, Others, Stays
<1>. QED  BY <1>1, <1>2, <1>3

\* A handler that has read its session goes on from the row it has read.
LEMMA Dispatched ==
    ASSUME Typing, NEW w \in Workers, NEW j \in Job, NEW s, j.op \in TokenOps,
           Dispatch(w, j, s)
    PROVE  /\ Others(w)
           /\ \/ Ends(w)
              \/ /\ job'[w] = j /\ copy'[w] = s /\ ~Refused(j.op, s)
                 /\ \/ pc'[w] = "expire" /\ FindsExpired(j.op, s)
                    \/ pc'[w] = FirstWrite[j.op] /\ ~FindsExpired(j.op, s)
  BY Moves DEF Dispatch

\* What a request asks for.
LEMMA Received ==
    ASSUME Typing, NEW w \in Workers, Receive(w)
    PROVE  \E j \in Job :
             /\ j.op \in TokenOps /\ j.id \in issued /\ j.id \in Ids
             /\ SerialClient => \A v \in Workers : job[v].id # j.id
             /\ \/ cache[j.id].status # "absent" /\ Dispatch(w, j, cache[j.id])
                \/ Continue(w, j, NoRow, "find")
<1>1. PICK op \in Ops \cap TokenOps, i \in issued, q \in Questions :
        LET j == [op |-> op, id |-> i, answer |-> IF op = "answer" THEN {q} ELSE {}]
        IN  /\ SerialClient => \A v \in Workers : job[v].id # i
            /\ \/ cache[i].status # "absent" /\ Dispatch(w, j, cache[i])
               \/ Continue(w, j, NoRow, "find")
  BY DEF Receive
<1>. DEFINE j == [op |-> op, id |-> i, answer |-> IF op = "answer" THEN {q} ELSE {}]
<1>2. j \in Job /\ j.op \in TokenOps /\ j.id = i /\ i \in Ids
  BY DEF Job, Typing, TypeOK
<1>. HIDE DEF j
<1>. QED  BY <1>1, <1>2 DEF j

LEMMA OthersStay ==
    ASSUME Typing, NEW w \in Workers, Start(w) \/ Receive(w) \/ Lookup(w) \/ Handle(w)
    PROVE  Others(w)
<1>. /\ pc \in [Workers -> PC] /\ job \in [Workers -> Job]
     /\ copy \in [Workers -> Row] /\ number \in [Workers -> Nat]
  BY DEF Typing, TypeOK
<1>1. CASE Start(w)
  <2>1. CASE StartLimit(w) \/ StartCount(w) \/ StartSession(w)
    BY <2>1 DEF StartLimit, StartCount, StartSession, Others, Stays
  <2>2. CASE StartTerminate(w) \/ StartStore(w)
    BY <2>2, Moves DEF StartTerminate, StartStore
  <2>3. CASE StartAttempt(w)
    BY <2>3 DEF StartAttempt, Others, Stays
  <2>. QED  BY <1>1, <2>1, <2>2, <2>3 DEF Start
<1>2. CASE Receive(w)
  BY <1>2, Received, Dispatched, Moves
<1>3. CASE Lookup(w)
  <2>1. CASE Find(w)
    BY <2>1, Moves DEF Find
  <2>2. CASE Fill(w)
    <3>1. job[w] \in Job /\ job[w].op \in TokenOps
      BY <2>2 DEF Fill, Typing, JobOK, StartLabels
    <3>. QED  BY <2>2, <3>1, Dispatched DEF Fill
  <2>. QED  BY <1>3, <2>1, <2>2 DEF Lookup
<1>4. CASE Handle(w)
  BY <1>4, Moves
     DEF Handle, Touch, WriteAnswer, SaveAnswer, Complete, HandIn, Clear, GradeCheck,
         GradeInsert, GradeMark, GradeFail, Violate, Pause, Resume, Expire, TimeOut
<1>. QED  BY <1>1, <1>2, <1>3, <1>4

-----------------------------------------------------------------------------
(* Numbers.  A number that has been given is at most the number of attempts,  *)
(* so a request can only reserve the next one; as long as no attempt has it,  *)
(* there is room for every request.                                           *)

Reserved(n) == {w \in Workers : pc[w] = "attempt" /\ number[w] = n}

NumbersCounted ==
    /\ \A i \in Attempts : attempt[i].number \in 1 .. Cardinality(Attempts)
    /\ \A w \in Workers : pc[w] = "attempt" => number[w] \in 1 .. Cardinality(Attempts) + 1
    /\ \A n \in Nat :
         Cardinality(Numbered(n)) + Cardinality(Reserved(n)) <= Cardinality(Workers)

LEMMA NumberSets ==
    ASSUME NEW n
    PROVE  /\ IsFiniteSet(Numbered(n)) /\ Cardinality(Numbered(n)) \in Nat
           /\ IsFiniteSet(Reserved(n)) /\ Cardinality(Reserved(n)) \in Nat
           /\ Cardinality(Reserved(n)) <= Cardinality(Workers)
           /\ Cardinality(Workers) \in Nat
<1>1. Numbered(n) \subseteq Ids /\ Reserved(n) \subseteq Workers
  BY DEF Numbered, Attempts, Reserved
<1>. QED  BY <1>1, IdsAssumption, WorkersAssumption, FS_Subset, FS_CardinalityType

\* Only a new attempt has a new number.
LEMMA NumbersStay ==
    ASSUME Typing, Present, [Next]_vars, NEW k \in Attempts
    PROVE  attempt'[k].number = attempt[k].number
<1>. k \in Ids /\ attempt \in [Ids -> Attempt]
  BY DEF Attempts, Typing, TypeOK
<1>1. ASSUME UNCHANGED attempt
      PROVE  attempt'[k].number = attempt[k].number
  BY <1>1
<1>2. ASSUME NEW i, NEW st, NEW a,
             attempt' = [attempt EXCEPT ![i].status = st, ![i].answers = a]
      PROVE  attempt'[k].number = attempt[k].number
  BY <1>2 DEF Attempt
<1>3. ASSUME NEW i, NEW g, attempt' = [attempt EXCEPT ![i].grading = g]
      PROVE  attempt'[k].number = attempt[k].number
  BY <1>3 DEF Attempt
<1>4. ASSUME NEW w \in Workers, Start(w)
      PROVE  attempt'[k].number = attempt[k].number
  <2>1. CASE StartAttempt(w)
    BY <2>1, NewAttempt
  <2>. QED  BY <1>1, <1>4, <2>1
            DEF Start, StartLimit, StartTerminate, StartCount, StartSession, StartStore, rows
<1>5. ASSUME NEW w \in Workers, Receive(w) \/ Lookup(w)
      PROVE  UNCHANGED attempt
  BY <1>5 DEF Receive, Lookup, Find, Fill, rows
<1>6. ASSUME NEW w \in Workers, HandIn(w) \/ TimeOut(w) \/ GradeMark(w) \/ GradeFail(w)
      PROVE  attempt'[k].number = attempt[k].number
  BY <1>2, <1>3, <1>6 DEF HandIn, TimeOut, TimedOut, GradeMark, GradeFail
<1>7. ASSUME NEW w \in Workers, Handle(w),
             ~(HandIn(w) \/ TimeOut(w) \/ GradeMark(w) \/ GradeFail(w))
      PROVE  UNCHANGED attempt
  BY <1>7 DEF Handle, Touch, WriteAnswer, SaveAnswer, Complete, Clear, GradeCheck,
              GradeInsert, Violate, Pause, Resume, Expire, rows
<1>8. CASE Cron
  BY <1>1, <1>2, <1>8 DEF Cron, CronQuery, CronExpire, CronTimeOut, TimedOut, rows
<1>9. CASE StartUnavailable \/ Tick \/ \E i \in Ids : Evict(i)
  BY <1>1, <1>9 DEF StartUnavailable, Tick, Evict, rows
<1>10. CASE UNCHANGED vars
  BY <1>1, <1>10 DEF vars
<1>. QED  BY <1>1, <1>4, <1>5, <1>6, <1>7, <1>8, <1>9, <1>10 DEF Next

\* A number is reserved by StartCount and nowhere else.
LEMMA ReservedStep ==
    ASSUME Typing, [Next]_vars, NEW v \in Workers, pc'[v] = "attempt"
    PROVE  \/ pc[v] = "attempt" /\ number'[v] = number[v]
           \/ StartCount(v) /\ number'[v] = NextNumber /\ Others(v)
<1>. /\ pc \in [Workers -> PC] /\ number \in [Workers -> Nat]
  BY DEF Typing, TypeOK
<1>1. ASSUME NEW w \in Workers, v # w, Start(w) \/ Receive(w) \/ Lookup(w) \/ Handle(w)
      PROVE  pc[v] = "attempt" /\ number'[v] = number[v]
  BY <1>1, OthersStay DEF Others, Stays
<1>2. CASE StartCount(v)
  BY <1>2, OthersStay DEF StartCount, Start
<1>3. CASE Start(v) /\ ~StartCount(v)
  BY <1>3, Moves DEF Start, StartLimit, StartTerminate, StartAttempt, StartSession, StartStore, Ends
<1>4. CASE Receive(v)
  <2>1. PICK j \in Job : /\ j.op \in TokenOps
                         /\ \/ Dispatch(v, j, cache[j.id])
                            \/ Continue(v, j, NoRow, "find")
    BY <1>4, Received
  <2>2. FirstWrite[j.op] # "attempt"
    BY <2>1 DEF FirstWrite, TokenOps
  <2>. QED  BY <2>1, <2>2, Dispatched, Moves DEF Ends
<1>5. CASE Lookup(v)
  <2>1. job[v] \in Job /\ job[v].op \in TokenOps
    BY <1>5 DEF Lookup, Find, Fill, Typing, TypeOK, JobOK, StartLabels
  <2>2. FirstWrite[job[v].op] # "attempt"
    BY <2>1 DEF FirstWrite, TokenOps
  <2>. QED  BY <1>5, <2>1, <2>2, Dispatched, Moves DEF Lookup, Find, Fill, Ends
<1>6. CASE Handle(v)
  BY <1>6, Moves
     DEF Handle, Touch, WriteAnswer, SaveAnswer, Complete, HandIn, Clear, GradeCheck,
         GradeInsert, GradeMark, GradeFail, Violate, Pause, Resume, Expire, TimeOut, Ends
<1>7. CASE Cron \/ Tick \/ (\E i \in Ids : Evict(i)) \/ UNCHANGED vars
  BY <1>7 DEF Cron, CronQuery, CronTimeOut, CronExpire, Tick, Evict, locals, vars
<1>8. CASE StartUnavailable
  BY <1>8 DEF StartUnavailable
<1>. QED  BY <1>1, <1>2, <1>3, <1>4, <1>5, <1>6, <1>7, <1>8 DEF Next

LEMMA NumbersNext ==
    ASSUME Typing, Present, NumbersCounted, [Next]_vars
    PROVE  NumbersCounted'
<1>1. /\ IsFiniteSet(Attempts) /\ Cardinality(Attempts) \in Nat
      /\ Attempts \subseteq Attempts' /\ Cardinality(Attempts') \in Nat
      /\ Cardinality(Attempts) <= Cardinality(Attempts')
  <2>1. Attempts' \subseteq Ids
    BY DEF Attempts
  <2>2. IsFiniteSet(Attempts') /\ Cardinality(Attempts') \in Nat
    BY <2>1, IdsAssumption, FS_Subset, FS_CardinalityType
  <2>. QED  BY <2>2, AttemptsFinite, AttemptsKept, FS_Subset
<1>2. \A v \in Workers : pc'[v] = "attempt" => number'[v] \in 1 .. Cardinality(Attempts') + 1
  BY <1>1, ReservedStep DEF NumbersCounted, NextNumber
<1>3. \A k \in Attempts : attempt'[k].number \in 1 .. Cardinality(Attempts')
  BY <1>1, NumbersStay DEF NumbersCounted
<1>4. ASSUME NEW w \in Workers, StartAttempt(w)
      PROVE  NumbersCounted'
  <2>1. PICK i \in Ids : /\ i \notin Attempts /\ Attempts' = Attempts \cup {i}
                         /\ attempt'[i].number = number[w]
    BY <1>4, NewAttempt
  <2>2. Cardinality(Attempts') = Cardinality(Attempts) + 1
    BY <1>1, <2>1, FS_AddElement
  <2>3. number[w] \in 1 .. Cardinality(Attempts) + 1 /\ pc[w] = "attempt"
    BY <1>4 DEF NumbersCounted, StartAttempt
  <2>4. \A k \in Attempts' : attempt'[k].number \in 1 .. Cardinality(Attempts')
    BY <1>1, <1>3, <2>1, <2>2, <2>3
  <2>5. ASSUME NEW n \in Nat
        PROVE  Cardinality(Numbered(n)') + Cardinality(Reserved(n)') <= Cardinality(Workers)
    <3>1. Reserved(n)' = Reserved(n) \ {w}
      BY <1>4, OthersStay DEF Reserved, Start, StartAttempt, Others, Stays, Typing, TypeOK
    <3>2. CASE n = number[w]
      <4>1. Numbered(n)' = Numbered(n) \cup {i} /\ i \notin Numbered(n)
        BY <2>1, <3>2, NumbersStay DEF Numbered
      <4>2. w \in Reserved(n)
        BY <2>3, <3>2 DEF Reserved
      <4>3. IsFiniteSet(Numbered(n)) /\ IsFiniteSet(Reserved(n))
        BY NumberSets
      <4>4. Cardinality(Numbered(n) \cup {i}) = Cardinality(Numbered(n)) + 1
        BY <4>1, <4>3, FS_AddElement
      <4>5. Cardinality(Reserved(n) \ {w}) = Cardinality(Reserved(n)) - 1
        BY <4>2, <4>3, FS_RemoveElement
      <4>. QED  BY <3>1, <4>1, <4>4, <4>5, NumberSets DEF NumbersCounted
    <3>3. CASE n # number[w]
      <4>1. Numbered(n)' = Numbered(n)
        BY <2>1, <3>3, NumbersStay DEF Numbered
      <4>2. Reserved(n)' = Reserved(n)
        BY <3>1, <3>3 DEF Reserved
      <4>. QED  BY <4>1, <4>2 DEF NumbersCounted
    <3>. QED  BY <3>2, <3>3
  <2>. QED  BY <1>2, <2>4, <2>5 DEF NumbersCounted
<1>5. CASE Attempts' = Attempts
  <2>1. ASSUME NEW n \in Nat
        PROVE  Cardinality(Numbered(n)') + Cardinality(Reserved(n)') <= Cardinality(Workers)
    <3>1. Numbered(n)' = Numbered(n)
      BY <1>5, NumbersStay DEF Numbered
    <3>2. CASE Reserved(n)' \subseteq Reserved(n)
      <4>1. Cardinality(Reserved(n)') <= Cardinality(Reserved(n)) /\ Cardinality(Reserved(n)') \in Nat
        BY <3>2, NumberSets, FS_Subset, FS_CardinalityType
      <4>. QED  BY <3>1, <4>1, NumberSets DEF NumbersCounted
    <3>3. CASE ~(Reserved(n)' \subseteq Reserved(n))
      <4>1. n = NextNumber
        BY <3>3, ReservedStep DEF Reserved
      <4>2. Numbered(n) = {}
        BY <1>1, <4>1 DEF NumbersCounted, Numbered, NextNumber
      <4>3. Cardinality(Reserved(n)') <= Cardinality(Workers) /\ Cardinality(Reserved(n)') \in Nat
        <5>1. Reserved(n)' \subseteq Workers
          BY DEF Reserved
        <5>. QED  BY <5>1, WorkersAssumption, FS_Subset, FS_CardinalityType
      <4>. QED  BY <3>1, <4>2, <4>3, FS_EmptySet, NumberSets
    <3>. QED  BY <3>2, <3>3
  <2>. QED  BY <1>2, <1>3, <1>5, <2>1 DEF NumbersCounted
<1>. QED  BY <1>4, <1>5, AttemptsStep

\* Attempts share a number only when their starts overlapped, and no number runs
\* ahead of the attempts: for any number of attempts, requests and crashes.
THEOREM NumbersAreShared == Spec => []NumbersBounded
<1>1. Init => NumbersCounted
  <2>. SUFFICES ASSUME Init PROVE NumbersCounted
    OBVIOUS
  <2>1. /\ Attempts = {} /\ \A w \in Workers : pc[w] = "idle"
        /\ \A n : Numbered(n) = {} /\ Reserved(n) = {}
    BY DEF Init, Attempts, NoAttempt, Numbered, Reserved
  <2>. QED  BY <2>1, FS_EmptySet, NumberSets DEF NumbersCounted
<1>2. Typing /\ Present /\ NumbersCounted /\ [Next]_vars
        => (Typing /\ Present /\ NumbersCounted)'
  BY TypingNext, PresentNext, NumbersNext
<1>3. NumbersCounted => NumbersBounded
  <2>. SUFFICES ASSUME NumbersCounted, NEW i \in Attempts
                PROVE  Cardinality(Numbered(attempt[i].number)) <= Cardinality(Workers)
    BY DEF NumbersCounted, NumbersBounded
  <2>1. attempt[i].number \in Nat
    BY AttemptsFinite DEF NumbersCounted
  <2>. QED  BY <2>1, NumberSets DEF NumbersCounted
<1>. QED  BY <1>1, <1>2, <1>3, TypingInit, PresentInit, PTL DEF Spec
=============================================================================
