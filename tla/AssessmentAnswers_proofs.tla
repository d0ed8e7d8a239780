----------------------- MODULE AssessmentAnswers_proofs -----------------------
(* Theorems about AssessmentSession for a client that awaits each reply before *)
(* it sends the next request on a session: what it has been told is saved is   *)
(* never lost, and what it has handed in is never taken up again.              *)
EXTENDS AssessmentRows_proofs

-----------------------------------------------------------------------------
(* Acknowledged answers.  Requests on one session do not overlap, but the     *)
(* starts, the cron, the evictions and the crashes come in between; each       *)
(* copy of the row that can still be written somewhere holds them all.        *)

Strict == SerialClient /\ ~CacheFaults

Alone ==
    \A v, w \in Workers : job[v].id = job[w].id /\ job[v].id # NoId => v = w

Carrying == {"fill", "touch", "write", "save", "complete", "handin"}

AckedRows ==
    \A i \in Ids :
        /\ acked[i] # {} => i \in issued
        /\ acked[i] \subseteq session[i].answers
        /\ cache[i].status # "absent" => acked[i] \subseteq cache[i].answers

AckedRequests ==
    \A w \in Workers :
        /\ pc[w] = "store" => job[w].id \notin issued
        /\ pc[w] \in Carrying => acked[job[w].id] \subseteq copy[w].answers
        /\ pc[w] = "save" => Answered(w).answers \subseteq session[job[w].id].answers

Acks == Strict => Alone /\ AckedRows /\ AckedRequests

\* The id of every request is that of an attempt.
LEMMA NamedAttempt ==
    ASSUME Typing, Present, NEW w \in Workers, job[w].id # NoId
    PROVE  job[w].id \in Ids /\ job[w].id \in Attempts
  BY Named DEF Typing, TypeOK, JobOK, StartLabels, Present, Job

LEMMA AloneNext ==
    ASSUME Typing, Present, Alone, SerialClient, [Next]_vars
    PROVE  Alone'
<1>. NoId \notin Ids /\ job \in [Workers -> Job]
  BY IdsAssumption DEF Typing, TypeOK
<1>1. ASSUME NEW v \in Workers, job'[v].id # NoId
      PROVE  \/ job'[v] = job[v]
             \/ /\ Acts(v)
                /\ \A u \in Workers : u # v => job[u].id # job'[v].id
  <2>1. CASE StartAttempt(v)
    <3>1. PICK i \in Ids : i \notin Attempts /\ job'[v].id = i
      BY <2>1, NewAttempt
    <3>2. \A u \in Workers : job[u].id # i
      BY <3>1, NamedAttempt
    <3>. QED  BY <2>1, <3>1, <3>2 DEF Acts, Start
  <2>2. CASE Start(v) /\ ~StartAttempt(v)
    BY <1>1, <2>2, Moves
       DEF Start, StartLimit, StartTerminate, StartCount, StartSession, StartStore, Ends, NoJob
  <2>3. CASE Receive(v) \/ Lookup(v)
    BY <1>1, <2>3, ReadingRow DEF Ends, NoJob, Acts
  <2>4. CASE Handle(v)
    BY <1>1, <2>4, HandleRow DEF Ends, NoJob
  <2>5. CASE Stays(v) \/ Ends(v)
    BY <1>1, <2>5 DEF Stays, Ends, NoJob
  <2>. QED  BY <2>1, <2>2, <2>3, <2>4, <2>5, Turn DEF Acts
<1>2. ASSUME NEW v \in Workers, NEW w \in Workers, v # w, Acts(v)
      PROVE  job'[w] = job[w]
  BY <1>2, OthersStay DEF Acts, Others, Stays
<1>. QED  BY <1>1, <1>2 DEF Alone

LEMMA AckedStep ==
    ASSUME Typing, [Next]_vars, NEW i \in Ids
    PROVE  \/ acked'[i] = acked[i]
           \/ \E w \in Workers : /\ SaveAnswer(w) /\ job[w].id = i
                                 /\ acked'[i] = acked[i] \cup job[w].answer
<1>1. ASSUME NEW w \in Workers, SaveAnswer(w)
      PROVE  \/ acked'[i] = acked[i]
             \/ job[w].id = i /\ acked'[i] = acked[i] \cup job[w].answer
  BY <1>1 DEF SaveAnswer, Typing, TypeOK
<1>2. ASSUME \A w \in Workers : ~SaveAnswer(w)
      PROVE  UNCHANGED acked
  BY <1>2 DEF Next, Start, StartLimit, StartTerminate, StartCount, StartAttempt, StartSession,
         StartStore, Receive, Lookup, Find, Fill, Handle, Touch, WriteAnswer,
         Complete, HandIn, Clear, GradeCheck, GradeInsert, GradeMark, GradeFail, Violate, Pause,
         Resume, Expire, TimeOut, Cron, CronQuery, CronTimeOut, CronExpire, StartUnavailable,
         Tick, Evict, vars
<1>. QED  BY <1>1, <1>2

LEMMA CarryingStep ==
    ASSUME Typing, [Next]_vars, NEW v \in Workers, pc'[v] \in Carrying
    PROVE  \/ /\ pc[v] \in Carrying /\ job'[v] = job[v] /\ copy'[v] = copy[v]
              /\ ~SaveAnswer(v)
           \/ /\ Receive(v) \/ Lookup(v)
              /\ job'[v].id \in Ids /\ job'[v].id \in issued
              /\ \/ cache[job'[v].id].status # "absent" /\ copy'[v] = cache[job'[v].id]
                 \/ copy'[v] = session[job'[v].id]
<1>1. CASE Start(v)
  BY <1>1, Moves DEF Start, StartLimit, StartTerminate, StartCount, StartAttempt, StartSession,
                     StartStore, Ends, Typing, TypeOK, Carrying
<1>2. CASE Receive(v) \/ Find(v)
  BY <1>2, ReadingRow DEF Ends, Carrying, Fill, Lookup, Find, Receive
<1>3. CASE Fill(v)
  BY <1>3, ReadingRow DEF Ends, Carrying, Fill, Lookup, Find, Receive, SaveAnswer
<1>4. CASE Handle(v)
  BY <1>4, Moves
     DEF Handle, Touch, WriteAnswer, SaveAnswer, Complete, HandIn, Clear, GradeCheck,
         GradeInsert, GradeMark, GradeFail, Violate, Pause, Resume, Expire, TimeOut, Ends,
         Carrying
<1>5. CASE Stays(v) \/ Ends(v)
  <2>1. ~SaveAnswer(v)
    <3>1. SaveAnswer(v) => pc[v] = "save" /\ pc'[v] = "idle"
      BY DEF SaveAnswer, Finish, Typing, TypeOK
    <3>. QED  BY <3>1 DEF Carrying
  <2>. QED  BY <1>5, <2>1 DEF Stays, Ends, Carrying
<1>. QED  BY <1>1, <1>2, <1>3, <1>4, <1>5, Turn DEF Acts, Lookup

LEMMA SaveStep ==
    ASSUME Typing, [Next]_vars, NEW v \in Workers, pc'[v] \in {"save", "store"}
    PROVE  \/ WriteAnswer(v) /\ pc'[v] = "save" /\ job'[v] = job[v] /\ copy'[v] = copy[v]
           \/ StartSession(v) /\ pc'[v] = "store" /\ job'[v] = job[v]
           \/ Stays(v) /\ ~Acts(v)
<1>0. ASSUME Acts(v)
      PROVE  \/ WriteAnswer(v) /\ pc'[v] = "save" /\ job'[v] = job[v] /\ copy'[v] = copy[v]
             \/ StartSession(v) /\ pc'[v] = "store" /\ job'[v] = job[v]
  <2>1. CASE Start(v)
    BY <2>1, Moves DEF Start, StartLimit, StartTerminate, StartCount, StartAttempt, StartSession,
                       StartStore, Ends, Typing, TypeOK
  <2>2. CASE Receive(v) \/ Lookup(v)
    BY <2>2, ReadingLabels
  <2>3. CASE Handle(v)
    BY <2>3, Moves
       DEF Handle, Touch, WriteAnswer, SaveAnswer, Complete, HandIn, Clear, GradeCheck,
           GradeInsert, GradeMark, GradeFail, Violate, Pause, Resume, Expire, TimeOut, Ends
  <2>. QED  BY <1>0, <2>1, <2>2, <2>3 DEF Acts
<1>. QED  BY <1>0, Turn DEF Ends
LEMMA IssuedGrows ==
    ASSUME [Next]_vars
    PROVE  issued \subseteq issued'
<1>1. ASSUME NEW w \in Workers, StartStore(w)
      PROVE  issued \subseteq issued'
  BY <1>1 DEF StartStore
<1>2. CASE \A w \in Workers : ~StartStore(w)
  BY <1>2 DEF Next, Start, StartLimit, StartTerminate, StartCount, StartAttempt, StartSession,
         Receive, Lookup, Find, Fill, Handle, Touch, WriteAnswer, SaveAnswer,
         Complete, HandIn, Clear, GradeCheck, GradeInsert, GradeMark, GradeFail, Violate, Pause,
         Resume, Expire, TimeOut, Cron, CronQuery, CronTimeOut, CronExpire, StartUnavailable,
         Tick, Evict, vars
<1>. QED  BY <1>1, <1>2

\* What saving an answer does for the session it is about.
LEMMA Saving ==
    ASSUME Typing, Present, Strict, Acks, NEW w \in Workers, SaveAnswer(w)
    PROVE  /\ job[w].id \in Ids /\ job[w].id \in issued
           /\ acked[job[w].id] \cup job[w].answer \subseteq Answered(w).answers
           /\ Answered(w).answers \subseteq session[job[w].id].answers
           /\ cache'[job[w].id] = Answered(w)
           /\ UNCHANGED session
<1>1. pc[w] = "save" /\ job[w].id \in Ids /\ job[w].id \in issued
  BY Named DEF SaveAnswer, StartLabels
<1>2. acked[job[w].id] \subseteq copy[w].answers
  BY <1>1 DEF Acks, AckedRequests, Carrying
<1>3. Answered(w).answers = copy[w].answers \cup job[w].answer
  BY AnsweredRow
<1>4. Answered(w).answers \subseteq session[job[w].id].answers
  BY <1>1 DEF Acks, AckedRequests
<1>5. cache'[job[w].id] = Answered(w) /\ UNCHANGED session
  BY <1>1 DEF SaveAnswer, CachePut, Strict, Typing, TypeOK, rows
<1>. QED  BY <1>1, <1>2, <1>3, <1>4, <1>5

LEMMA AckedRowsNext ==
    ASSUME Typing, Present, Dates, Strict, Acks, [Next]_vars
    PROVE  AckedRows'
<1>. SUFFICES ASSUME NEW i \in Ids
              PROVE  /\ acked'[i] # {} => i \in issued'
                     /\ acked'[i] \subseteq session'[i].answers
                     /\ cache'[i].status # "absent" => acked'[i] \subseteq cache'[i].answers
  BY DEF AckedRows
<1>. Alone /\ AckedRows /\ AckedRequests /\ RowDates /\ RequestDates
  BY DEF Acks, Dates
<1>1. CASE acked'[i] = acked[i]
  <2>1. acked[i] # {} => i \in issued'
    BY IssuedGrows DEF AckedRows
  <2>2. acked[i] \subseteq session'[i].answers
    <3>1. ASSUME NEW w \in Workers, StartSession(w), job[w].id = i
          PROVE  acked[i] = {}
      BY <3>1 DEF StartSession, RequestDates, RowDates, AckedRows
    <3>2. ASSUME NEW w \in Workers, WriteAnswer(w), job[w].id = i
          PROVE  acked[i] \subseteq Answered(w).answers
      BY <3>2, AnsweredRow DEF WriteAnswer, AckedRequests, Carrying
    <3>. QED  BY <3>1, <3>2, SessionRow DEF AckedRows, Keeps
  <2>3. ASSUME cache'[i].status # "absent"
        PROVE  acked[i] \subseteq cache'[i].answers
    <3>1. ASSUME NEW w \in Workers, StartStore(w), job[w].id = i
          PROVE  acked[i] = {}
      BY <3>1 DEF StartStore, AckedRequests, AckedRows
    <3>2. ASSUME NEW w \in Workers, Fill(w) \/ Touch(w) \/ SaveAnswer(w), job[w].id = i
          PROVE  acked[i] \subseteq copy[w].answers /\ acked[i] \subseteq Answered(w).answers
      BY <3>2, AnsweredRow DEF Fill, Touch, SaveAnswer, AckedRequests, Carrying
    <3>. QED  BY <2>3, <3>1, <3>2, CacheRow DEF AckedRows, NoRow
  <2>. QED  BY <1>1, <2>1, <2>2, <2>3
<1>2. ASSUME NEW w \in Workers, SaveAnswer(w), job[w].id = i,
             acked'[i] = acked[i] \cup job[w].answer
      PROVE  /\ i \in issued' /\ acked'[i] \subseteq session'[i].answers
             /\ acked'[i] \subseteq cache'[i].answers
  BY <1>2, Saving, IssuedGrows
<1>. QED  BY <1>1, <1>2, AckedStep

\* Another request writes no answers of this one's session, and is told of none.
LEMMA Undisturbed ==
    ASSUME Typing, Present, Dates, Strict, Acks, [Next]_vars,
           NEW v \in Workers, job[v].id \in Ids, job[v].id \in issued,
           ~WriteAnswer(v), ~SaveAnswer(v)
    PROVE  /\ session'[job[v].id].answers = session[job[v].id].answers
           /\ acked'[job[v].id] = acked[job[v].id]
<1>. PICK i \in Ids : i = job[v].id
  OBVIOUS
<1>. Alone /\ RowDates /\ RequestDates /\ i # NoId
  BY IdsAssumption DEF Acks, Dates
<1>1. ASSUME NEW w \in Workers, StartSession(w), job[w].id = i
      PROVE  FALSE
  BY <1>1 DEF StartSession, RequestDates, RowDates
<1>2. \A w \in Workers : WriteAnswer(w) \/ SaveAnswer(w) => job[w].id # i
  BY DEF Alone
<1>3. session'[i].answers = session[i].answers
  BY <1>1, <1>2, SessionRow DEF Keeps
<1>4. acked'[i] = acked[i]
  BY <1>2, AckedStep
<1>. QED  BY <1>3, <1>4

LEMMA AckedRequestsNext ==
    ASSUME Typing, Present, Dates, Strict, Acks, [Next]_vars
    PROVE  AckedRequests'
<1>. Alone /\ AckedRows /\ AckedRequests /\ RowDates /\ RequestDates /\ NoId \notin Ids
  BY IdsAssumption DEF Acks, Dates
<1>1. ASSUME NEW v \in Workers, pc'[v] = "store"
      PROVE  job'[v].id \notin issued'
  <2>1. job'[v] = job[v] /\ job[v].id \notin issued /\ job[v].id \in Ids /\ ~StartStore(v)
    <3>1. CASE StartSession(v)
      BY <3>1 DEF StartSession, RequestDates, RowDates, StartStore, Typing, TypeOK, JobOK
    <3>2. CASE Stays(v) /\ ~Acts(v)
      BY <1>1, <3>2 DEF Stays, Acts, Start, AckedRequests, Typing, TypeOK, JobOK
    <3>. QED  BY <1>1, <3>1, <3>2, SaveStep
  <2>2. ASSUME NEW w \in Workers, StartStore(w), job[w].id = job[v].id
        PROVE  FALSE
    BY <2>1, <2>2 DEF Alone
  <2>. QED  BY <2>1, <2>2, IssuedRow
<1>2. ASSUME NEW v \in Workers, pc'[v] \in Carrying
      PROVE  acked'[job'[v].id] \subseteq copy'[v].answers
  <2>1. CASE /\ pc[v] \in Carrying /\ job'[v] = job[v] /\ copy'[v] = copy[v] /\ ~SaveAnswer(v)
    <3>1. job[v].id \in Ids /\ job[v].id \in issued
      BY <2>1, Named DEF Carrying, StartLabels
    <3>2. acked[job[v].id] \subseteq copy[v].answers
      BY <2>1 DEF AckedRequests
    <3>3. acked'[job[v].id] = acked[job[v].id]
      <4>1. \A w \in Workers : SaveAnswer(w) => job[w].id # job[v].id
        BY <2>1, <3>1 DEF Alone
      <4>. QED  BY <3>1, <4>1, AckedStep
    <3>. QED  BY <2>1, <3>2, <3>3
  <2>2. CASE /\ Receive(v) \/ Lookup(v)
             /\ job'[v].id \in Ids /\ job'[v].id \in issued
             /\ \/ cache[job'[v].id].status # "absent" /\ copy'[v] = cache[job'[v].id]
                \/ copy'[v] = session[job'[v].id]
    <3>1. UNCHANGED acked
      BY <2>2 DEF Receive, Lookup, Find, Fill
    <3>. QED  BY <2>2, <3>1 DEF AckedRows
  <2>. QED  BY <1>2, <2>1, <2>2, CarryingStep
<1>3. ASSUME NEW v \in Workers, pc'[v] = "save"
      PROVE  copy'[v].answers \cup job'[v].answer \subseteq session'[job'[v].id].answers
  <2>1. CASE WriteAnswer(v) /\ job'[v] = job[v] /\ copy'[v] = copy[v]
    <3>1. job[v].id \in Ids
      BY <2>1, Named DEF WriteAnswer, StartLabels
    <3>2. session'[job[v].id].answers = Answered(v).answers
      BY <2>1, <3>1 DEF WriteAnswer, Typing, TypeOK, Row
    <3>. QED  BY <2>1, <3>2, AnsweredRow
  <2>2. CASE Stays(v) /\ ~Acts(v)
    <3>1. pc[v] = "save" /\ job'[v] = job[v] /\ copy'[v] = copy[v]
      BY <1>3, <2>2 DEF Stays
    <3>2. job[v].id \in Ids /\ job[v].id \in issued
      BY <3>1, Named DEF StartLabels
    <3>3. ~WriteAnswer(v) /\ ~SaveAnswer(v)
      BY <2>2 DEF Acts, Handle
    <3>4. Answered(v).answers \subseteq session[job[v].id].answers
      BY <3>1 DEF AckedRequests
    <3>. QED  BY <3>1, <3>2, <3>3, <3>4, Undisturbed, AnsweredRow
  <2>. QED  BY <1>3, <2>1, <2>2, SaveStep
<1>4. TypeOK'
  BY TypingNext DEF Typing
<1>5. \A v \in Workers : Answered(v)'.answers = copy'[v].answers \cup job'[v].answer
  BY <1>4 DEF Answered, TypeOK, Row
<1>. QED  BY <1>1, <1>2, <1>3, <1>5 DEF AckedRequests

LEMMA AcksNext ==
    ASSUME Typing, Present, Dates, Acks, [Next]_vars
    PROVE  Acks'
<1>. SUFFICES ASSUME Strict PROVE (Alone /\ AckedRows /\ AckedRequests)'
  BY DEF Acks, Strict
<1>1. Alone'
  BY AloneNext DEF Acks, Strict
<1>. QED  BY <1>1, AckedRowsNext, AckedRequestsNext

LEMMA AcksInit == Init => Acks
  BY IdsAssumption DEF Init, Acks, Alone, AckedRows, AckedRequests, NoRow, NoJob, Carrying

Kept == Typing /\ Present /\ Dates /\ Acks

LEMMA KeptInit == Init => Kept
  BY TypingInit, PresentInit, DatesInit, AcksInit DEF Kept

LEMMA KeptNext ==
    ASSUME Kept, [Next]_vars
    PROVE  Kept'
  BY TypingNext, PresentNext, DatesNext, AcksNext DEF Kept

\* An answer the client has been told is saved stays in the session row: for any
\* number of requests and attempts, evictions, crashes and runs of the cron.
THEOREM AcksAreDurable == Spec => []AcksDurable
<1>1. Kept => AcksDurable
  BY DEF Kept, Acks, Strict, AckedRows, AcksDurable
<1>2. Kept /\ [Next]_vars => Kept'
  BY KeptNext
<1>. QED  BY <1>1, <1>2, KeptInit, PTL DEF Spec
-----------------------------------------------------------------------------
(* Submissions.  Once the row is completed, either the request that submits   *)
(* is still on its way to clear the cache, alone on the session, or nothing    *)
(* that is left would write the row: the copy in the cache and the copies of   *)
(* the requests say that the session is over.                                 *)

Over == {"completed", "expired"}

Quiet(w) == \/ pc[w] \in {"find", "expire", "timeout"} \cup GradeLabels
            \/ pc[w] \in {"fill", "touch"} /\ copy[w].status \in Over

Leaving(w) == pc[w] \in {"handin", "clear"}

Silent(i) ==
    /\ cache[i].status \in Over \cup {"absent"}
    /\ \A w \in Workers : job[w].id = i => Quiet(w)

Shut(i) == Silent(i) \/ \E w \in Workers : job[w].id = i /\ Leaving(w)

Closed(i) == session[i].status \in Over
Submitted(i) == attempt[i].status = "submitted" \/ session[i].status = "completed"

SubmittedShut ==
    Strict /\ crashes = 0 =>
      /\ \A i \in Ids : Submitted(i) => Closed(i) /\ Shut(i)
      /\ \A i \in Ids : attempt[i].status = "submitted" => acked[i] \subseteq attempt[i].answers
      /\ \A w \in Workers : pc[w] = "handin" => Closed(job[w].id)

\* Only a restart counts a crash, and only the cron's own steps and a restart
\* change what the cron holds.
LEMMA RequestKept ==
    ASSUME NEW w \in Workers, Start(w) \/ Receive(w) \/ Lookup(w) \/ Handle(w)
    PROVE  UNCHANGED <<cron, crashes>>
<1>1. CASE Start(w)
  BY <1>1 DEF Start, StartLimit, StartTerminate, StartCount, StartAttempt, StartSession,
     StartStore
<1>2. CASE Receive(w) \/ Lookup(w)
  BY <1>2 DEF Receive, Lookup, Find, Fill
<1>3. CASE \/ Touch(w) \/ WriteAnswer(w) \/ SaveAnswer(w)
           \/ Complete(w) \/ HandIn(w) \/ Clear(w)
  BY <1>3 DEF Touch, WriteAnswer, SaveAnswer, Complete, HandIn, Clear
<1>4. CASE GradeCheck(w) \/ GradeInsert(w) \/ GradeMark(w) \/ GradeFail(w)
  BY <1>4 DEF GradeCheck, GradeInsert, GradeMark, GradeFail
<1>5. CASE Violate(w) \/ Pause(w) \/ Resume(w) \/ Expire(w) \/ TimeOut(w)
  BY <1>5 DEF Violate, Pause, Resume, Expire, TimeOut
<1>. QED  BY <1>1, <1>2, <1>3, <1>4, <1>5 DEF Handle

LEMMA CronKept ==
    ASSUME [Next]_vars, ~Cron, ~StartUnavailable
    PROVE  UNCHANGED cron
<1>1. CASE Tick \/ (\E i \in Ids : Evict(i)) \/ UNCHANGED vars
  BY <1>1 DEF Tick, Evict, vars
<1>. QED  BY <1>1, RequestKept DEF Next

LEMMA CrashesKept ==
    ASSUME [Next]_vars, ~StartUnavailable
    PROVE  UNCHANGED crashes
<1>1. CASE Tick \/ (\E i \in Ids : Evict(i)) \/ UNCHANGED vars
  BY <1>1 DEF Tick, Evict, vars
<1>2. CASE Cron
  BY <1>2 DEF Cron, CronQuery, CronTimeOut, CronExpire
<1>. QED  BY <1>1, <1>2, RequestKept DEF Next

LEMMA NoCrash ==
    ASSUME Typing, [Next]_vars, crashes' = 0
    PROVE  crashes = 0 /\ ~StartUnavailable
<1>. crashes \in Nat
  BY DEF Typing, TypeOK
<1>1. ~StartUnavailable
  BY DEF StartUnavailable
<1>2. crashes' = crashes
  BY <1>1, CrashesKept
<1>. QED  BY <1>1, <1>2

LEMMA TurnUp ==
    ASSUME Typing, [Next]_vars, ~StartUnavailable, NEW v \in Workers
    PROVE  Acts(v) \/ Stays(v)
<1>1. ASSUME NEW w \in Workers, Acts(w), w # v
      PROVE  Stays(v)
  BY <1>1, OthersStay DEF Acts, Others
<1>2. CASE Cron \/ Tick \/ (\E i \in Ids : Evict(i)) \/ UNCHANGED vars
  BY <1>2 DEF Cron, CronQuery, CronTimeOut, CronExpire, Tick, Evict, locals, vars, Stays
<1>. QED  BY <1>1, <1>2 DEF Next, Acts

LEMMA NoWriter ==
    ASSUME Kept, Strict, NEW i \in Ids, Shut(i), NEW w \in Workers, job[w].id = i
    PROVE  pc[w] \notin {"complete", "pause", "resume", "violate", "write", "save", "store",
                         "session"}
<1>. Alone /\ NoId \notin Ids
  BY IdsAssumption DEF Kept, Acks
<1>. QED  BY DEF Shut, Silent, Quiet, GradeLabels, Leaving, Alone

LEMMA ClosedStays ==
    ASSUME Kept, Strict, [Next]_vars, NEW i \in Ids, Closed(i), Shut(i)
    PROVE  Closed(i)'
<1>1. session[i].status \notin {"absent", "active"}
  BY DEF Closed, Over
<1>2. ASSUME NEW w \in Workers, job[w].id = i
      PROVE  /\ ~StartSession(w) /\ ~Complete(w) /\ ~Pause(w) /\ ~Resume(w) /\ ~Violate(w)
  BY <1>2, NoWriter DEF StartSession, Complete, Pause, Resume, Violate
<1>. QED  BY <1>1, <1>2, SessionRow DEF Kept, Keeps, Closed, Over

LEMMA QuietStep ==
    ASSUME Kept, Strict, [Next]_vars, ~StartUnavailable, NEW i \in Ids, i \in Attempts,
           Closed(i), Silent(i), NEW v \in Workers, job'[v].id = i
    PROVE  (Quiet(v) \/ Leaving(v))'
<1>. Typing /\ Present /\ NoId \notin Ids /\ job \in [Workers -> Job]
  BY IdsAssumption DEF Kept, Typing, TypeOK
<1>. SUFFICES \/ pc'[v] \in {"find", "expire", "timeout", "handin", "clear"} \cup GradeLabels
              \/ pc'[v] \in {"fill", "touch"} /\ copy'[v].status \in Over
  BY DEF Quiet, Leaving
<1>1. CASE Start(v)
  <2>1. CASE StartAttempt(v)
    BY <2>1, NewAttempt
  <2>2. CASE StartSession(v) \/ StartStore(v)
    <3>1. job[v].id # i
      BY <2>2 DEF StartSession, StartStore, Silent, Quiet, GradeLabels
    <3>. QED  BY <2>2, <3>1, Moves DEF StartSession, StartStore, Ends, NoJob
  <2>3. CASE StartLimit(v) \/ StartTerminate(v) \/ StartCount(v)
    <3>1. job'[v].id = NoId
      BY <2>3, Moves DEF StartLimit, StartTerminate, StartCount, NoJob, Job, Typing, JobOK
    <3>. QED  BY <3>1
  <2>. QED  BY <1>1, <2>1, <2>2, <2>3 DEF Start
<1>2. CASE Receive(v) \/ Lookup(v)
  <2>1. ~Ends(v)
    BY DEF Ends, NoJob
  <2>2. pc'[v] = "find" \/ copy'[v].status \in Over
    BY <1>2, <2>1, ReadingRow
       DEF Silent, Quiet, GradeLabels, Closed, Fill, Over
  <2>3. ASSUME NEW op \in TokenOps, NEW s, s.status \in Over, ~Refused(op, s)
        PROVE  FirstWrite[op] = "touch"
    BY <2>3 DEF TokenOps, Over, Refused, IsActive, FirstWrite
  <2>. QED  BY <1>2, <2>1, <2>2, <2>3, Reading
<1>3. CASE Handle(v)
  <2>1. job'[v] = job[v]
    BY <1>3, HandleRow DEF Ends, NoJob
  <2>2. pc[v] \in {"touch", "expire", "timeout"} \cup GradeLabels
    <3>1. Quiet(v)
      BY <2>1 DEF Silent
    <3>2. pc[v] \notin {"find", "fill"}
      BY <1>3 DEF Handle, Touch, WriteAnswer, SaveAnswer, Complete, HandIn, Clear, GradeCheck,
                  GradeInsert, GradeMark, GradeFail, Violate, Pause, Resume, Expire, TimeOut
    <3>. QED  BY <3>1, <3>2 DEF Quiet
  <2>3. CASE Touch(v) \/ GradeMark(v) \/ GradeFail(v)
    BY <2>3, Moves DEF Touch, GradeMark, GradeFail, Ends, NoJob
  <2>4. CASE Expire(v) \/ TimeOut(v) \/ GradeCheck(v) \/ GradeInsert(v)
    BY <2>4, Moves DEF Expire, TimeOut, GradeCheck, GradeInsert, GradeLabels
  <2>. QED  BY <1>3, <2>2, <2>3, <2>4
            DEF Handle, WriteAnswer, SaveAnswer, Complete, HandIn, Clear, Violate, Pause,
                Resume, GradeLabels
<1>4. CASE Stays(v)
  BY <1>4 DEF Stays, Silent, Quiet
<1>. QED  BY <1>1, <1>2, <1>3, <1>4, TurnUp DEF Acts

LEMMA SilentCache ==
    ASSUME Kept, [Next]_vars, NEW i \in Ids, Silent(i)
    PROVE  cache'[i].status \in Over \cup {"absent"}
<1>1. ASSUME NEW w \in Workers, job[w].id = i
      PROVE  /\ ~StartStore(w) /\ ~SaveAnswer(w)
             /\ Fill(w) \/ Touch(w) => copy[w].status \in Over
  BY <1>1 DEF Silent, Quiet, GradeLabels, StartStore, SaveAnswer, Fill, Touch
<1>. QED  BY <1>1, CacheRow DEF Kept, Silent, NoRow

LEMMA ShutStays ==
    ASSUME Kept, Strict, [Next]_vars, ~StartUnavailable, NEW i \in Ids, i \in Attempts,
           Closed(i), Shut(i)
    PROVE  Shut(i)'
<1>. Typing /\ Alone /\ NoId \notin Ids
  BY IdsAssumption DEF Kept, Acks
<1>1. CASE Silent(i)
  <2>1. CASE \E v \in Workers : job'[v].id = i /\ Leaving(v)'
    BY <2>1 DEF Shut, Leaving
  <2>2. CASE \A v \in Workers : job'[v].id = i => ~Leaving(v)'
    <3>1. \A v \in Workers : job'[v].id = i => Quiet(v)'
      BY <1>1, <2>2, QuietStep DEF Quiet, Leaving
    <3>. QED  BY <1>1, <3>1, SilentCache DEF Shut, Silent, Quiet
  <2>. QED  BY <2>1, <2>2
<1>2. ASSUME NEW u \in Workers, job[u].id = i, Leaving(u)
      PROVE  Shut(i)'
  <2>1. CASE Stays(u)
    BY <1>2, <2>1 DEF Stays, Shut, Leaving
  <2>2. CASE HandIn(u)
    <3>1. pc'[u] = "clear" /\ job'[u] = job[u]
      BY <2>2, Moves DEF HandIn
    <3>. QED  BY <1>2, <3>1 DEF Shut, Leaving
  <2>3. CASE Clear(u)
    <3>1. cache'[i] = NoRow
      BY <1>2, <2>3 DEF Clear, CacheDel, CachePut, Strict, Typing, TypeOK
    <3>2. ASSUME NEW v \in Workers, job'[v].id = i
          PROVE  pc'[v] = "gradeCheck"
      <4>1. v = u
        BY <1>2, <2>3, <3>2, OthersStay DEF Handle, Others, Stays, Alone
      <4>. QED  BY <2>3, <3>2, <4>1, Moves DEF Clear, Ends, NoJob
    <3>. QED  BY <3>1, <3>2 DEF Shut, Silent, Quiet, GradeLabels, NoRow
  <2>4. Acts(u) => HandIn(u) \/ Clear(u)
    BY <1>2 DEF Leaving, Acts, Start, StartLimit, StartTerminate, StartCount, StartAttempt,
         StartSession, StartStore, Receive, Lookup, Find, Fill, Handle, Touch, WriteAnswer,
         SaveAnswer, Complete, GradeCheck, GradeInsert, GradeMark, GradeFail, Violate, Pause,
         Resume, Expire, TimeOut
  <2>. QED  BY <2>1, <2>2, <2>3, <2>4, TurnUp
<1>. QED  BY <1>1, <1>2 DEF Shut
LEMMA SubmittedHere ==
    ASSUME Kept, NEW i \in Ids, Submitted(i)
    PROVE  i \in Attempts
  BY DEF Kept, Submitted, Attempts, Present, Sessions

\* What is submitted was submitted before, or this step submits it.
LEMMA SubmittedStep ==
    ASSUME Kept, [Next]_vars, NEW i \in Ids, Submitted(i)'
    PROVE  \/ Submitted(i)
           \/ \E w \in Workers : job[w].id = i /\ (Complete(w) \/ HandIn(w))
<1>. Typing /\ Present
  BY DEF Kept
<1>1. CASE session'[i].status = "completed" /\ session[i].status # "completed"
  BY <1>1, SessionRow DEF Keeps
<1>2. CASE attempt'[i].status = "submitted" /\ attempt[i].status # "submitted"
  <2>1. ASSUME NEW w \in Workers, StartAttempt(w)
        PROVE  FALSE
    BY <1>2, <2>1 DEF StartAttempt, NoAttempt, Typing, TypeOK
  <2>2. ASSUME NEW k \in Ids, NEW a, NEW st \in {"submitted", "timed_out"},
               attempt' = [attempt EXCEPT ![k].status = st, ![k].answers = a]
        PROVE  st = "submitted" /\ k = i
    BY <1>2, <2>2, ClosingRow DEF AttemptStatus
  <2>3. ASSUME NEW k \in Ids, NEW g, attempt' = [attempt EXCEPT ![k].grading = g]
        PROVE  FALSE
    BY <1>2, <2>3, MarkingRow
  <2>. QED  BY <1>2, <2>1, <2>2, <2>3, AttemptRows DEF TimedOut
<1>. QED  BY <1>1, <1>2 DEF Submitted

LEMMA SubmittedAnswers ==
    ASSUME Kept, [Next]_vars, NEW i \in Ids, i \in Attempts, attempt'[i].status = "submitted"
    PROVE  \/ attempt[i].status = "submitted" /\ attempt'[i].answers = attempt[i].answers
           \/ \E w \in Workers : /\ HandIn(w) /\ job[w].id = i
                                 /\ attempt'[i].answers = copy[w].answers
<1>. Typing /\ Present
  BY DEF Kept
<1>1. ASSUME NEW w \in Workers, StartAttempt(w)
      PROVE  attempt'[i] = attempt[i]
  BY <1>1, NewAttempt
<1>2. ASSUME NEW w \in Workers, HandIn(w), job[w].id \in Ids,
             attempt' = [attempt EXCEPT ![job[w].id].status = "submitted",
                                        ![job[w].id].answers = copy[w].answers]
      PROVE  \/ attempt'[i] = attempt[i]
             \/ HandIn(w) /\ job[w].id = i /\ attempt'[i].answers = copy[w].answers
  <2>. PICK k \in Ids : k = job[w].id
    BY <1>2
  <2>1. /\ attempt'[k].answers = copy[w].answers
        /\ i # k => attempt'[i] = attempt[i]
    BY <1>2 DEF Typing, TypeOK, Attempt
  <2>. QED  BY <1>2, <2>1
<1>3. ASSUME NEW k \in Ids, NEW a, TimedOut(k, a)
      PROVE  attempt'[i] = attempt[i]
  BY <1>3, ClosingRow DEF TimedOut, AttemptStatus
<1>4. ASSUME NEW k \in Ids, NEW g, attempt' = [attempt EXCEPT ![k].grading = g]
      PROVE  attempt'[i].status = attempt[i].status /\ attempt'[i].answers = attempt[i].answers
  BY <1>4, MarkingRow
<1>. QED  BY <1>1, <1>2, <1>3, <1>4, AttemptRows

LEMMA HandingStep ==
    ASSUME Typing, [Next]_vars, ~StartUnavailable, NEW v \in Workers, pc'[v] = "handin"
    PROVE  Complete(v) \/ Stays(v)
<1>1. CASE Start(v)
  BY <1>1, Moves DEF Start, StartLimit, StartTerminate, StartCount, StartAttempt, StartSession,
                     StartStore, Ends, Typing, TypeOK
<1>2. CASE Receive(v) \/ Lookup(v)
  BY <1>2, ReadingLabels
<1>3. CASE Handle(v)
  BY <1>3, HandleLabels DEF Ends
<1>. QED  BY <1>1, <1>2, <1>3, TurnUp DEF Acts

LEMMA Completing ==
    ASSUME Typing, Present, NEW w \in Workers, Complete(w)
    PROVE  /\ job[w].id \in Ids /\ session'[job[w].id].status = "completed"
           /\ pc'[w] = "handin" /\ job'[w] = job[w]
<1>1. job[w].id \in Ids
  BY Named DEF Complete, StartLabels
<1>. QED  BY <1>1, Moves DEF Complete, Typing, TypeOK, Row

LEMMA SubmittedNext ==
    ASSUME Kept, SubmittedShut, [Next]_vars
    PROVE  SubmittedShut'
<1>. SUFFICES ASSUME Strict, crashes' = 0
              PROVE  /\ \A i \in Ids : Submitted(i)' => Closed(i)' /\ Shut(i)'
                     /\ \A i \in Ids : attempt'[i].status = "submitted" =>
                            acked'[i] \subseteq attempt'[i].answers
                     /\ \A w \in Workers : pc'[w] = "handin" =>
                            session'[job'[w].id].status \in Over
  BY DEF SubmittedShut, Strict, Closed
<1>. /\ Typing /\ Present /\ ~StartUnavailable
     /\ \A i \in Ids : Submitted(i) => Closed(i) /\ Shut(i)
     /\ \A i \in Ids : attempt[i].status = "submitted" => acked[i] \subseteq attempt[i].answers
     /\ \A w \in Workers : pc[w] = "handin" => Closed(job[w].id)
  BY NoCrash DEF Kept, SubmittedShut
<1>1. ASSUME NEW i \in Ids, Submitted(i)'
      PROVE  Closed(i)' /\ Shut(i)'
  <2>1. CASE Submitted(i)
    BY <2>1, SubmittedHere, ClosedStays, ShutStays
  <2>2. ASSUME NEW w \in Workers, job[w].id = i, Complete(w)
        PROVE  Closed(i)' /\ Shut(i)'
    BY <2>2, Completing DEF Closed, Over, Shut, Leaving
  <2>3. ASSUME NEW w \in Workers, job[w].id = i, HandIn(w)
        PROVE  Closed(i)' /\ Shut(i)'
    <3>1. pc[w] = "handin" /\ pc'[w] = "clear" /\ job'[w] = job[w] /\ UNCHANGED session
      BY <2>3, Moves DEF HandIn
    <3>. QED  BY <2>3, <3>1 DEF Closed, Shut, Leaving
  <2>. QED  BY <1>1, <2>1, <2>2, <2>3, SubmittedStep
<1>2. ASSUME NEW i \in Ids, attempt'[i].status = "submitted"
      PROVE  acked'[i] \subseteq attempt'[i].answers
  <2>1. CASE attempt[i].status = "submitted" /\ attempt'[i].answers = attempt[i].answers
    <3>1. Shut(i)
      BY <2>1 DEF Submitted
    <3>2. ASSUME NEW w \in Workers, SaveAnswer(w), job[w].id = i
          PROVE  FALSE
      BY <3>1, <3>2, NoWriter DEF SaveAnswer
    <3>. QED  BY <2>1, <3>2, AckedStep
  <2>2. ASSUME NEW w \in Workers, HandIn(w), job[w].id = i, attempt'[i].answers = copy[w].answers
        PROVE  acked'[i] \subseteq attempt'[i].answers
    <3>1. acked[i] \subseteq copy[w].answers /\ UNCHANGED acked
      BY <2>2 DEF HandIn, Kept, Acks, AckedRequests, Carrying
    <3>. QED  BY <2>2, <3>1
  <2>3. i \in Attempts
    <3>1. Submitted(i) \/ \E w \in Workers : job[w].id = i /\ (Complete(w) \/ HandIn(w))
      BY <1>2, SubmittedStep DEF Submitted
    <3>. QED  BY <3>1, SubmittedHere, Named DEF Complete, HandIn, StartLabels
  <2>. QED  BY <1>2, <2>1, <2>2, <2>3, SubmittedAnswers
<1>3. ASSUME NEW w \in Workers, pc'[w] = "handin"
      PROVE  session'[job'[w].id].status \in Over
  <2>1. CASE Complete(w)
    BY <2>1, Completing DEF Over
  <2>2. CASE Stays(w)
    <3>1. pc[w] = "handin" /\ job'[w] = job[w] /\ job[w].id \in Ids
      BY <1>3, <2>2, Named DEF Stays, StartLabels
    <3>2. Closed(job[w].id) /\ Shut(job[w].id)
      BY <3>1 DEF Shut, Leaving
    <3>. QED  BY <3>1, <3>2, ClosedStays DEF Closed
  <2>. QED  BY <1>3, <2>1, <2>2, HandingStep
<1>. QED  BY <1>1, <1>2, <1>3

LEMMA SubmittedInit == Init => SubmittedShut
  BY DEF Init, SubmittedShut, Submitted, NoAttempt, NoRow

\* A submitted attempt holds every answer acknowledged for it, unless the process
\* died; no answer is acknowledged that the submission no longer sees.
THEOREM SubmissionsAreComplete == Spec => []SubmissionComplete
<1>1. Kept /\ SubmittedShut => SubmissionComplete
  BY DEF SubmittedShut, Strict, SubmissionComplete
<1>2. Kept /\ SubmittedShut /\ [Next]_vars => (Kept /\ SubmittedShut)'
  BY KeptNext, SubmittedNext
<1>. QED  BY <1>1, <1>2, KeptInit, SubmittedInit, PTL DEF Spec

\* No stale copy of the active row survives a submission: the session stays
\* completed, or is marked as expired.
THEOREM CompletedIsFinal == Spec => CompletedStaysClosed
<1>1. ASSUME Kept, SubmittedShut, [Next]_vars, Strict, crashes' = 0, NEW i \in Ids,
             session[i].status = "completed"
      PROVE  session'[i].status \in {"completed", "expired"}
  <2>1. Closed(i) /\ Shut(i)
    BY <1>1, NoCrash DEF Kept, SubmittedShut, Submitted
  <2>. QED  BY <1>1, <2>1, ClosedStays DEF Closed, Over
<1>2. Kept /\ SubmittedShut /\ [Next]_vars => (Kept /\ SubmittedShut)'
  BY KeptNext, SubmittedNext
<1>3. Kept /\ SubmittedShut /\ [Next]_vars
        => [SerialClient /\ ~CacheFaults /\ crashes' = 0 => \A i \in Ids :
              session[i].status = "completed" => session'[i].status \in {"completed", "expired"}]_vars
  BY <1>1 DEF Strict
<1>. QED  BY <1>2, <1>3, KeptInit, SubmittedInit, PTL DEF Spec, CompletedStaysClosed

-----------------------------------------------------------------------------
(* The answers are those of AnswerSheet.  What a request goes by is what the   *)
(* row holds, or some of it after a crash; the cache falls behind the row only *)
(* while a request is about to put the answers there.                          *)

\* A request that may write carries one answer.
SingleOK ==
    \A w \in Workers :
        /\ pc[w] \in {"write", "save"} => job[w].op = "answer"
        /\ job[w].op = "answer" => \E q \in Questions : job[w].answer = {q}

\* The answers S are those of the row, or at least some of them after a crash.
OnSheet(i, S) == S \subseteq session[i].answers /\ (crashes = 0 => S = session[i].answers)

\* A row that is not there has no answers.
Blank ==
    \A i \in Ids :
        /\ session[i].status = "absent" => session[i].answers = {}
        /\ attempt[i].status = "absent" => attempt[i].answers = {}

\* The cache falls behind the row while a request is about to put it there.
CacheSheets ==
    \A i \in Ids : cache[i].status # "absent" =>
        /\ cache[i].answers \subseteq session[i].answers
        /\ (\A w \in Workers : job[w].id = i => pc[w] # "save") => OnSheet(i, cache[i].answers)

Taken == {"touch", "write", "complete", "handin", "expire", "timeout"}

RequestSheets ==
    \A w \in Workers :
        LET c == cache[job[w].id] IN
        /\ pc[w] \in Taken \cup {"store", "fill"} => OnSheet(job[w].id, copy[w].answers)
        /\ pc[w] = "save" => session[job[w].id].answers = copy[w].answers \cup job[w].answer
        /\ pc[w] \in {"find", "fill"} => c.status = "absent"
        /\ pc[w] \in Taken \cup {"save"} /\ c.status # "absent" => c.answers = copy[w].answers
        /\ pc[w] = "timeout" => copy[w].answers # {}

CronSheets ==
    /\ crashes = 0 => \A i \in Ids : cron.read[i].answers \subseteq session[i].answers
    /\ cron.pc = "timeout" => cron.read[cron.at].answers # {}

HandsInOnce ==
    crashes = 0 => \A w \in Workers :
        pc[w] = "handin" => attempt[job[w].id].status # "submitted"

SheetOK == Strict => Blank /\ CacheSheets /\ RequestSheets /\ CronSheets /\ HandsInOnce

LEMMA SingleNext ==
    ASSUME Typing, SingleOK, [Next]_vars
    PROVE  SingleOK'
<1>. SUFFICES ASSUME NEW v \in Workers
              PROVE  /\ pc'[v] \in {"write", "save"} => job'[v].op = "answer"
                     /\ job'[v].op = "answer" => \E q \in Questions : job'[v].answer = {q}
  BY DEF SingleOK
<1>. job \in [Workers -> Job] /\ job[v] \in Job /\ NoJob.op = "none"
  BY DEF Typing, TypeOK, NoJob
<1>1. CASE Start(v)
  <2>1. CASE StartAttempt(v)
    <3>1. /\ pc'[v] = "session" /\ job'[v].op = job[v].op /\ job'[v].answer = job[v].answer
      BY <2>1 DEF StartAttempt, Typing, TypeOK, Job
    <3>. QED  BY <3>1 DEF SingleOK
  <2>2. CASE StartLimit(v)
    BY <2>2 DEF StartLimit, Typing, TypeOK, NoJob
  <2>3. CASE StartTerminate(v) \/ StartCount(v) \/ StartSession(v)
    <3>1. job'[v] = job[v] /\ pc'[v] \notin {"write", "save"}
      BY <2>3, Moves DEF StartTerminate, StartCount, StartSession, Typing, TypeOK
    <3>. QED  BY <3>1 DEF SingleOK
  <2>4. CASE StartStore(v)
    BY <2>4, Moves DEF StartStore, Ends
  <2>. QED  BY <1>1, <2>1, <2>2, <2>3, <2>4 DEF Start
<1>2. CASE Receive(v) \/ Lookup(v)
  <2>1. job'[v].op = "answer" => \E q \in Questions : job'[v].answer = {q}
    <3>1. CASE Receive(v)
      <4>1. PICK op \in Ops \cap TokenOps, i \in issued, q \in Questions :
              LET j == [op |-> op, id |-> i, answer |-> IF op = "answer" THEN {q} ELSE {}]
              IN  Dispatch(v, j, cache[i]) \/ Continue(v, j, NoRow, "find")
        BY <3>1 DEF Receive
      <4>2. ASSUME NEW j, NEW s, Dispatch(v, j, s)
            PROVE  job'[v] \in {NoJob, j}
        BY <4>2, Moves DEF Dispatch, Ends
      <4>3. ASSUME NEW j, NEW s, Continue(v, j, s, "find")
            PROVE  job'[v] = j
        BY <4>3, Moves
      <4>4. job'[v] \in {NoJob, [op |-> op, id |-> i,
                                 answer |-> IF op = "answer" THEN {q} ELSE {}]}
        BY <4>1, <4>2, <4>3
      <4>. QED  BY <4>4
    <3>2. CASE Lookup(v)
      BY <3>2, ReadingRow DEF Ends, SingleOK, Receive, Lookup, Find, Fill
    <3>. QED  BY <1>2, <3>1, <3>2
  <2>2. pc'[v] \in {"write", "save"} => job'[v].op = "answer"
    <3>1. \A op \in TokenOps : FirstWrite[op] \in {"write", "save"} => op = "answer"
      BY DEF TokenOps, FirstWrite
    <3>. QED  BY <1>2, <3>1, Reading DEF Ends
  <2>. QED  BY <2>1, <2>2
<1>3. CASE Handle(v)
  BY <1>3, HandleLabels DEF Ends, SingleOK, WriteAnswer
<1>4. CASE Stays(v) \/ Ends(v)
  BY <1>4 DEF Stays, Ends, SingleOK
<1>. QED  BY <1>1, <1>2, <1>3, <1>4, Turn DEF Acts

SheetInv == Kept /\ SubmittedShut /\ SingleOK /\ SheetOK
Sheets == SheetInv /\ Strict

LEMMA CrashesGrow ==
    ASSUME Typing, [Next]_vars
    PROVE  /\ crashes \in Nat /\ crashes' \in Nat
           /\ crashes' # crashes => crashes' > 0 /\ StartUnavailable
           /\ crashes' = 0 => crashes = 0
<1>1. crashes \in Nat
  BY DEF Typing, TypeOK
<1>2. ~StartUnavailable => crashes' = crashes
  BY CrashesKept
<1>3. StartUnavailable => crashes' = crashes + 1
  BY DEF StartUnavailable
<1>. QED  BY <1>1, <1>2, <1>3

\* The answers of a row change by a write only.
LEMMA SheetStays ==
    ASSUME Sheets, [Next]_vars, NEW i \in Ids,
           \A w \in Workers : WriteAnswer(w) => job[w].id # i
    PROVE  session'[i].answers = session[i].answers
<1>1. ASSUME NEW w \in Workers, StartSession(w), job[w].id = i
      PROVE  session[i].answers = {}
  <2>1. RequestDates /\ Blank /\ pc[w] = "session"
    BY <1>1 DEF StartSession, Sheets, SheetInv, Kept, Dates, SheetOK
  <2>. QED  BY <1>1, <2>1 DEF RequestDates, Blank
<1>. QED  BY <1>1, SessionRow DEF Sheets, SheetInv, Kept, Keeps

\* The answers of a row that a request writes.
LEMMA Writing ==
    ASSUME Sheets, NEW w \in Workers, WriteAnswer(w)
    PROVE  /\ job[w].id \in Ids /\ job[w].id \in issued /\ pc[w] = "write" /\ pc'[w] = "save"
           /\ job'[w] = job[w] /\ copy'[w] = copy[w] /\ UNCHANGED <<cache, attempt, acked, crashes>>
           /\ session' = [session EXCEPT ![job[w].id].answers = Answered(w).answers]
           /\ session'[job[w].id].answers = copy[w].answers \cup job[w].answer
           /\ \A i \in Ids : i # job[w].id => session'[i] = session[i]
           /\ OnSheet(job[w].id, copy[w].answers)
<1>. Typing /\ Present
  BY DEF Sheets, SheetInv, Kept
<1>1. pc[w] = "write" /\ job[w].id \in Ids /\ job[w].id \in issued
  BY Named DEF WriteAnswer, StartLabels
<1>2. session' = [session EXCEPT ![job[w].id].answers = Answered(w).answers]
  BY DEF WriteAnswer
<1>3. session'[job[w].id].answers = Answered(w).answers
  BY <1>1, <1>2 DEF Typing, TypeOK, Row
<1>4. \A i \in Ids : i # job[w].id => session'[i] = session[i]
  BY <1>1, <1>2 DEF Typing, TypeOK
<1>5. pc'[w] = "save" /\ job'[w] = job[w] /\ copy'[w] = copy[w]
  BY Moves DEF WriteAnswer
<1>6. OnSheet(job[w].id, copy[w].answers)
  BY <1>1 DEF Sheets, SheetInv, SheetOK, RequestSheets, Taken
<1>. QED  BY <1>1, <1>2, <1>3, <1>4, <1>5, <1>6, AnsweredRow DEF WriteAnswer

LEMMA BlankNext ==
    ASSUME Sheets, [Next]_vars
    PROVE  Blank'
<1>. SUFFICES ASSUME NEW i \in Ids
              PROVE  /\ session'[i].status = "absent" => session'[i].answers = {}
                     /\ attempt'[i].status = "absent" => attempt'[i].answers = {}
  BY DEF Blank
<1>. Typing /\ Present /\ RowDates /\ Blank
  BY DEF Sheets, SheetInv, SheetOK, Kept, Dates
<1>1. ASSUME session'[i].status = "absent", NEW w \in Workers, WriteAnswer(w), job[w].id = i
      PROVE  FALSE
  <2>1. session[i].status # "absent"
    <3>1. i \in issued
      BY <1>1, Writing
    <3>. QED  BY <3>1 DEF RowDates
  <2>2. session'[i].status = session[i].status
    <3>1. i \in Ids /\ session' = [session EXCEPT ![i].answers = Answered(w).answers]
      BY <1>1, Writing
    <3>2. session[i] \in Row /\ session'[i] = [session[i] EXCEPT !.answers = Answered(w).answers]
      BY <3>1 DEF Typing, TypeOK
    <3>. QED  BY <3>2 DEF Row
  <2>. QED  BY <1>1, <2>1, <2>2
<1>2. session'[i].status = "absent" => session'[i].answers = session[i].answers
  BY <1>1, SheetStays
<1>3. session'[i].status = "absent" => session[i].status = "absent" \/ session'[i].answers = {}
  BY <1>1, SessionRow DEF Keeps, SessionStatus, Open
<1>4. attempt'[i].status = "absent" => attempt'[i].answers = {}
  <2>1. ASSUME NEW w \in Workers, StartAttempt(w)
        PROVE  attempt'[i] = attempt[i] \/ attempt'[i].status = "in_progress"
    BY <2>1 DEF StartAttempt, NoAttempt, Typing, TypeOK
  <2>2. ASSUME NEW k \in Ids, NEW a, NEW st \in {"submitted", "timed_out"},
               attempt' = [attempt EXCEPT ![k].status = st, ![k].answers = a]
        PROVE  attempt'[i] = attempt[i] \/ attempt'[i].status = st
    BY <2>2, ClosingRow DEF AttemptStatus
  <2>3. ASSUME NEW k \in Ids, NEW g, attempt' = [attempt EXCEPT ![k].grading = g]
        PROVE  attempt'[i].status = attempt[i].status /\ attempt'[i].answers = attempt[i].answers
    BY <2>3, MarkingRow
  <2>4. \/ /\ attempt'[i].status = attempt[i].status
           /\ attempt'[i].answers = attempt[i].answers
        \/ attempt'[i].status \in {"in_progress", "submitted", "timed_out"}
    BY <2>1, <2>2, <2>3, AttemptRows DEF TimedOut
  <2>. QED  BY <2>4 DEF Blank
<1>. QED  BY <1>2, <1>3, <1>4 DEF Blank

\* What is on the sheet of a request that does not write it stays on it.
LEMMA OnSheetStays ==
    ASSUME Sheets, [Next]_vars, NEW i \in Ids, NEW S, OnSheet(i, S),
           \A w \in Workers : WriteAnswer(w) => job[w].id # i
    PROVE  OnSheet(i, S)'
  BY SheetStays, CrashesGrow DEF OnSheet, Sheets, SheetInv, Kept

LEMMA CacheSheetsNext ==
    ASSUME Sheets, [Next]_vars
    PROVE  CacheSheets'
<1>. /\ Typing /\ Alone /\ NoId \notin Ids /\ CacheSheets /\ RequestSheets /\ ~CacheFaults
  BY IdsAssumption DEF Sheets, SheetInv, SheetOK, Kept, Acks, Strict
<1>. SUFFICES ASSUME NEW i \in Ids, cache'[i].status # "absent"
              PROVE  /\ cache'[i].answers \subseteq session'[i].answers
                     /\ (\A w \in Workers : job'[w].id = i => pc'[w] # "save")
                          => OnSheet(i, cache[i].answers)'
  BY DEF CacheSheets
<1>1. ASSUME NEW w \in Workers, WriteAnswer(w), job[w].id = i
      PROVE  /\ cache'[i].answers \subseteq session'[i].answers
             /\ job'[w].id = i /\ pc'[w] = "save"
  <2>1. /\ pc[w] = "write" /\ cache' = cache /\ job'[w] = job[w] /\ pc'[w] = "save"
        /\ session'[i].answers = copy[w].answers \cup job[w].answer
    BY <1>1, Writing
  <2>2. cache[i].answers = copy[w].answers
    BY <1>1, <2>1 DEF RequestSheets, Taken
  <2>. QED  BY <1>1, <2>1, <2>2
<1>2. CASE /\ \A w \in Workers : WriteAnswer(w) => job[w].id # i
           /\ cache'[i] = cache[i]
  <2>1. cache'[i].answers \subseteq session'[i].answers
    BY <1>2, SheetStays DEF CacheSheets
  <2>2. ASSUME \A w \in Workers : job'[w].id = i => pc'[w] # "save",
               NEW w \in Workers, job[w].id = i, pc[w] = "save"
        PROVE  OnSheet(i, cache[i].answers)'
    <3>1. CASE SaveAnswer(w)
      <4>1. cache'[i] = Answered(w) /\ UNCHANGED <<session>>
        BY <2>2, <3>1 DEF SaveAnswer, CachePut, rows, Typing, TypeOK
      <4>. QED  BY <2>2, <4>1, AnsweredRow DEF RequestSheets, OnSheet
    <3>2. CASE StartUnavailable
      <4>1. crashes' # 0
        BY <3>2, CrashesGrow DEF StartUnavailable
      <4>. QED  BY <2>1, <4>1 DEF OnSheet
    <3>3. Acts(w) => SaveAnswer(w)
      BY <2>2 DEF Acts, Start, StartLimit, StartTerminate, StartCount, StartAttempt,
         StartSession, StartStore, Receive, Lookup, Find, Fill, Handle, Touch, WriteAnswer,
         Complete, HandIn, Clear, GradeCheck, GradeInsert, GradeMark, GradeFail, Violate, Pause,
         Resume, Expire, TimeOut
    <3>4. ~Stays(w)
      BY <2>2 DEF Stays
    <3>. QED  BY <3>1, <3>2, <3>3, <3>4, TurnUp
  <2>3. ASSUME \A w \in Workers : job[w].id = i => pc[w] # "save"
        PROVE  OnSheet(i, cache[i].answers)'
    BY <1>2, <2>3, OnSheetStays DEF CacheSheets
  <2>. QED  BY <2>1, <2>2, <2>3
<1>3. ASSUME NEW w \in Workers, job[w].id = i,
             \/ (StartStore(w) \/ Fill(w) \/ Touch(w)) /\ cache'[i] = copy[w]
             \/ SaveAnswer(w) /\ cache'[i] = Answered(w)
      PROVE  OnSheet(i, cache[i].answers)'
  <2>1. OnSheet(i, cache'[i].answers)
    BY <1>3, AnsweredRow
       DEF StartStore, Fill, Touch, SaveAnswer, RequestSheets, Taken, OnSheet
  <2>2. pc[w] # "write"
    BY <1>3 DEF StartStore, Fill, Touch, SaveAnswer
  <2>3. \A u \in Workers : WriteAnswer(u) => job[u].id # i
    BY <1>3, <2>2 DEF Alone, WriteAnswer
  <2>. QED  BY <2>1, <2>3, OnSheetStays
<1>4. CASE \A w \in Workers : WriteAnswer(w) => job[w].id # i
  <2>1. cache'[i] # NoRow
    BY DEF NoRow
  <2>2. OnSheet(i, cache[i].answers)' => cache'[i].answers \subseteq session'[i].answers
    BY DEF OnSheet
  <2>. QED  BY <1>2, <1>3, <1>4, <2>1, <2>2, CacheRow
<1>. QED  BY <1>1, <1>4

\* A request that has read the row.
LEMMA ReadSheet ==
    ASSUME Sheets, [Next]_vars, NEW v \in Workers, Receive(v) \/ Lookup(v), ~Ends(v)
    PROVE  LET i == job'[v].id IN
           /\ i \in Ids
           /\ pc'[v] \in {"find", "fill"} => cache'[i].status = "absent"
           /\ pc'[v] \notin {"find", "fill"} => /\ OnSheet(i, copy'[v].answers)
                                                /\ cache'[i].status # "absent" =>
                                                     cache'[i].answers = copy'[v].answers
           /\ pc'[v] = "fill" => OnSheet(i, copy'[v].answers)
           /\ UNCHANGED <<session, crashes>>
<1>. /\ Typing /\ Present /\ SerialClient /\ ~CacheFaults /\ CacheSheets /\ RequestSheets
     /\ cache \in [Ids -> Row]
  BY DEF Sheets, SheetInv, SheetOK, Kept, Strict, Typing, TypeOK
<1>1. UNCHANGED <<session, crashes>>
  BY DEF Receive, Lookup, Find, Fill, rows
<1>2. job'[v].id \in Ids
  BY ReadingRow
<1>3. CASE Receive(v)
  <2>1. UNCHANGED cache /\ ~Find(v) /\ ~Fill(v)
    BY <1>3 DEF Receive, Find, Fill
  <2>2. CASE pc'[v] = "find"
    <3>1. PICK op \in Ops \cap TokenOps, i \in issued, q \in Questions :
            LET j == [op |-> op, id |-> i, answer |-> IF op = "answer" THEN {q} ELSE {}]
            IN  \/ Dispatch(v, j, cache[i])
                \/ cache[i].status = "absent" /\ Continue(v, j, NoRow, "find")
      BY <1>3 DEF Receive
    <3>. DEFINE j == [op |-> op, id |-> i, answer |-> IF op = "answer" THEN {q} ELSE {}]
    <3>2. ~Dispatch(v, j, cache[i])
      <4>1. FirstWrite[j.op] # "find"
        BY DEF FirstWrite, TokenOps
      <4>. QED  BY <2>2, <4>1, Moves DEF Dispatch, Ends
    <3>3. job'[v] = j /\ cache[i].status = "absent"
      BY <3>1, <3>2, Moves
    <3>. QED  BY <1>1, <1>2, <2>1, <2>2, <3>3
  <2>3. CASE pc'[v] # "find"
    <3>1. /\ \A w \in Workers : job[w].id # job'[v].id
          /\ pc'[v] # "fill" /\ cache[job'[v].id].status # "absent"
          /\ copy'[v] = cache[job'[v].id]
      BY <1>3, <2>1, <2>3, ReadingRow
    <3>2. ASSUME NEW i \in Ids, i = job'[v].id
          PROVE  OnSheet(i, cache[i].answers)
      BY <3>1, <3>2 DEF CacheSheets
    <3>3. OnSheet(job'[v].id, copy'[v].answers)
      BY <1>2, <3>1, <3>2
    <3>. QED  BY <1>1, <1>2, <2>1, <2>3, <3>1, <3>3
  <2>. QED  BY <2>2, <2>3
<1>4. CASE Find(v)
  <2>1. /\ UNCHANGED cache /\ pc[v] = "find" /\ pc'[v] = "fill" /\ job'[v] = job[v]
        /\ copy'[v] = session[job[v].id]
    BY <1>4, ReadingRow DEF Find, Receive, Fill
  <2>. QED  BY <1>1, <1>2, <2>1 DEF RequestSheets, OnSheet
<1>5. CASE Fill(v)
  <2>1. /\ pc[v] = "fill" /\ job'[v] = job[v] /\ copy'[v] = copy[v]
        /\ pc'[v] \notin {"find", "fill"}
    BY <1>5, ReadingRow DEF Find, Receive, Fill
  <2>2. cache'[job[v].id] = copy[v]
    BY <1>2, <1>5, <2>1 DEF Fill, CachePut
  <2>. QED  BY <1>1, <1>2, <2>1, <2>2 DEF RequestSheets
<1>. QED  BY <1>3, <1>4, <1>5 DEF Lookup

\* A request that is not at work keeps its sheet, and its copy in the cache.
LEMMA WaitingSheet ==
    ASSUME Sheets, [Next]_vars, NEW v \in Workers, Stays(v), ~Acts(v),
           pc[v] \in Taken \cup {"save", "store", "find", "fill"}
    PROVE  /\ job[v].id \in Ids
           /\ session'[job[v].id].answers = session[job[v].id].answers
           /\ cache'[job[v].id] \in {cache[job[v].id], NoRow}
           /\ crashes' = 0 => crashes = 0
<1>. Typing /\ Present /\ Alone /\ NoId \notin Ids
  BY IdsAssumption DEF Sheets, SheetInv, Kept, Acks
<1>1. job[v].id \in Ids
  BY Named DEF Taken, StartLabels, Typing, JobOK
<1>2. \A w \in Workers : job[w].id = job[v].id => ~Acts(w)
  BY <1>1 DEF Alone
<1>3. \A w \in Workers : WriteAnswer(w) => job[w].id # job[v].id
  BY <1>2 DEF Acts, Handle
<1>4. cache'[job[v].id] \in {cache[job[v].id], NoRow}
  BY <1>1, <1>2, CacheRow DEF Acts, Start, Lookup, Handle
<1>. QED  BY <1>1, <1>3, <1>4, SheetStays, CrashesGrow

LEMMA RequestSheetsNext ==
    ASSUME Sheets, [Next]_vars
    PROVE  RequestSheets'
<1>. /\ Typing /\ Present /\ RequestSheets /\ NoRow.status = "absent"
  BY DEF Sheets, SheetInv, SheetOK, Kept, NoRow
<1>. SUFFICES ASSUME NEW v \in Workers
              PROVE  LET c == cache'[job'[v].id] IN
        /\ pc'[v] \in Taken \cup {"store", "fill"} => OnSheet(job[v].id, copy[v].answers)'
        /\ pc'[v] = "save" =>
             session'[job'[v].id].answers = copy'[v].answers \cup job'[v].answer
        /\ pc'[v] \in {"find", "fill"} => c.status = "absent"
        /\ pc'[v] \in Taken \cup {"save"} /\ c.status # "absent" => c.answers = copy'[v].answers
        /\ pc'[v] = "timeout" => copy'[v].answers # {}
  BY DEF RequestSheets, OnSheet, Taken
<1>1. CASE Start(v)
  <2>1. pc'[v] \in {"idle", "terminate", "count", "attempt", "session", "store"}
    BY <1>1, Moves DEF Start, StartLimit, StartTerminate, StartCount, StartAttempt,
       StartSession, StartStore, Ends, Typing, TypeOK
  <2>2. ASSUME pc'[v] = "store"
        PROVE  OnSheet(job[v].id, copy[v].answers)'
    <3>1. StartSession(v)
      BY <1>1, <2>2, Moves DEF Start, StartLimit, StartTerminate, StartCount, StartAttempt,
       StartStore, Ends, Typing, TypeOK
    <3>2. job'[v] = job[v] /\ job[v].id \in Ids
      BY <3>1 DEF StartSession, Typing, JobOK
    <3>3. copy'[v].answers = {} /\ session'[job[v].id].answers = {}
      BY <3>1, <3>2 DEF StartSession, Typing, TypeOK
    <3>. QED  BY <3>2, <3>3 DEF OnSheet
  <2>. QED  BY <2>1, <2>2 DEF Taken
<1>2. CASE (Receive(v) \/ Lookup(v)) /\ ~Ends(v)
  <2>1. pc'[v] \notin {"save", "store", "timeout"}
    BY <1>2, ReadingLabels, Reading DEF FirstWrite, TokenOps
  <2>. QED  BY <1>2, <2>1, ReadSheet DEF OnSheet, Taken
<1>3. CASE Handle(v) /\ ~Ends(v)
  <2>1. CASE WriteAnswer(v)
    <3>1. /\ pc[v] = "write" /\ pc'[v] = "save" /\ job'[v] = job[v] /\ copy'[v] = copy[v]
          /\ cache' = cache
          /\ session'[job[v].id].answers = copy[v].answers \cup job[v].answer
      BY <2>1, Writing
    <3>. QED  BY <3>1 DEF RequestSheets, Taken
  <2>2. CASE Complete(v) \/ Expire(v)
    <3>1. /\ job'[v] = job[v] /\ copy'[v] = copy[v] /\ UNCHANGED <<cache, crashes>>
          /\ pc[v] \in {"complete", "expire"} /\ pc'[v] \in {"handin", "timeout", "clear"}
          /\ pc'[v] = "timeout" => copy[v].answers # {}
      BY <2>2, Moves DEF Complete, Expire
    <3>2. job[v].id \in Ids
      BY <3>1, Named DEF StartLabels
    <3>3. \A w \in Workers : WriteAnswer(w) => job[w].id # job[v].id
      BY <3>1, <3>2, IdsAssumption
         DEF Sheets, SheetInv, Kept, Acks, Alone, WriteAnswer
    <3>4. OnSheet(job[v].id, copy[v].answers)
      BY <3>1 DEF RequestSheets, Taken
    <3>5. OnSheet(job[v].id, copy[v].answers)'
      BY <3>1, <3>2, <3>3, <3>4, SheetStays DEF OnSheet
    <3>. QED  BY <3>1, <3>5 DEF RequestSheets, Taken
  <2>3. CASE ~WriteAnswer(v) /\ ~Complete(v) /\ ~Expire(v)
    <3>1. pc[v] # "expire"
      <4>1. Touch(v) \/ SaveAnswer(v) \/ HandIn(v) \/ Clear(v) => pc[v] # "expire"
        BY DEF Touch, SaveAnswer, HandIn, Clear
      <4>2. GradeCheck(v) \/ GradeInsert(v) \/ GradeMark(v) \/ GradeFail(v) => pc[v] # "expire"
        BY DEF GradeCheck, GradeInsert, GradeMark, GradeFail
      <4>3. Violate(v) \/ Pause(v) \/ Resume(v) \/ TimeOut(v) => pc[v] # "expire"
        BY DEF Violate, Pause, Resume, TimeOut
      <4>. QED  BY <1>3, <2>3, <4>1, <4>2, <4>3 DEF Handle
    <3>2. pc'[v] \in {"clear", "gradeCheck", "gradeInsert", "gradeFail", "gradeMark"}
      BY <1>3, <2>3, <3>1, HandleLabels
    <3>. QED  BY <3>2 DEF Taken
  <2>. QED  BY <2>1, <2>2, <2>3
<1>4. CASE Ends(v)
  BY <1>4 DEF Ends, Taken
<1>5. CASE Stays(v) /\ ~Acts(v)
  <2>1. CASE pc[v] \in Taken \cup {"save", "store", "find", "fill"}
    <3>1. pc'[v] = pc[v] /\ job'[v] = job[v] /\ copy'[v] = copy[v]
      BY <1>5 DEF Stays
    <3>2. /\ session'[job[v].id].answers = session[job[v].id].answers
          /\ cache'[job[v].id] \in {cache[job[v].id], NoRow}
          /\ crashes' = 0 => crashes = 0
      BY <1>5, <2>1, WaitingSheet
    <3>. QED  BY <3>1, <3>2 DEF RequestSheets, OnSheet
  <2>2. CASE pc[v] \notin Taken \cup {"save", "store", "find", "fill"}
    BY <1>5, <2>2 DEF Stays, Taken
  <2>. QED  BY <2>1, <2>2
<1>. QED  BY <1>1, <1>2, <1>3, <1>4, <1>5, Turn DEF Acts

LEMMA SheetGrows ==
    ASSUME Sheets, [Next]_vars, crashes' = 0, NEW i \in Ids
    PROVE  crashes = 0 /\ session[i].answers \subseteq session'[i].answers
<1>1. crashes = 0
  BY CrashesGrow DEF Sheets, SheetInv, Kept
<1>2. ASSUME NEW w \in Workers, WriteAnswer(w), job[w].id = i
      PROVE  session[i].answers \subseteq session'[i].answers
  <2>1. /\ OnSheet(i, copy[w].answers)
        /\ session'[i].answers = copy[w].answers \cup job[w].answer
    BY <1>2, Writing
  <2>. QED  BY <1>1, <2>1 DEF OnSheet
<1>. QED  BY <1>1, <1>2, SheetStays

LEMMA CronSheetsNext ==
    ASSUME Sheets, [Next]_vars
    PROVE  CronSheets'
<1>. Typing /\ CronSheets /\ NoRow.answers = {}
  BY DEF Sheets, SheetInv, SheetOK, Kept, NoRow
<1>1. ASSUME NEW i \in Ids
      PROVE  cron'.read[i] \in {cron.read[i], NoRow, session[i]}
  <2>1. CASE CronQuery
    BY <2>1 DEF CronQuery, CronIdle
  <2>2. ASSUME NEW k, CronDone(k)
        PROVE  cron'.read[i] \in {cron.read[i], NoRow}
    BY <2>2 DEF CronDone, CronIdle, NothingRead, Typing, TypeOK
  <2>3. CASE CronTimeOut
    BY <2>2, <2>3 DEF CronTimeOut
  <2>4. ASSUME NEW k \in Ids, CronExpire(k)
        PROVE  cron'.read[i] \in {cron.read[i], NoRow}
    BY <2>2, <2>4 DEF CronExpire, Typing, TypeOK
  <2>5. CASE StartUnavailable
    BY <2>5 DEF StartUnavailable, CronIdle, NothingRead
  <2>6. CASE ~Cron /\ ~StartUnavailable
    BY <2>6, CronKept
  <2>. QED  BY <2>1, <2>3, <2>4, <2>5, <2>6 DEF Cron
<1>2. ASSUME crashes' = 0, NEW i \in Ids
      PROVE  cron'.read[i].answers \subseteq session'[i].answers
  <2>1. crashes = 0 /\ session[i].answers \subseteq session'[i].answers
    BY <1>2, SheetGrows
  <2>2. cron.read[i].answers \subseteq session[i].answers
    BY <1>2, <2>1 DEF CronSheets
  <2>3. cron'.read[i] \in {cron.read[i], NoRow, session[i]}
    BY <1>1, <1>2
  <2>. QED  BY <2>1, <2>2, <2>3
<1>3. cron'.pc = "timeout" => cron'.read[cron'.at].answers # {}
  <2>1. CASE CronQuery \/ CronTimeOut
    <3>1. CronQuery => cron'.pc = "expire"
      BY DEF CronQuery, CronIdle
    <3>2. \A k : CronDone(k) => cron'.pc \in {"idle", "expire"}
      BY DEF CronDone, CronIdle
    <3>. QED  BY <2>1, <3>1, <3>2 DEF CronTimeOut
  <2>2. ASSUME NEW k \in Ids, CronExpire(k)
        PROVE  cron'.pc = "timeout" => cron'.read[cron'.at].answers # {}
    <3>1. CASE cron' = [cron EXCEPT !.pc = "timeout", !.at = k] /\ cron.read[k].answers # {}
      BY <3>1 DEF Typing, TypeOK
    <3>2. CASE CronDone(k)
      BY <3>2 DEF CronDone, CronIdle
    <3>. QED  BY <2>2, <3>1, <3>2 DEF CronExpire
  <2>3. CASE StartUnavailable
    BY <2>3 DEF StartUnavailable, CronIdle
  <2>4. CASE ~Cron /\ ~StartUnavailable
    <3>1. UNCHANGED cron
      BY <2>4, CronKept
    <3>. QED  BY <3>1 DEF CronSheets
  <2>. QED  BY <2>1, <2>2, <2>3, <2>4 DEF Cron
<1>. QED  BY <1>2, <1>3 DEF CronSheets

\* A request that writes the answers of an attempt, or hands them in, finds an
\* attempt that is not handed in yet.
LEMMA NotHandedIn ==
    ASSUME Sheets, crashes = 0, NEW w \in Workers, job[w].id \in Ids,
           pc[w] \in {"write", "save", "complete", "handin"}
    PROVE  attempt[job[w].id].status # "submitted"
<1>1. CASE pc[w] = "handin"
  BY <1>1 DEF Sheets, SheetInv, SheetOK, HandsInOnce
<1>2. CASE pc[w] # "handin"
  BY <1>2, NoWriter DEF Sheets, SheetInv, SubmittedShut, Submitted
<1>. QED  BY <1>1, <1>2

LEMMA HandsInOnceNext ==
    ASSUME Sheets, [Next]_vars
    PROVE  HandsInOnce'
<1>. SUFFICES ASSUME crashes' = 0, NEW w \in Workers, pc'[w] = "handin"
              PROVE  attempt'[job'[w].id].status # "submitted"
  BY DEF HandsInOnce
<1>. Kept /\ Typing /\ Present /\ Alone /\ NoId \notin Ids
  BY IdsAssumption DEF Sheets, SheetInv, Kept, Acks
<1>. crashes = 0 /\ ~StartUnavailable
  BY NoCrash
<1>1. CASE Complete(w)
  <2>1. job[w].id \in Ids /\ job'[w] = job[w] /\ UNCHANGED attempt /\ pc[w] = "complete"
    BY <1>1, Completing DEF Complete
  <2>. QED  BY <2>1, NotHandedIn
<1>2. CASE Stays(w)
  <2>1. pc[w] = "handin" /\ job'[w] = job[w] /\ job[w].id \in Ids /\ job[w].id \in Attempts
    BY <1>2, Named DEF Stays, StartLabels
  <2>2. ASSUME NEW u \in Workers, HandIn(u), job[u].id = job[w].id
        PROVE  FALSE
    <3>1. u = w
      BY <2>1, <2>2 DEF Alone
    <3>. QED  BY <1>2, <2>1, <2>2, <3>1, Moves DEF HandIn, Stays
  <2>. QED  BY <2>1, <2>2, NotHandedIn, SubmittedAnswers
<1>. QED  BY <1>1, <1>2, HandingStep

LEMMA SheetAlways == Spec => []SheetInv
<1>1. Init => SheetInv
  <2>1. Init => SheetOK /\ SingleOK
    BY DEF Init, SheetOK, SingleOK, Blank, CacheSheets, RequestSheets, CronSheets, HandsInOnce,
           Taken, NoRow, NoAttempt, NoJob, CronIdle, NothingRead
  <2>. QED  BY <2>1, KeptInit, SubmittedInit DEF SheetInv
<1>2. SheetInv /\ [Next]_vars => SheetInv'
  <2>. SUFFICES ASSUME SheetInv, [Next]_vars
                PROVE  SheetInv'
    OBVIOUS
  <2>1. Kept' /\ SubmittedShut' /\ SingleOK'
    BY KeptNext, SubmittedNext, SingleNext DEF SheetInv, Kept
  <2>2. ASSUME Strict
        PROVE  (Blank /\ CacheSheets /\ RequestSheets /\ CronSheets /\ HandsInOnce)'
    BY <2>2, BlankNext, CacheSheetsNext, RequestSheetsNext, CronSheetsNext, HandsInOnceNext
       DEF Sheets
  <2>3. SheetOK'
    BY <2>2 DEF SheetOK, Strict
  <2>. QED  BY <2>1, <2>3 DEF SheetInv
<1>. QED  BY <1>1, <1>2, PTL DEF Spec

\* The sheet and the paper as AnswerSheet has them.
TheSheet == [i \in Ids |-> session[i].answers]
ThePaper == [i \in Ids |-> Paper(i)]

\* What a request has read is what a step of AnswerSheet may find.
LEMMA FindsRead ==
    ASSUME Sheets, NEW w \in Workers, NEW i \in Ids, job[w].id = i,
           pc[w] \in {"write", "handin"}
    PROVE  /\ copy[w].answers \in SUBSET TheSheet[i]
           /\ Abstract!Finds(i, copy[w].answers)
<1>1. acked[i] \subseteq copy[w].answers
  BY DEF Sheets, SheetInv, Kept, Acks, AckedRequests, Carrying
<1>2. OnSheet(i, copy[w].answers)
  BY DEF Sheets, SheetInv, SheetOK, RequestSheets, Taken
<1>3. crashes \in Nat
  BY DEF Sheets, SheetInv, Kept, Typing, TypeOK
<1>. QED  BY <1>1, <1>2, <1>3 DEF OnSheet, TheSheet, Abstract!Finds

LEMMA MayWrite ==
    ASSUME Sheets, NEW w \in Workers, NEW i \in Ids, job[w].id = i,
           pc[w] \in {"write", "save", "handin"}
    PROVE  Abstract!Writable(i)
<1>1. crashes \in Nat
  BY DEF Sheets, SheetInv, Kept, Typing, TypeOK
<1>2. crashes = 0 => attempt[i].status # "submitted"
  BY NotHandedIn
<1>. QED  BY <1>1, <1>2 DEF Abstract!Writable, Paper

LEMMA WritePromised ==
    ASSUME Sheets, NEW w \in Workers, WriteAnswer(w)
    PROVE  Abstract!Step
<1>1. PICK i \in Ids : i = job[w].id
  BY Writing
<1>2. PICK q \in Questions : job[w].answer = {q}
  BY Writing DEF Sheets, SheetInv, SingleOK
<1>3. pc[w] = "write" /\ UNCHANGED <<acked, attempt>>
  BY Writing
<1>4. TheSheet' = [TheSheet EXCEPT ![i] = copy[w].answers \cup {q}]
  <2>1. session'[i].answers = copy[w].answers \cup {q}
    BY <1>1, <1>2, Writing
  <2>2. \A k \in Ids : k # i => session'[k].answers = session[k].answers
    BY <1>1, Writing
  <2>. QED  BY <2>1, <2>2 DEF TheSheet
<1>5. ThePaper' = ThePaper
  BY <1>3 DEF ThePaper, Paper
<1>6. Abstract!Writable(i)
  BY <1>1, <1>3, MayWrite
<1>7. /\ copy[w].answers \in SUBSET TheSheet[i]
      /\ Abstract!Finds(i, copy[w].answers)
  BY <1>1, <1>3, FindsRead
<1>8. Abstract!Write(i, q)
  BY <1>3, <1>4, <1>5, <1>6, <1>7 DEF Abstract!Write, TheSheet, ThePaper
<1>. QED  BY <1>8 DEF Abstract!Step

LEMMA AcknowledgePromised ==
    ASSUME Sheets, NEW w \in Workers, SaveAnswer(w)
    PROVE  Abstract!Step
<1>1. pc[w] = "save" /\ UNCHANGED <<session, attempt>>
  BY DEF SaveAnswer, rows
<1>2. PICK i \in Ids : i = job[w].id
  BY <1>1, Named DEF StartLabels, Sheets, SheetInv, Kept
<1>3. PICK q \in Questions : job[w].answer = {q}
  BY <1>1 DEF Sheets, SheetInv, SingleOK
<1>4. q \in TheSheet[i]
  BY <1>1, <1>2, <1>3 DEF Sheets, SheetInv, SheetOK, RequestSheets, TheSheet
<1>5. acked' = [acked EXCEPT ![i] = @ \cup {q}]
  BY <1>2, <1>3 DEF SaveAnswer
<1>6. TheSheet' = TheSheet /\ ThePaper' = ThePaper
  BY <1>1 DEF TheSheet, ThePaper, Paper
<1>7. Abstract!Writable(i)
  BY <1>1, <1>2, MayWrite
<1>8. Abstract!Acknowledge(i, q)
  BY <1>4, <1>5, <1>6, <1>7 DEF Abstract!Acknowledge, TheSheet, ThePaper
<1>. QED  BY <1>8 DEF Abstract!Step

\* An attempt that is closed.
LEMMA ClosedPaper ==
    ASSUME Typing, NEW i \in Ids, NEW st \in {"submitted", "timed_out"}, NEW a,
           attempt' = [attempt EXCEPT ![i].status = st, ![i].answers = a]
    PROVE  ThePaper' = [ThePaper EXCEPT ![i] = [status |-> st, answers |-> a]]
<1>1. /\ attempt'[i].status = st /\ attempt'[i].answers = a
      /\ \A k \in Ids : k # i => attempt'[k] = attempt[k]
  BY ClosingRow DEF AttemptStatus
<1>2. Paper(i)' = [status |-> st, answers |-> a]
  BY <1>1 DEF Paper
<1>3. \A k \in Ids : k # i => Paper(k)' = Paper(k)
  BY <1>1 DEF Paper
<1>. QED  BY <1>2, <1>3 DEF ThePaper

\* A step that neither writes an answer nor acknowledges one.
LEMMA SameSheet ==
    ASSUME Sheets, [Next]_vars, \A w \in Workers : ~WriteAnswer(w) /\ ~SaveAnswer(w)
    PROVE  TheSheet' = TheSheet /\ acked' = acked
<1>1. \A i \in Ids : session'[i].answers = session[i].answers
  BY SheetStays
<1>2. \A i \in Ids : acked'[i] = acked[i]
  BY AckedStep DEF Sheets, SheetInv, Kept
<1>3. acked \in [Ids -> SUBSET Questions] /\ acked' \in [Ids -> SUBSET Questions]
  BY TypingNext DEF Sheets, SheetInv, Kept, Typing, TypeOK
<1>. QED  BY <1>1, <1>2, <1>3 DEF TheSheet

LEMMA HandInPromised ==
    ASSUME Sheets, [Next]_vars, NEW w \in Workers, HandIn(w), job[w].id \in Ids
    PROVE  Abstract!Step
<1>1. PICK i \in Ids : i = job[w].id
  OBVIOUS
<1>2. /\ pc[w] = "handin" /\ UNCHANGED <<session, acked>>
      /\ attempt' = [attempt EXCEPT ![i].status = "submitted", ![i].answers = copy[w].answers]
  BY <1>1 DEF HandIn
<1>3. TheSheet' = TheSheet
  BY <1>2 DEF TheSheet
<1>4. ThePaper' = [ThePaper EXCEPT ![i] = [status |-> "submitted", answers |-> copy[w].answers]]
  BY <1>2, ClosedPaper DEF Sheets, SheetInv, Kept
<1>5. Abstract!Writable(i)
  BY <1>1, <1>2, MayWrite
<1>6. /\ copy[w].answers \in SUBSET TheSheet[i]
      /\ Abstract!Finds(i, copy[w].answers)
  BY <1>1, <1>2, FindsRead
<1>7. Abstract!Submit(i)
  BY <1>2, <1>3, <1>4, <1>5, <1>6 DEF Abstract!Submit, TheSheet, ThePaper
<1>. QED  BY <1>7 DEF Abstract!Step

LEMMA TimeOutPromised ==
    ASSUME Sheets, [Next]_vars, NEW i \in Ids, NEW a \in SUBSET Questions, TimedOut(i, a),
           \/ CronTimeOut /\ i = cron.at
           \/ \E w \in Workers : TimeOut(w) /\ i = job[w].id /\ a = copy[w].answers
    PROVE  Abstract!Step
<1>. Typing
  BY DEF Sheets, SheetInv, Kept
<1>1. UNCHANGED <<session, acked>>
  BY DEF CronTimeOut, TimeOut
<1>2. TheSheet' = TheSheet
  BY <1>1 DEF TheSheet
<1>3. ThePaper' = [ThePaper EXCEPT ![i] = [status |-> "timed_out", answers |-> a]]
  BY ClosedPaper DEF TimedOut
<1>4. a # {} /\ (crashes > 0 \/ a \subseteq TheSheet[i])
  <2>1. crashes \in Nat /\ (crashes = 0 \/ crashes > 0)
    BY DEF Typing, TypeOK
  <2>2. ASSUME CronTimeOut, i = cron.at
        PROVE  a = cron.read[i].answers
    <3>1. TimedOut(i, cron.read[i].answers)
      BY <2>2 DEF CronTimeOut
    <3>. "timed_out" \in AttemptStatus
      BY DEF AttemptStatus
    <3>2. ASSUME NEW b, TimedOut(i, b)
          PROVE  attempt'[i].answers = b
      <4>1. attempt' = [attempt EXCEPT ![i].status = "timed_out", ![i].answers = b]
        BY <3>2 DEF TimedOut
      <4>. QED  BY <4>1 DEF Typing, TypeOK, Attempt
    <3>. QED  BY <3>1, <3>2
  <2>3. CASE CronTimeOut /\ i = cron.at
    <3>1. cron.pc = "timeout" /\ a = cron.read[i].answers
      BY <2>2, <2>3 DEF CronTimeOut
    <3>2. CronSheets
      BY DEF Sheets, SheetInv, SheetOK
    <3>3. a # {}
      BY <2>3, <3>1, <3>2 DEF CronSheets
    <3>4. crashes = 0 => a \subseteq session[i].answers
      BY <3>1, <3>2 DEF CronSheets
    <3>. QED  BY <2>1, <3>3, <3>4 DEF TheSheet
  <2>4. ASSUME NEW w \in Workers, TimeOut(w), i = job[w].id, a = copy[w].answers
        PROVE  a # {} /\ (crashes > 0 \/ a \subseteq TheSheet[i])
    <3>1. pc[w] = "timeout"
      BY <2>4 DEF TimeOut
    <3>2. OnSheet(i, a) /\ a # {}
      BY <2>4, <3>1 DEF Sheets, SheetInv, SheetOK, RequestSheets, Taken
    <3>. QED  BY <3>2 DEF OnSheet, TheSheet
  <2>. QED  BY <2>3, <2>4
<1>5. Abstract!TimeOut(i)
  BY <1>1, <1>2, <1>3, <1>4 DEF Abstract!TimeOut, TheSheet, ThePaper
<1>. QED  BY <1>5 DEF Abstract!Step

\* What neither writes, acknowledges nor closes leaves the records as they are.
LEMMA SamePaper ==
    ASSUME Sheets, [Next]_vars,
           \/ UNCHANGED attempt
           \/ \E w \in Workers : StartAttempt(w)
           \/ \E k \in Ids, g \in {"graded", "in_progress"} :
                attempt' = [attempt EXCEPT ![k].grading = g]
    PROVE  ThePaper' = ThePaper
<1>. Typing /\ Blank
  BY DEF Sheets, SheetInv, SheetOK, Kept
<1>. SUFFICES ASSUME NEW i \in Ids
              PROVE  Paper(i)' = Paper(i)
  BY DEF ThePaper
<1>1. CASE UNCHANGED attempt
  BY <1>1 DEF Paper
<1>2. ASSUME NEW w \in Workers, StartAttempt(w)
      PROVE  Paper(i)' = Paper(i)
  <2>1. \/ attempt'[i] = attempt[i]
        \/ /\ attempt[i].status = "absent"
           /\ attempt'[i].status = "in_progress" /\ attempt'[i].answers = {}
    <3>1. PICK k \in Ids :
            /\ attempt[k].status = "absent"
            /\ attempt' = [attempt EXCEPT ![k] =
                 [NoAttempt EXCEPT !.status = "in_progress", !.number = number[w]]]
      BY <1>2 DEF StartAttempt
    <3>. DEFINE a == [NoAttempt EXCEPT !.status = "in_progress", !.number = number[w]]
    <3>2. a.status = "in_progress" /\ a.answers = {}
      BY DEF NoAttempt
    <3>3. attempt[k].status = "absent" /\ attempt' = [attempt EXCEPT ![k] = a]
      BY <3>1
    <3>. HIDE DEF a
    <3>4. attempt'[i] = attempt[i] \/ (i = k /\ attempt'[i] = a)
      BY <3>3 DEF Typing, TypeOK
    <3>. QED  BY <3>2, <3>3, <3>4
  <2>2. attempt[i].status = "absent" => attempt[i].answers = {}
    BY DEF Blank
  <2>3. CASE attempt'[i] = attempt[i]
    BY <2>3 DEF Paper
  <2>4. CASE attempt[i].status = "absent" /\ attempt'[i].status = "in_progress"
             /\ attempt'[i].answers = {}
    BY <2>2, <2>4 DEF Paper
  <2>. QED  BY <2>1, <2>3, <2>4
<1>3. ASSUME NEW k \in Ids, NEW g \in {"graded", "in_progress"},
             attempt' = [attempt EXCEPT ![k].grading = g]
      PROVE  Paper(i)' = Paper(i)
  <2>1. attempt'[i].status = attempt[i].status /\ attempt'[i].answers = attempt[i].answers
    BY <1>3, MarkingRow
  <2>. QED  BY <2>1 DEF Paper
<1>. QED  BY <1>1, <1>2, <1>3

LEMMA StepPromised ==
    ASSUME Sheets, [Next]_vars
    PROVE  Abstract!Step
<1>1. CASE \A w \in Workers : ~WriteAnswer(w) /\ ~SaveAnswer(w)
  <2>1. ThePaper' = ThePaper => Abstract!Step
    BY <1>1, SameSheet DEF Abstract!Step, Abstract!records, TheSheet, ThePaper
  <2>2. Typing /\ Present
    BY DEF Sheets, SheetInv, Kept
  <2>3. ASSUME \/ UNCHANGED attempt
               \/ \E w \in Workers : StartAttempt(w)
               \/ \E k \in Ids, g \in {"graded", "in_progress"} :
                    attempt' = [attempt EXCEPT ![k].grading = g]
        PROVE  Abstract!Step
    BY <2>1, <2>3, SamePaper
  <2>4. ASSUME NEW i \in Ids, NEW a \in SUBSET Questions, TimedOut(i, a),
               \/ CronTimeOut /\ i = cron.at
               \/ \E w \in Workers : TimeOut(w) /\ i = job[w].id /\ a = copy[w].answers
        PROVE  Abstract!Step
    BY <2>4, TimeOutPromised
  <2>5. ASSUME NEW w \in Workers, HandIn(w), job[w].id \in Ids
        PROVE  Abstract!Step
    BY <2>5, HandInPromised
  <2>. QED  BY <2>2, <2>3, <2>4, <2>5, AttemptRows
<1>. QED  BY <1>1, WritePromised, AcknowledgePromised

\* The answers of a session take up one answer at a time and lose none, what is
\* acknowledged is on the row, and what is handed in is the row as it is then;
\* after a crash nothing acknowledged is missing: for any number of requests,
\* sessions and questions, with evictions, expiries and runs of the cron between.
THEOREM AnswersAsPromised == Spec => AnswerSheetSpec
<1>1. Init => Abstract!Init
  BY DEF Init, Abstract!Init, Paper, NoRow, NoAttempt
<1>2. SheetInv /\ [Next]_vars => [Abstract!Next]_(Abstract!avars)
  <2>. SUFFICES ASSUME SheetInv, [Next]_vars, Strict
                PROVE  Abstract!Step /\ (crashes > 0)' \in {crashes > 0, TRUE}
    BY DEF Abstract!Next, Strict
  <2>1. (crashes > 0)' \in {crashes > 0, TRUE}
    <3>1. (crashes > 0)' = (crashes > 0) \/ (crashes > 0)' = TRUE
      BY CrashesGrow DEF SheetInv, Kept
    <3>. QED  BY <3>1, Zenon
  <2>. QED  BY <2>1, StepPromised DEF Sheets
<1>. QED  BY <1>1, <1>2, SheetAlways, PTL DEF Spec, AnswerSheetSpec, Abstract!Spec

-----------------------------------------------------------------------------
(* What follows from the promises of AnswerSheet.                            *)

SheetKept ==
    Strict =>
        /\ acked \in [Ids -> SUBSET Questions]
        /\ \A i \in Ids : acked[i] \subseteq TheSheet[i]
        /\ ~(crashes > 0) => \A i \in Ids :
             ThePaper[i].status = "submitted" => ThePaper[i].answers = TheSheet[i]

LEMMA SheetKeptStep ==
    ASSUME SheetKept, [Abstract!Next]_(Abstract!avars)
    PROVE  SheetKept'
<1>. SUFFICES ASSUME Strict
              PROVE  /\ acked' \in [Ids -> SUBSET Questions]
                     /\ \A i \in Ids : acked'[i] \subseteq TheSheet'[i]
                     /\ ~(crashes > 0)' => \A i \in Ids :
                          ThePaper'[i].status = "submitted" => ThePaper'[i].answers = TheSheet'[i]
  BY DEF SheetKept, Strict
<1>. /\ acked \in [Ids -> SUBSET Questions]
     /\ \A i \in Ids : acked[i] \subseteq TheSheet[i]
     /\ ~(crashes > 0) => \A i \in Ids :
          ThePaper[i].status = "submitted" => ThePaper[i].answers = TheSheet[i]
  BY DEF SheetKept
<1>. DOMAIN TheSheet = Ids /\ DOMAIN ThePaper = Ids
  BY DEF TheSheet, ThePaper
<1>1. (crashes > 0) => (crashes > 0)'
  BY DEF Abstract!Next, Abstract!avars, Strict
<1>2. ASSUME NEW i \in Ids, NEW q \in Questions, Abstract!Write(i, q)
      PROVE  /\ UNCHANGED <<acked, ThePaper>>
             /\ acked[i] \subseteq TheSheet'[i]
             /\ crashes > 0 \/ ThePaper[i].status # "submitted"
             /\ \A k \in Ids \ {i} : TheSheet'[k] = TheSheet[k]
  <2>1. PICK S : acked[i] \subseteq S /\ TheSheet' = [TheSheet EXCEPT ![i] = S \cup {q}]
    BY <1>2 DEF Abstract!Write, Abstract!Finds, TheSheet
  <2>2. UNCHANGED <<acked, ThePaper>> /\ (crashes > 0 \/ ThePaper[i].status # "submitted")
    BY <1>2 DEF Abstract!Write, Abstract!Writable, ThePaper
  <2>. QED  BY <2>1, <2>2
<1>3. ASSUME NEW i \in Ids, NEW q \in Questions, Abstract!Acknowledge(i, q)
      PROVE  /\ UNCHANGED <<TheSheet, ThePaper>>
             /\ q \in TheSheet[i] /\ acked' = [acked EXCEPT ![i] = acked[i] \cup {q}]
  BY <1>3 DEF Abstract!Acknowledge, TheSheet, ThePaper
<1>4. ASSUME NEW i \in Ids, Abstract!Submit(i)
      PROVE  /\ UNCHANGED <<TheSheet, acked>>
             /\ crashes > 0 \/ ThePaper'[i].answers = TheSheet[i]
             /\ \A k \in Ids \ {i} : ThePaper'[k] = ThePaper[k]
  <2>1. PICK S : /\ crashes > 0 \/ S = TheSheet[i]
                 /\ ThePaper' = [ThePaper EXCEPT ![i] = [status |-> "submitted", answers |-> S]]
    BY <1>4 DEF Abstract!Submit, Abstract!Finds, TheSheet, ThePaper
  <2>2. UNCHANGED <<TheSheet, acked>>
    BY <1>4 DEF Abstract!Submit, TheSheet
  <2>. QED  BY <2>1, <2>2
<1>5. ASSUME NEW i \in Ids, Abstract!TimeOut(i)
      PROVE  /\ UNCHANGED <<TheSheet, acked>>
             /\ ThePaper'[i].status # "submitted"
             /\ \A k \in Ids \ {i} : ThePaper'[k] = ThePaper[k]
  <2>1. PICK S : ThePaper' = [ThePaper EXCEPT ![i] = [status |-> "timed_out", answers |-> S]]
    BY <1>5 DEF Abstract!TimeOut, ThePaper
  <2>2. UNCHANGED <<TheSheet, acked>>
    BY <1>5 DEF Abstract!TimeOut, TheSheet
  <2>. QED  BY <2>1, <2>2
<1>6. CASE UNCHANGED <<TheSheet, acked, ThePaper>>
  BY <1>1, <1>6
<1>7. CASE Abstract!Step
  <2>1. ASSUME NEW i \in Ids, NEW q \in Questions, Abstract!Write(i, q)
        PROVE  \A k \in Ids :
                 /\ acked'[k] \subseteq TheSheet'[k]
                 /\ ~(crashes > 0) /\ ThePaper'[k].status = "submitted" =>
                      ThePaper'[k].answers = TheSheet'[k]
    BY <1>2, <2>1
  <2>2. ASSUME NEW i \in Ids, NEW q \in Questions, Abstract!Acknowledge(i, q)
        PROVE  /\ acked' \in [Ids -> SUBSET Questions]
               /\ \A k \in Ids : acked'[k] \subseteq TheSheet'[k]
    BY <1>3, <2>2
  <2>3. CASE \E i \in Ids, q \in Questions : Abstract!Write(i, q)
    BY <1>1, <1>2, <2>1, <2>3
  <2>4. CASE \E i \in Ids, q \in Questions : Abstract!Acknowledge(i, q)
    BY <1>1, <1>3, <2>2, <2>4
  <2>5. CASE \E i \in Ids : Abstract!Submit(i)
    BY <1>1, <1>4, <2>5
  <2>6. CASE \E i \in Ids : Abstract!TimeOut(i)
    BY <1>1, <1>5, <2>6
  <2>7. CASE UNCHANGED Abstract!records
    BY <1>6, <2>7 DEF Abstract!records, TheSheet, ThePaper
  <2>. QED  BY <1>7, <2>3, <2>4, <2>5, <2>6, <2>7 DEF Abstract!Step
<1>8. CASE UNCHANGED Abstract!avars
  BY <1>6, <1>8 DEF Abstract!avars, Abstract!records, TheSheet, ThePaper
<1>. QED  BY <1>7, <1>8 DEF Abstract!Next, Strict

\* Whoever keeps the promises of AnswerSheet loses no acknowledged answer and hands in
\* the whole sheet.
LEMMA PromisesKept == AnswerSheetSpec => [](Abstract!Acknowledged /\ Abstract!AsHandedIn)
<1>1. Abstract!Init => SheetKept
  BY DEF Abstract!Init, SheetKept, TheSheet, ThePaper
<1>2. SheetKept => Abstract!Acknowledged /\ Abstract!AsHandedIn
  BY DEF SheetKept, Strict, TheSheet, ThePaper, Abstract!Acknowledged, Abstract!AsHandedIn
<1>. QED  BY <1>1, <1>2, SheetKeptStep, PTL DEF AnswerSheetSpec, Abstract!Spec

\* The answers of a submitted attempt are exactly those of the session's row, then and
\* later, until the process dies: submitAssessment hands in a cached copy, and no other
\* request writes the row afterwards.
THEOREM HandedInWhole == Spec => [](Abstract!Acknowledged /\ Abstract!AsHandedIn)
  BY AnswersAsPromised, PromisesKept, PTL
=============================================================================
