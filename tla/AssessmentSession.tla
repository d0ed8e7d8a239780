------------------------- MODULE AssessmentSession -------------------------
(***************************************************************************)
(* One student taking one assessment: assessment-taking.service.ts, the    *)
(* cron of time-management.service.ts and the automatic grading they       *)
(* trigger.  The state lives in three places that no transaction spans:    *)
(* the assessment_sessions and assessment_attempts tables, and a copy of   *)
(* the session row in the cache under "session:<token>".                   *)
(*                                                                         *)
(* A worker is a request in flight.  Every await of a handler ends a step, *)
(* so any other request, the cron, an eviction or a crash of the process   *)
(* may come between two accesses to the tables or to the cache.  What a    *)
(* handler read stays in copy[w], as it stays in the local variable        *)
(* "session" of the code.                                                  *)
(*                                                                         *)
(* startAssessment saves the attempt and then its session; both are named  *)
(* here by one id, which also stands for the session token.                *)
(***************************************************************************)
EXTENDS Naturals, FiniteSets

CONSTANTS
    Workers,           \* requests that may be in flight at the same time
    Ids,               \* attempt ids, session ids and session tokens
    NoId,              \* what a request that names no session carries
    Questions,         \* questions of the assessment
    Ops,               \* kinds of request the client sends
    MaxAttempts,       \* assessment.maxAttempts
    MaxViolations,     \* antiCheatSettings.maxSecurityViolations || 5
    TimeLimit,         \* assessment.timeLimit, in clock ticks
    AllowPause,        \* settings.allowPause
    RequireAllAnswers, \* settings.requireAllAnswers
    AutomaticGrading,  \* assessment.gradingMethod = 'automatic'
    SerialClient,      \* the client awaits a reply before the next request on a session
    CacheFaults,       \* Redis may fail; CacheService swallows the error
    MaxNow,            \* bound: last tick of the clock
    MaxCrashes         \* bound: how often the process dies

TokenOps == {"status", "heartbeat", "progress", "answer", "submit",
             "violation", "pause", "resume"}

ASSUME WorkersAssumption == IsFiniteSet(Workers) /\ Workers # {}
ASSUME IdsAssumption == IsFiniteSet(Ids) /\ NoId \notin Ids
ASSUME QuestionsAssumption == IsFiniteSet(Questions) /\ Questions # {}
ASSUME OpsAssumption == Ops \subseteq (TokenOps \cup {"start"})
ASSUME LimitsAssumption ==
    /\ MaxAttempts \in Nat \ {0}
    /\ MaxViolations \in Nat \ {0}
    /\ TimeLimit \in Nat
    /\ MaxNow \in Nat
    /\ MaxCrashes \in Nat
ASSUME SettingsAssumption ==
    /\ AllowPause \in BOOLEAN
    /\ RequireAllAnswers \in BOOLEAN
    /\ AutomaticGrading \in BOOLEAN
    /\ SerialClient \in BOOLEAN
    /\ CacheFaults \in BOOLEAN

VARIABLES
    session,   \* the assessment_sessions row of an id
    attempt,   \* the assessment_attempts row of an id
    cache,     \* the cached copy of the session row
    grades,    \* number of grade rows of an attempt
    issued,    \* ids whose token startAssessment has returned
    acked,     \* answers submitAnswer has acknowledged, per id
    pc, job, copy, number,  \* where each request stands and its locals
    cron,      \* expireOverdueSessions: where it stands and the rows it read
    now,       \* the clock
    crashes    \* how often the process has died

rows == <<session, attempt, grades>>
locals == <<pc, job, copy, number>>
vars == <<session, attempt, cache, grades, issued, acked, pc, job, copy, number,
          cron, now, crashes>>

-----------------------------------------------------------------------------
(* Data. *)

Open == {"active", "paused"}
SessionStatus == Open \cup {"completed", "expired", "terminated"}
AttemptStatus == {"in_progress", "submitted", "timed_out"}

\* A session row, or the absence of one (a cache miss, a local not yet set).
Row == [status : SessionStatus \cup {"absent"}, expires : Nat,
        answers : SUBSET Questions, violations : Nat]
NoRow == [status |-> "absent", expires |-> 0, answers |-> {}, violations |-> 0]

Attempt == [status : AttemptStatus \cup {"absent"}, number : Nat,
            answers : SUBSET Questions,
            grading : {"pending", "in_progress", "graded"}]
NoAttempt == [status |-> "absent", number |-> 0, answers |-> {},
              grading |-> "pending"]

Job == [op : TokenOps \cup {"start", "none"}, id : Ids \cup {NoId},
        answer : SUBSET Questions]
NoJob == [op |-> "none", id |-> NoId, answer |-> {}]

PC == {"idle", "terminate", "count", "attempt", "session", "store",
       "find", "fill", "touch", "write", "save", "complete", "handin",
       "clear", "gradeCheck", "gradeInsert", "gradeMark", "gradeFail",
       "violate", "pause", "resume", "expire", "timeout"}

Attempts == {i \in Ids : attempt[i].status # "absent"}
ActiveSessions == {i \in Ids : session[i].status = "active"}

\* The two getters of the entity.
IsActive(s) == s.status = "active"
IsExpired(s) == now > s.expires \/ s.status = "expired"

\* Mutant: the cron forgets the paused sessions.
OverdueActiveOnly(i) == session[i].status = "active" /\ session[i].expires <= now

\* The rows the cron's query selects.
Overdue(i) == session[i].status \in Open /\ session[i].expires <= now

TypeOK ==
    /\ session \in [Ids -> Row]
    /\ attempt \in [Ids -> Attempt]
    /\ cache \in [Ids -> Row]
    /\ grades \in [Ids -> Nat]
    /\ issued \subseteq Ids
    /\ acked \in [Ids -> SUBSET Questions]
    /\ pc \in [Workers -> PC]
    /\ job \in [Workers -> Job]
    /\ copy \in [Workers -> Row]
    /\ number \in [Workers -> Nat]
    /\ cron \in [pc : {"idle", "expire", "timeout"}, at : Ids \cup {NoId},
                 read : [Ids -> Row]]
    /\ now \in Nat
    /\ crashes \in Nat

NothingRead == [i \in Ids |-> NoRow]
CronIdle == [pc |-> "idle", at |-> NoId, read |-> NothingRead]

Init ==
    /\ session = [i \in Ids |-> NoRow]
    /\ attempt = [i \in Ids |-> NoAttempt]
    /\ cache = [i \in Ids |-> NoRow]
    /\ grades = [i \in Ids |-> 0]
    /\ issued = {}
    /\ acked = [i \in Ids |-> {}]
    /\ pc = [w \in Workers |-> "idle"]
    /\ job = [w \in Workers |-> NoJob]
    /\ copy = [w \in Workers |-> NoRow]
    /\ number = [w \in Workers |-> 0]
    /\ cron = CronIdle
    /\ now = 0
    /\ crashes = 0

-----------------------------------------------------------------------------
(* Control of one request. *)

Goto(w, label) ==
    /\ pc' = [pc EXCEPT ![w] = label]
    /\ UNCHANGED <<job, copy, number>>

\* The request has replied, or thrown: its locals are gone.
Finish(w) ==
    /\ pc' = [pc EXCEPT ![w] = "idle"]
    /\ job' = [job EXCEPT ![w] = NoJob]
    /\ copy' = [copy EXCEPT ![w] = NoRow]
    /\ number' = [number EXCEPT ![w] = 0]

\* CacheService.set and del log an error and return: the write may be lost.
CachePut(i, s) ==
    \/ cache' = [cache EXCEPT ![i] = s]
    \/ CacheFaults /\ UNCHANGED cache

\* Mutant: the copy stays in the cache.
CacheKeep(i) == i \in Ids /\ UNCHANGED cache

CacheDel(i) == CachePut(i, NoRow)

-----------------------------------------------------------------------------
(* startAssessment.  getAssessmentById and the rejected availability check  *)
(* of an unavailable assessment are StartUnavailable, below.                *)

\* Mutant: off by one.
AttemptLeftInclusive == Cardinality(Attempts) <= MaxAttempts

\* validateAttemptLimits: every attempt counts, whatever its status.
AttemptLeft == Cardinality(Attempts) < MaxAttempts

\* At the limit the request throws and nothing changes.
StartLimit(w) ==
    /\ pc[w] = "idle"
    /\ "start" \in Ops
    /\ AttemptLeft
    /\ pc' = [pc EXCEPT ![w] = "terminate"]
    /\ job' = [job EXCEPT ![w] = [NoJob EXCEPT !.op = "start"]]
    /\ UNCHANGED <<rows, cache, issued, acked, copy, number, cron, now, crashes>>

\* Mutant: the query looks for sessions nobody is working on.
SupersededPaused(s) == s.status = "paused"

\* The rows terminateExistingSessions closes.
Superseded(s) == s.status = "active"

\* terminateExistingSessions: the table only, not the cache, not the attempts.
StartTerminate(w) ==
    /\ pc[w] = "terminate"
    /\ session' = [i \in Ids |-> IF Superseded(session[i])
                                 THEN [session[i] EXCEPT !.status = "terminated"]
                                 ELSE session[i]]
    /\ Goto(w, "count")
    /\ UNCHANGED <<attempt, cache, grades, issued, acked, cron, now, crashes>>

\* Mutant: only the attempts that are over are counted.
NextNumberOfClosed ==
    Cardinality({i \in Attempts : attempt[i].status # "in_progress"}) + 1

NextNumber == Cardinality(Attempts) + 1

\* createAssessmentAttempt counts the attempts again for the attempt number ...
StartCount(w) ==
    /\ pc[w] = "count"
    /\ pc' = [pc EXCEPT ![w] = "attempt"]
    /\ number' = [number EXCEPT ![w] = NextNumber]
    /\ UNCHANGED <<rows, cache, issued, acked, job, copy, cron, now, crashes>>

\* ... and saves the new attempt.
StartAttempt(w) ==
    /\ pc[w] = "attempt"
    /\ \E i \in Ids :
        /\ attempt[i].status = "absent"
        /\ attempt' = [attempt EXCEPT ![i] =
                [NoAttempt EXCEPT !.status = "in_progress", !.number = number[w]]]
        /\ job' = [job EXCEPT ![w].id = i]
    /\ pc' = [pc EXCEPT ![w] = "session"]
    /\ UNCHANGED <<session, cache, grades, issued, acked, copy, number, cron, now,
                   crashes>>

StartSession(w) ==
    LET row == [status |-> "active", expires |-> now + TimeLimit, answers |-> {},
                violations |-> 0]
    IN  /\ pc[w] = "session"
        /\ session' = [session EXCEPT ![job[w].id] = row]
        /\ copy' = [copy EXCEPT ![w] = row]
        /\ pc' = [pc EXCEPT ![w] = "store"]
        /\ UNCHANGED <<attempt, cache, grades, issued, acked, job, number, cron, now,
                       crashes>>

StartStore(w) ==
    /\ pc[w] = "store"
    /\ CachePut(job[w].id, copy[w])
    /\ issued' = issued \cup {job[w].id}
    /\ Finish(w)
    /\ UNCHANGED <<rows, acked, cron, now, crashes>>

(* validateAssessmentAvailability is async and is not awaited: when it       *)
(* throws, the rejection is unhandled and main.ts exits the process.  It     *)
(* throws for an assessment outside its window, and for any assessment read  *)
(* from the cache, whose plain object has no isAvailable getter.  Requests   *)
(* in flight and the cron's run die with the process; the rows and the cache *)
(* survive.                                                                  *)
StartUnavailable ==
    /\ crashes < MaxCrashes
    /\ crashes' = crashes + 1
    /\ pc' = [w \in Workers |-> "idle"]
    /\ job' = [w \in Workers |-> NoJob]
    /\ copy' = [w \in Workers |-> NoRow]
    /\ number' = [w \in Workers |-> 0]
    /\ cron' = CronIdle
    /\ UNCHANGED <<rows, cache, issued, acked, now>>

-----------------------------------------------------------------------------
(* The requests that carry a session token. *)

\* Checks that make a handler throw before it writes anything.
Refused(op, s) ==
    \/ op \in {"progress", "answer", "submit", "violation", "pause"} /\ ~IsActive(s)
    \/ op = "pause" /\ ~AllowPause
    \/ op = "submit" /\ RequireAllAnswers /\ s.answers # Questions
    \/ op = "resume" /\ s.status # "paused"

\* submit, progress, violation and pause never look at the clock.
ChecksExpiry == {"status", "heartbeat", "answer", "resume"}
\* Mutant: a completed session counts as expired.
FindsOver(op, s) == op \in ChecksExpiry /\ (IsExpired(s) \/ s.status = "completed")
FindsExpired(op, s) == op \in ChecksExpiry /\ IsExpired(s)

\* The first write of each handler.
FirstWrite == [status |-> "touch", heartbeat |-> "touch", progress |-> "touch",
               answer |-> "write", submit |-> "complete",
               violation |-> "violate", pause |-> "pause", resume |-> "resume"]

Continue(w, j, s, label) ==
    /\ pc' = [pc EXCEPT ![w] = label]
    /\ job' = [job EXCEPT ![w] = j]
    /\ copy' = [copy EXCEPT ![w] = s]
    /\ UNCHANGED number

\* A handler goes on, without an await, from the row s it has read.
Dispatch(w, j, s) ==
    \/ Refused(j.op, s) /\ Finish(w)
    \/ ~Refused(j.op, s) /\ FindsExpired(j.op, s) /\ Continue(w, j, s, "expire")
    \/ ~Refused(j.op, s) /\ ~FindsExpired(j.op, s)
         /\ Continue(w, j, s, FirstWrite[j.op])

\* The client sends a request; getSessionByToken tries the cache.
Receive(w) ==
    /\ pc[w] = "idle"
    /\ \E op \in Ops \cap TokenOps, i \in issued, q \in Questions :
        LET j == [op |-> op, id |-> i, answer |-> IF op = "answer" THEN {q} ELSE {}]
        IN  /\ SerialClient => \A v \in Workers : job[v].id # i
            /\ \/ cache[i].status # "absent" /\ Dispatch(w, j, cache[i])
               \/ (cache[i].status = "absent" \/ CacheFaults)
                    /\ Continue(w, j, NoRow, "find")
    /\ UNCHANGED <<rows, cache, issued, acked, cron, now, crashes>>

\* A miss: the row is read from the table ...
Find(w) ==
    /\ pc[w] = "find"
    /\ Continue(w, job[w], session[job[w].id], "fill")
    /\ UNCHANGED <<rows, cache, issued, acked, cron, now, crashes>>

\* ... and cached.
Fill(w) ==
    /\ pc[w] = "fill"
    /\ CachePut(job[w].id, copy[w])
    /\ Dispatch(w, job[w], copy[w])
    /\ UNCHANGED <<rows, issued, acked, cron, now, crashes>>

\* getSessionStatus, heartbeat and updateProgress write fields no property
\* reads, and put the copy they have read back into the cache.
Touch(w) ==
    /\ pc[w] = "touch"
    /\ CachePut(job[w].id, copy[w])
    /\ Finish(w)
    /\ UNCHANGED <<rows, issued, acked, cron, now, crashes>>

Answered(w) == [copy[w] EXCEPT !.answers = @ \cup job[w].answer]

\* Mutant: the answer replaces those before it.
WriteAnswerAlone(w) ==
    /\ pc[w] = "write"
    /\ session' = [session EXCEPT ![job[w].id].answers = job[w].answer]
    /\ Goto(w, "save")
    /\ UNCHANGED <<attempt, cache, grades, issued, acked, cron, now, crashes>>

\* submitAnswer: the merged answers go to the table ...
WriteAnswer(w) ==
    /\ pc[w] = "write"
    /\ session' = [session EXCEPT ![job[w].id].answers = Answered(w).answers]
    /\ Goto(w, "save")
    /\ UNCHANGED <<attempt, cache, grades, issued, acked, cron, now, crashes>>

\* Mutant: the copy that was read goes back to the cache.
SaveAnswerUnmerged(w) ==
    /\ pc[w] = "save"
    /\ CachePut(job[w].id, copy[w])
    /\ acked' = [acked EXCEPT ![job[w].id] = @ \cup job[w].answer]
    /\ Finish(w)
    /\ UNCHANGED <<rows, issued, cron, now, crashes>>

\* ... then to the cache, and the client is told that they are saved.
SaveAnswer(w) ==
    /\ pc[w] = "save"
    /\ CachePut(job[w].id, Answered(w))
    /\ acked' = [acked EXCEPT ![job[w].id] = @ \cup job[w].answer]
    /\ Finish(w)
    /\ UNCHANGED <<rows, issued, cron, now, crashes>>

\* Mutant: the attempt is left to be handed in by nobody.
CompleteOnly(w) ==
    /\ pc[w] = "complete"
    /\ session' = [session EXCEPT ![job[w].id].status = "completed"]
    /\ Goto(w, "clear")
    /\ UNCHANGED <<attempt, cache, grades, issued, acked, cron, now, crashes>>

\* submitAssessment: the session row, the attempt, the cache.
Complete(w) ==
    /\ pc[w] = "complete"
    /\ session' = [session EXCEPT ![job[w].id].status = "completed"]
    /\ Goto(w, "handin")
    /\ UNCHANGED <<attempt, cache, grades, issued, acked, cron, now, crashes>>

\* Mutant: the attempt is given the status of the session.
HandInCompleted(w) ==
    /\ pc[w] = "handin"
    /\ attempt' = [attempt EXCEPT ![job[w].id].status = "completed",
                                  ![job[w].id].answers = copy[w].answers]
    /\ Goto(w, "clear")
    /\ UNCHANGED <<session, cache, grades, issued, acked, cron, now, crashes>>

HandIn(w) ==
    /\ pc[w] = "handin"
    /\ attempt' = [attempt EXCEPT ![job[w].id].status = "submitted",
                                  ![job[w].id].answers = copy[w].answers]
    /\ Goto(w, "clear")
    /\ UNCHANGED <<session, cache, grades, issued, acked, cron, now, crashes>>

\* clearSessionCache, after a submission and after an expiry.
Clear(w) ==
    /\ pc[w] = "clear"
    /\ CacheDel(job[w].id)
    /\ IF job[w].op = "submit" /\ AutomaticGrading
       THEN Goto(w, "gradeCheck")
       ELSE Finish(w)
    /\ UNCHANGED <<rows, issued, acked, cron, now, crashes>>

-----------------------------------------------------------------------------
(* triggerAutoGrading, with autoGradeMultipleChoice and createGrade. *)

HasGrade(i) == grades[i] > 0

\* Mutant: nothing looks for the grade.
GradeCheckBlind(w) ==
    /\ pc[w] = "gradeCheck"
    /\ Goto(w, "gradeInsert") \/ Goto(w, "gradeFail")
    /\ UNCHANGED <<rows, cache, issued, acked, cron, now, crashes>>

\* createGrade refuses an attempt that has a grade; a question that cannot be
\* parsed throws as well.
GradeCheck(w) ==
    /\ pc[w] = "gradeCheck"
    /\ \/ ~HasGrade(job[w].id) /\ Goto(w, "gradeInsert")
       \/ Goto(w, "gradeFail")
    /\ UNCHANGED <<rows, cache, issued, acked, cron, now, crashes>>

GradeInsert(w) ==
    /\ pc[w] = "gradeInsert"
    /\ grades' = [grades EXCEPT ![job[w].id] = @ + 1]
    /\ Goto(w, "gradeMark")
    /\ UNCHANGED <<session, attempt, cache, issued, acked, cron, now, crashes>>

GradeMark(w) ==
    /\ pc[w] = "gradeMark"
    /\ attempt' = [attempt EXCEPT ![job[w].id].grading = "graded"]
    /\ Finish(w)
    /\ UNCHANGED <<session, cache, grades, issued, acked, cron, now, crashes>>

GradeFail(w) ==
    /\ pc[w] = "gradeFail"
    /\ attempt' = [attempt EXCEPT ![job[w].id].grading = "in_progress"]
    /\ Finish(w)
    /\ UNCHANGED <<session, cache, grades, issued, acked, cron, now, crashes>>

-----------------------------------------------------------------------------
(* reportSecurityEvent, pauseSession and resumeSession write the table once  *)
(* and leave the cache as it is.                                             *)

\* Only the comparison with MaxViolations matters: the count saturates there.
Violate(w) ==
    LET count == IF copy[w].violations + 1 < MaxViolations
                 THEN copy[w].violations + 1 ELSE MaxViolations
    IN  /\ pc[w] = "violate"
        /\ session' = [session EXCEPT
                ![job[w].id].violations = count,
                ![job[w].id].status = IF count = MaxViolations THEN "terminated" ELSE @]
        /\ Finish(w)
        /\ UNCHANGED <<attempt, cache, grades, issued, acked, cron, now, crashes>>

Pause(w) ==
    /\ pc[w] = "pause"
    /\ session' = [session EXCEPT ![job[w].id].status = "paused"]
    /\ Finish(w)
    /\ UNCHANGED <<attempt, cache, grades, issued, acked, cron, now, crashes>>

Resume(w) ==
    /\ pc[w] = "resume"
    /\ session' = [session EXCEPT ![job[w].id].status = "active"]
    /\ Finish(w)
    /\ UNCHANGED <<attempt, cache, grades, issued, acked, cron, now, crashes>>

-----------------------------------------------------------------------------
(* Expiry: by the request that notices it, and by the cron. *)

\* expireSession of assessment-taking.service.ts.
Expire(w) ==
    /\ pc[w] = "expire"
    /\ session' = [session EXCEPT ![job[w].id].status = "expired"]
    /\ Goto(w, IF copy[w].answers # {} THEN "timeout" ELSE "clear")
    /\ UNCHANGED <<attempt, cache, grades, issued, acked, cron, now, crashes>>

TimedOut(i, answers) ==
    attempt' = [attempt EXCEPT ![i].status = "timed_out", ![i].answers = answers]

TimeOut(w) ==
    /\ pc[w] = "timeout"
    /\ TimedOut(job[w].id, copy[w].answers)
    /\ Goto(w, "clear")
    /\ UNCHANGED <<session, cache, grades, issued, acked, cron, now, crashes>>

\* expireOverdueSessions reads every overdue row at once ...
CronQuery ==
    /\ cron.pc = "idle"
    /\ \E i \in Ids : Overdue(i)
    /\ cron' = [CronIdle EXCEPT
            !.pc = "expire",
            !.read = [i \in Ids |-> IF Overdue(i) THEN session[i] ELSE NoRow]]
    /\ UNCHANGED <<rows, cache, issued, acked, locals, now, crashes>>

CronDone(i) ==
    LET left == [cron.read EXCEPT ![i] = NoRow]
    IN  cron' = IF left = NothingRead THEN CronIdle
                ELSE [pc |-> "expire", at |-> NoId, read |-> left]

\* ... and expires them one by one, without touching the cache.
CronExpire(i) ==
    /\ cron.pc = "expire"
    /\ cron.read[i].status # "absent"
    /\ session' = [session EXCEPT ![i].status = "expired"]
    /\ IF cron.read[i].answers # {}
       THEN cron' = [cron EXCEPT !.pc = "timeout", !.at = i]
       ELSE CronDone(i)
    /\ UNCHANGED <<attempt, cache, grades, issued, acked, locals, now, crashes>>

CronTimeOut ==
    /\ cron.pc = "timeout"
    /\ TimedOut(cron.at, cron.read[cron.at].answers)
    /\ CronDone(cron.at)
    /\ UNCHANGED <<session, cache, grades, issued, acked, locals, now, crashes>>

-----------------------------------------------------------------------------
(* The environment. *)

Tick ==
    /\ now < MaxNow
    /\ now' = now + 1
    /\ UNCHANGED <<rows, cache, issued, acked, locals, cron, crashes>>

\* The entry's time to live ends, or Redis evicts it.
Evict(i) ==
    /\ cache[i].status # "absent"
    /\ cache' = [cache EXCEPT ![i] = NoRow]
    /\ UNCHANGED <<rows, issued, acked, locals, cron, now, crashes>>

Start(w) == \/ StartLimit(w) \/ StartTerminate(w) \/ StartCount(w)
            \/ StartAttempt(w) \/ StartSession(w) \/ StartStore(w)

Lookup(w) == Find(w) \/ Fill(w)

Handle(w) == \/ Touch(w) \/ WriteAnswer(w) \/ SaveAnswer(w)
             \/ Complete(w) \/ HandIn(w) \/ Clear(w)
             \/ GradeCheck(w) \/ GradeInsert(w) \/ GradeMark(w) \/ GradeFail(w)
             \/ Violate(w) \/ Pause(w) \/ Resume(w)
             \/ Expire(w) \/ TimeOut(w)

Cron == CronQuery \/ CronTimeOut \/ \E i \in Ids : CronExpire(i)

Next ==
    \/ \E w \in Workers : Start(w) \/ Receive(w) \/ Lookup(w) \/ Handle(w)
    \/ Cron
    \/ StartUnavailable
    \/ Tick
    \/ \E i \in Ids : Evict(i)

Spec == Init /\ [][Next]_vars
\* @Cron(EVERY_MINUTE): the scheduler runs the cron as long as the process is up.
CronSpec == Spec /\ WF_vars(Cron)

-----------------------------------------------------------------------------
(* What holds whatever the interleaving: requests that overlap break the     *)
(* limits of the assessment by no more than their number.                    *)

\* Two starts may both pass validateAttemptLimits before either saves its
\* attempt.  The limit is exceeded by at most the other requests in flight:
\* never for a client that sends one request at a time.
AttemptsBounded ==
    Cardinality(Attempts) <= MaxAttempts - 1 + Cardinality(Workers)

Numbered(n) == {i \in Attempts : attempt[i].number = n}

\* createAssessmentAttempt counts, then saves.  Attempts share a number only
\* when their starts overlapped, and no number runs ahead of the attempts.
NumbersBounded ==
    /\ \A i \in Attempts : attempt[i].number \in 1 .. Cardinality(Attempts)
    /\ \A i \in Attempts :
          Cardinality(Numbered(attempt[i].number)) <= Cardinality(Workers)

\* terminateExistingSessions runs before the new session is saved, so starts
\* that overlap leave no more active sessions than there are requests, as long
\* as no paused session can be resumed beside them.
ActiveBounded ==
    ~AllowPause => Cardinality(ActiveSessions) <= Cardinality(Workers)

\* createGrade looks for a grade and then inserts one; submissions that overlap
\* may each insert theirs, and no others can.
GradesBounded == \A i \in Ids : grades[i] <= Cardinality(Workers)

\* A grade is given, and an attempt is marked as graded, only once the attempt
\* has been handed in, across crashes and expiries in between.
GradedWasHandedIn ==
    \A i \in Ids :
        /\ grades[i] > 0 => attempt[i].status \in {"submitted", "timed_out"}
        /\ attempt[i].grading = "graded" => grades[i] > 0

\* Handed in is handed in until the time is up.  Afterwards it is not: isExpired
\* does not ask whether the session is completed, so that a status request turns
\* the submitted attempt into a timed out one.
HandedInUntilTime ==
    [][\A i \in Ids :
        attempt[i].status = "submitted" /\ attempt'[i].status # "submitted" =>
            attempt'[i].status = "timed_out" /\ session[i].expires <= now]_vars

-----------------------------------------------------------------------------
(* What the cache-aside copy guarantees to a client that awaits each reply.  *)

\* An acknowledged answer stays in the session row, although every handler
\* overwrites the row from the copy it read, the cron and other sessions run in
\* between, entries are evicted and the process dies between two writes.
AcksDurable ==
    SerialClient /\ ~CacheFaults => \A i \in Ids : acked[i] \subseteq session[i].answers

\* A submitted attempt holds every answer that was acknowledged for it, also
\* those acknowledged after the submission, of which there are none until a
\* crash cuts a submission off between the attempt and the cache.
SubmissionComplete ==
    SerialClient /\ ~CacheFaults /\ crashes = 0 => \A i \in Ids :
        attempt[i].status = "submitted" => acked[i] \subseteq attempt[i].answers

\* A completed session is never taken up again: no stale copy of the active row
\* survives the submission.  It may still be marked as expired.
CompletedStaysClosed ==
    [][SerialClient /\ ~CacheFaults /\ crashes' = 0 => \A i \in Ids :
        session[i].status = "completed" => session'[i].status \in {"completed", "expired"}]_vars

\* What has become of an attempt; one that is not there yet is blank.
Paper(i) == [status |-> IF attempt[i].status \in {"submitted", "timed_out"}
                        THEN attempt[i].status ELSE "open",
             answers |-> attempt[i].answers]

\* No answer is lost on the way to the attempt: each write adds one answer to
\* what the row holds at that moment, although it writes a copy that went through
\* the cache; what is handed in is what the row holds then; and after a crash it
\* is still all that was acknowledged.
Abstract == INSTANCE AnswerSheet WITH
    Reliable <- SerialClient /\ ~CacheFaults,
    sheet <- [i \in Ids |-> session[i].answers],
    paper <- [i \in Ids |-> Paper(i)],
    crashed <- crashes > 0
AnswerSheetSpec == Abstract!Spec

\* The cron closes every session whose time is up, paused ones included,
\* against requests that keep writing their own status over the row.
OverdueCloses ==
    \A i \in Ids :
        session[i].status \in {"active", "paused"} /\ session[i].expires <= now
            ~> session[i].status \notin {"active", "paused"}

=============================================================================
