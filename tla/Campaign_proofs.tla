-------------------------- MODULE Campaign_proofs --------------------------
(* Theorems about Campaign, for any number of recipients, requests, jobs and *)
(* slots, any size of the batches and any bounds.                            *)
EXTENDS Campaign, FiniteSetTheorems, TLAPS

\* What the locals of a job hold where it stands.
JobOK(v) ==
    /\ v \in Job
    /\ v.sent \subseteq v.batch
    /\ v.at # "record" => v.sent = {}
    /\ v.at \notin {"batch", "record"} => v.batch = {}
    /\ v.at = "batch" => Cardinality(v.batch) <= BatchSize
    /\ v.at \in SchedulePC => v.kind = "scheduled"

JobsOK == \A j \in Jobs : JobOK(job[j])

Basic == TypeOK /\ JobsOK

\* How a step changes a job: from a batch it hands over nobody else, and to a
\* batch it comes while the campaign is being sent.
JobStep ==
    /\ job' \in [Jobs -> Job]
    /\ JobsOK'
    /\ \A j \in Jobs :
        /\ job[j].at = "batch" => job'[j].sent \subseteq job[j].batch
        /\ job'[j].at = "batch" => job[j].at = "batch" \/ status' = "sending"

\* The types of the other variables.
Others ==
    /\ status \in CampaignStatus \cup {"deleted"}
    /\ row \in [Rows -> RowStatus]
    /\ req \in [Requests -> Request]
    /\ mailed \in [Rows -> Nat]
    /\ marks \subseteq {"stopped", "overlapped", "lost"}
    /\ crashes \in Nat
    /\ faults \in Nat

Sound == JobStep /\ Others'

-----------------------------------------------------------------------------
(* Types, and what jobs hold. *)

LEMMA NoJobOK == NoJob \in Job /\ JobOK(NoJob)
  BY DEF NoJob, Job, JobOK, SchedulePC

LEMMA NewJobOK ==
    ASSUME NEW k \in {"none", "send", "scheduled"}
    PROVE  JobOK(NewJob(k)) /\ NewJob(k).at = "waiting" /\ NewJob(k).kind = k
  BY DEF NewJob, NoJob, Job, JobOK, SchedulePC

LEMMA RetriedOK ==
    ASSUME Basic, NEW j \in Jobs
    PROVE  /\ JobOK(Retried(j))
           /\ Retried(j).at \in {"free", "waiting"}
           /\ Retried(j).sent = {}
           /\ job[j].tries + 1 < Attempts =>
                Retried(j).kind = job[j].kind /\ Retried(j).at = "waiting"
<1>1. /\ job[j].kind \in {"none", "send", "scheduled"}
      /\ job[j].tries + 1 \in Nat /\ job[j].stalls \in Nat
  BY DEF Basic, TypeOK, Job
<1>2. CASE job[j].tries + 1 < Attempts
  <2>1. Retried(j) =
          [kind |-> job[j].kind, at |-> "waiting", tries |-> job[j].tries + 1,
           stalls |-> job[j].stalls, left |-> {}, batch |-> {}, sent |-> {}]
    BY <1>2 DEF Retried, NewJob, NoJob
  <2>. QED  BY <1>1, <2>1 DEF Job, JobOK, SchedulePC
<1>3. CASE ~(job[j].tries + 1 < Attempts)
  <2>1. Retried(j) = NoJob
    BY <1>3 DEF Retried
  <2>. QED  BY <1>3, <2>1, NoJobOK DEF NoJob
<1>. QED  BY <1>2, <1>3

LEMMA JobMove ==
    ASSUME Basic, NEW j \in Jobs, NEW v, JobOK(v), job' = [job EXCEPT ![j] = v],
           job[j].at = "batch" => v.sent \subseteq job[j].batch,
           v.at = "batch" => job[j].at = "batch" \/ status' = "sending"
    PROVE  JobStep
<1>1. job \in [Jobs -> Job] /\ v \in Job
  BY DEF Basic, TypeOK, JobOK
<1>2. ASSUME NEW i \in Jobs
      PROVE  /\ JobOK(job'[i])
             /\ job[i].at = "batch" => job'[i].sent \subseteq job[i].batch
             /\ job'[i].at = "batch" => job[i].at = "batch" \/ status' = "sending"
  <2>1. CASE i = j
    BY <1>1, <2>1
  <2>2. CASE i # j
    BY <1>1, <2>2 DEF Basic, JobsOK, JobOK
  <2>. QED  BY <2>1, <2>2
<1>. QED  BY <1>1, <1>2 DEF JobStep, JobsOK

LEMMA JobsStay ==
    ASSUME Basic, job' = job
    PROVE  JobStep
  BY DEF Basic, TypeOK, JobStep, JobsOK, JobOK

LEMMA Marked ==
    ASSUME Basic, NEW m \in {"stopped", "overlapped", "lost"}, NEW P, Mark(m, P)
    PROVE  marks' \subseteq {"stopped", "overlapped", "lost"} /\ marks \subseteq marks'
  BY DEF Basic, TypeOK, Mark

LEMMA Written ==
    ASSUME Basic, NEW s \in CampaignStatus \cup {"deleted"}, Write(s)
    PROVE  status' \in CampaignStatus \cup {"deleted"}
  BY DEF Basic, TypeOK, Write

LEMMA AskStep ==
    ASSUME Basic, NEW q \in Requests, NEW op, NEW S, Ask(q, op, S)
    PROVE  Sound
<1>1. [op |-> op, at |-> "write", found |-> {}] \in Request
  BY DEF Ask, Request
<1>2. req' \in [Requests -> Request]
  BY <1>1 DEF Ask, Basic, TypeOK
<1>. QED  BY <1>2, JobsStay DEF Ask, history, Sound, Others, Basic, TypeOK

LEMMA ThenStep ==
    ASSUME Basic, NEW q \in Requests, NEW op, NEW s \in CampaignStatus \cup {"deleted"},
           NEW label \in {"idle", "add", "list"}, Then(q, op, s, label)
    PROVE  Sound
<1>1. req' \in [Requests -> Request]
  <2>1. req \in [Requests -> Request] /\ NoRequest \in Request
    BY DEF Basic, TypeOK, Request, NoRequest
  <2>2. [req[q] EXCEPT !.at = label] \in Request
    BY <2>1 DEF Request
  <2>. QED  BY <2>1, <2>2 DEF Then
<1>2. marks' \subseteq {"stopped", "overlapped", "lost"}
  BY Marked DEF Then
<1>. QED  BY <1>1, <1>2, JobsStay, Written DEF Then, Sound, Others, Basic, TypeOK

LEMMA AddStep ==
    ASSUME Basic, NEW q \in Requests, Add(q)
    PROVE  Sound
<1>1. PICK j \in Jobs, k \in {"send", "scheduled"} :
        NextJob(j) /\ job' = [job EXCEPT ![j] = NewJob(k)]
  BY DEF Add
<1>2. job[j].at = "free"
  BY <1>1 DEF NextJob, Free
<1>3. JobStep
  BY <1>1, <1>2, NewJobOK, JobMove
<1>4. req' \in [Requests -> Request]
  BY DEF Add, Basic, TypeOK, Request, NoRequest
<1>. QED  BY <1>3, <1>4 DEF Add, history, Sound, Others, Basic, TypeOK

LEMMA ListStep ==
    ASSUME Basic, NEW q \in Requests, List(q)
    PROVE  Sound
<1>1. PICK found \in SUBSET Jobs :
        req' = [req EXCEPT ![q] = IF found = {} THEN NoRequest
                    ELSE [@ EXCEPT !.at = "remove", !.found = found]]
  BY DEF List
<1>2. req' \in [Requests -> Request]
  BY <1>1, ZenonT(60) DEF Basic, TypeOK, Request, NoRequest
<1>. QED  BY <1>2, JobsStay DEF List, history, Sound, Others, Basic, TypeOK

LEMMA RemoveStep ==
    ASSUME Basic, NEW q \in Requests, Remove(q)
    PROVE  Sound
<1>1. PICK j \in req[q].found :
        /\ \E v \in {NoRequest, Without(q, j)} : req' = [req EXCEPT ![q] = v]
        /\ \/ /\ job' = [job EXCEPT ![j] = NoJob]
              /\ job[j].at \in {"waiting", "stalled"}
              /\ Mark("lost", Live(j) /\ status = "sending")
           \/ UNCHANGED <<job, marks>>
  BY DEF Remove
<1>2. j \in Jobs /\ req' \in [Requests -> Request]
  <2>1. req \in [Requests -> Request] /\ NoRequest \in Request /\ req[q] \in Request
    BY DEF Basic, TypeOK, Request, NoRequest
  <2>2. j \in Jobs /\ Without(q, j) \in Request
    BY <2>1 DEF Request, Without
  <2>. QED  BY <1>1, <2>1, <2>2
<1>3. JobStep
  BY <1>1, <1>2, NoJobOK, JobMove, JobsStay DEF NoJob
<1>4. marks' \subseteq {"stopped", "overlapped", "lost"}
  BY <1>1, Marked DEF Basic, TypeOK
<1>. QED  BY <1>2, <1>3, <1>4 DEF Remove, Sound, Others, Basic, TypeOK
-----------------------------------------------------------------------------
(* The job send-campaign. *)

LEMMA BeginStep ==
    ASSUME Basic, NEW j \in Jobs, Begin(j)
    PROVE  Sound
<1>1. PICK v \in {[job[j] EXCEPT !.at = "fetch"], NoJob, Retried(j)} :
        job' = [job EXCEPT ![j] = v]
  BY DEF Begin, GoTo
<1>2. JobOK([job[j] EXCEPT !.at = "fetch"])
  BY DEF Begin, Basic, TypeOK, JobsOK, JobOK, Job, Active, SendPC, SchedulePC
<1>3. JobOK(v) /\ v.at # "batch"
  <2>1. CASE v = [job[j] EXCEPT !.at = "fetch"]
    BY <1>2, <2>1 DEF Basic, TypeOK, Job
  <2>2. CASE v = NoJob
    BY <2>2, NoJobOK DEF NoJob
  <2>3. CASE v = Retried(j)
    BY <2>3, RetriedOK
  <2>. QED  BY <2>1, <2>2, <2>3
<1>4. JobStep
  BY <1>1, <1>3, JobMove DEF Begin
<1>5. marks' \subseteq {"stopped", "overlapped", "lost"}
  BY Marked DEF Begin
<1>. QED  BY <1>4, <1>5 DEF Begin, Sound, Others, Basic, TypeOK

LEMMA FetchStep ==
    ASSUME Basic, NEW j \in Jobs, Fetch(j)
    PROVE  Sound
<1>1. PICK at \in {"complete", "check"} :
        job' = [job EXCEPT ![j].left = ReadPending, ![j].at = at]
  BY DEF Fetch
<1>. DEFINE v == [job[j] EXCEPT !.left = ReadPending, !.at = at]
<1>2. job' = [job EXCEPT ![j] = v] /\ v.at # "batch"
  BY <1>1 DEF Basic, TypeOK, Job
<1>3. JobOK(v)
  BY ZenonT(60) DEF Fetch, Basic, TypeOK, JobsOK, JobOK, Job, Active, SendPC, SchedulePC, ReadPending
<1>4. JobStep
  BY <1>2, <1>3, JobMove DEF Fetch
<1>. QED  BY <1>4 DEF Fetch, history, Sound, Others, Basic, TypeOK

LEMMA CheckStep ==
    ASSUME Basic, NEW j \in Jobs, Check(j)
    PROVE  Sound
<1>1. JobStep
  <2>1. CASE ~StillSending
    <3>. DEFINE v == [job[j] EXCEPT !.at = "complete"]
    <3>1. job' = [job EXCEPT ![j] = v] /\ v.at # "batch"
      BY <2>1 DEF Check, GoTo, Basic, TypeOK, Job
    <3>2. JobOK(v)
      BY ZenonT(60) DEF Check, Basic, TypeOK, JobsOK, JobOK, Job, Active, SendPC, SchedulePC
    <3>. QED  BY <3>1, <3>2, JobMove DEF Check
  <2>2. CASE StillSending
    <3>1. PICK S \in SUBSET job[j].left :
            /\ Cardinality(S) <= BatchSize
            /\ job' = [job EXCEPT ![j].batch = S, ![j].left = Rest(j, S),
                                  ![j].at = "batch"]
      BY <2>2 DEF Check
    <3>. DEFINE v == [job[j] EXCEPT !.batch = S, !.left = Rest(j, S), !.at = "batch"]
    <3>2. job' = [job EXCEPT ![j] = v] /\ status' = "sending"
      BY <2>2, <3>1 DEF Check, StillSending
    <3>3. JobOK(v)
      <4>1. job[j] \in Job /\ job[j].sent = {}
        BY DEF Check, Basic, TypeOK, JobsOK, JobOK
      <4>2. v \in Job
        BY <3>1, <4>1 DEF Job, Active, SendPC, SchedulePC, Rest
      <4>. QED  BY <3>1, <4>1, <4>2 DEF JobOK, Job, SchedulePC
    <3>. QED  BY <3>2, <3>3, JobMove DEF Check
  <2>. QED  BY <2>1, <2>2
<1>. QED  BY <1>1 DEF Check, history, Sound, Others, Basic, TypeOK

LEMMA SuppressStep ==
    ASSUME Basic, NEW j \in Jobs, NEW r \in Rows, Suppress(j, r)
    PROVE  Sound
<1>. DEFINE v == [job[j] EXCEPT !.batch = @ \ {r}]
<1>1. job' = [job EXCEPT ![j] = v]
  BY DEF Suppress
<1>2. JobOK(v) /\ v.sent = {}
  <2>1. job[j] \in Job /\ job[j].sent = {} /\ Cardinality(job[j].batch) <= BatchSize
    BY DEF Suppress, Basic, TypeOK, JobsOK, JobOK
  <2>2. IsFiniteSet(job[j].batch)
    BY <2>1, SetsAssumption, FS_Subset DEF Job
  <2>3. /\ Cardinality(job[j].batch) \in Nat
        /\ Cardinality(v.batch) = Cardinality(job[j].batch) - 1
    BY <2>1, <2>2, FS_CardinalityType, FS_RemoveElement DEF Suppress, Job
  <2>. QED  BY <2>1, <2>3, QueueAssumption DEF Suppress, JobOK, Job, SchedulePC
<1>3. JobStep
  BY <1>1, <1>2, JobMove DEF Suppress
<1>. QED  BY <1>3 DEF Suppress, history, Sound, Others, Basic, TypeOK, RowStatus

LEMMA MailStep ==
    ASSUME Basic, NEW j \in Jobs, Mail(j)
    PROVE  Sound
<1>1. PICK S \in SUBSET job[j].batch :
        /\ mailed' = [r \in Rows |-> IF r \in S THEN mailed[r] + 1 ELSE mailed[r]]
        /\ job' = [job EXCEPT ![j].sent = S,
               ![j].at = IF job[j].batch = {} THEN AfterBatch(j) ELSE "record"]
  BY DEF Mail
<1>. DEFINE v == [job[j] EXCEPT !.sent = S,
               !.at = IF job[j].batch = {} THEN AfterBatch(j) ELSE "record"]
<1>2. job' = [job EXCEPT ![j] = v] /\ v.at # "batch" /\ v.sent = S
  BY <1>1 DEF AfterBatch, Basic, TypeOK, Job
<1>3. JobOK(v)
  <2>1. job[j] \in Job /\ JobOK(job[j]) /\ job[j].at = "batch"
    BY DEF Mail, Basic, TypeOK, JobsOK
  <2>. QED  BY <2>1 DEF JobOK, Job, Active, SendPC, SchedulePC, AfterBatch
<1>4. JobStep
  BY <1>2, <1>3, JobMove
<1>5. mailed' \in [Rows -> Nat]
  BY <1>1 DEF Basic, TypeOK
<1>. QED  BY <1>4, <1>5 DEF Mail, Sound, Others, Basic, TypeOK

LEMMA RecordStep ==
    ASSUME Basic, NEW j \in Jobs, NEW r \in Rows, Record(j, r)
    PROVE  Sound
<1>. DEFINE v == [job[j] EXCEPT !.batch = @ \ {r}, !.sent = @ \ {r},
           !.at = IF job[j].batch = {r} THEN AfterBatch(j) ELSE @]
<1>1. job' = [job EXCEPT ![j] = v] /\ v.at # "batch" /\ job[j].at # "batch"
  BY DEF Record, AfterBatch, Basic, TypeOK, Job
<1>2. JobOK(v)
  BY ZenonT(60) DEF Record, Basic, TypeOK, JobsOK, JobOK, Job, Active, SendPC, SchedulePC, AfterBatch
<1>3. JobStep
  BY <1>1, <1>2, JobMove
<1>. QED  BY <1>3 DEF Record, history, Sound, Others, Basic, TypeOK, RowStatus

LEMMA CompleteStep ==
    ASSUME Basic, NEW j \in Jobs, Complete(j)
    PROVE  Sound
<1>1. JobStep
  <2>1. NoJob.at # "batch" /\ job[j].at # "batch"
    BY DEF NoJob, Complete
  <2>. QED  BY <2>1, NoJobOK, JobMove DEF Complete
<1>2. status' \in CampaignStatus \cup {"deleted"}
  BY Written DEF Complete, Completed, CampaignStatus
<1>. QED  BY <1>1, <1>2 DEF Complete, Sound, Others, Basic, TypeOK

LEMMA FailStep ==
    ASSUME Basic, NEW j \in Jobs, Fail(j)
    PROVE  Sound
<1>1. JobStep
  BY RetriedOK, JobMove DEF Fail
<1>2. status' \in CampaignStatus \cup {"deleted"}
  BY Written DEF Fail, CampaignStatus, Basic, TypeOK
<1>3. marks' \subseteq {"stopped", "overlapped", "lost"}
  BY Marked DEF Fail
<1>. QED  BY <1>1, <1>2, <1>3 DEF Fail, Sound, Others, Basic, TypeOK

-----------------------------------------------------------------------------
(* The job send-scheduled-campaign, and the process. *)

LEMMA BeginScheduledStep ==
    ASSUME Basic, NEW j \in Jobs, BeginScheduled(j)
    PROVE  Sound
<1>1. PICK v \in {[job[j] EXCEPT !.at = "launch"], NoJob} : job' = [job EXCEPT ![j] = v]
  BY DEF BeginScheduled, GoTo
<1>2. JobOK([job[j] EXCEPT !.at = "launch"]) /\ [job[j] EXCEPT !.at = "launch"].at = "launch"
  BY DEF BeginScheduled, Basic, TypeOK, JobsOK, JobOK, Job, Active, SchedulePC
<1>3. JobOK(v) /\ v.at # "batch"
  <2>1. CASE v = NoJob
    BY <2>1, NoJobOK DEF NoJob
  <2>2. CASE v = [job[j] EXCEPT !.at = "launch"]
    BY <1>2, <2>2
  <2>. QED  BY <2>1, <2>2
<1>4. JobStep
  BY <1>1, <1>3, JobMove DEF BeginScheduled
<1>. QED  BY <1>4 DEF BeginScheduled, history, Sound, Others, Basic, TypeOK

LEMMA LaunchStep ==
    ASSUME Basic, NEW j \in Jobs, Launch(j)
    PROVE  Sound
<1>. DEFINE v == [job[j] EXCEPT !.at = "enqueue"]
<1>1. job' = [job EXCEPT ![j] = v] /\ v.at # "batch"
  BY DEF Launch, GoTo, Basic, TypeOK, Job
<1>2. JobOK(v)
  BY DEF Launch, Basic, TypeOK, JobsOK, JobOK, Job, Active, SchedulePC
<1>3. JobStep
  BY <1>1, <1>2, JobMove DEF Launch
<1>4. status' \in CampaignStatus \cup {"deleted"}
  BY Written DEF Launch, CampaignStatus
<1>. QED  BY <1>3, <1>4 DEF Launch, Sound, Others, Basic, TypeOK

LEMMA EnqueueStep ==
    ASSUME Basic, NEW j \in Jobs, Enqueue(j)
    PROVE  Sound
<1>1. PICK i \in Jobs :
        NextJob(i) /\ job' = [job EXCEPT ![i] = NewJob("send"), ![j] = NoJob]
  BY DEF Enqueue
<1>2. JobOK(NewJob("send")) /\ NewJob("send").at = "waiting" /\ job[i].at = "free"
  BY <1>1, NewJobOK DEF NextJob, Free
<1>3. job \in [Jobs -> Job] /\ NoJob \in Job /\ NewJob("send") \in Job
  BY <1>2, NoJobOK DEF Basic, TypeOK, JobOK
<1>4. ASSUME NEW k \in Jobs
      PROVE  /\ JobOK(job'[k])
             /\ job[k].at = "batch" => job'[k].sent \subseteq job[k].batch
             /\ job'[k].at = "batch" => job[k].at = "batch"
  <2>1. CASE k = j
    BY <1>1, <1>3, <2>1, NoJobOK DEF NoJob
  <2>2. CASE k = i /\ k # j
    BY <1>1, <1>2, <1>3, <2>2
  <2>3. CASE k # i /\ k # j
    BY <1>1, <1>3, <2>3 DEF Basic, JobsOK, JobOK
  <2>. QED  BY <2>1, <2>2, <2>3
<1>5. job' \in [Jobs -> Job]
  BY <1>1, <1>3
<1>. QED  BY <1>4, <1>5 DEF Enqueue, history, JobStep, JobsOK, Sound, Others, Basic, TypeOK

LEMMA FailScheduledStep ==
    ASSUME Basic, NEW j \in Jobs, FailScheduled(j)
    PROVE  Sound
<1>1. JobStep
  BY RetriedOK, JobMove DEF FailScheduled
<1>2. marks' \subseteq {"stopped", "overlapped", "lost"}
  BY Marked DEF FailScheduled
<1>. QED  BY <1>1, <1>2 DEF FailScheduled, Sound, Others, Basic, TypeOK

LEMMA CrashStep ==
    ASSUME Basic, Crash
    PROVE  Sound
<1>1. ASSUME NEW j \in Jobs
      PROVE  /\ JobOK(job'[j]) /\ job'[j] \in Job
             /\ job[j].at = "batch" => job'[j].sent \subseteq job[j].batch
             /\ job'[j].at = "batch" => job[j].at = "batch"
  <2>1. job[j] \in Job /\ JobOK(job[j])
    BY DEF Basic, TypeOK, JobsOK
  <2>2. CASE job[j].at \in Active
    <3>1. job'[j] = [kind |-> job[j].kind, at |-> "stalled", tries |-> job[j].tries,
                     stalls |-> job[j].stalls, left |-> {}, batch |-> {}, sent |-> {}]
      BY <2>2 DEF Crash, NoJob
    <3>. QED  BY <2>1, <3>1 DEF Job, JobOK, SchedulePC
  <2>3. CASE job[j].at \notin Active
    <3>1. job'[j] = job[j]
      BY <2>3 DEF Crash
    <3>. QED  BY <2>1, <3>1 DEF JobOK
  <2>. QED  BY <2>2, <2>3
<1>2. job' \in [Jobs -> Job]
  BY <1>1 DEF Crash
<1>3. req' \in [Requests -> Request]
  BY DEF Crash, NoRequest, Request
<1>4. marks' \subseteq {"stopped", "overlapped", "lost"}
  BY Marked DEF Crash
<1>5. JobStep
  BY <1>1, <1>2 DEF JobStep, JobsOK
<1>6. UNCHANGED <<status, row, mailed, faults>> /\ crashes' = crashes + 1
  BY DEF Crash
<1>. QED  BY <1>3, <1>4, <1>5, <1>6 DEF Sound, Others, Basic, TypeOK

LEMMA RecoverStep ==
    ASSUME Basic, NEW j \in Jobs, Recover(j)
    PROVE  Sound
<1>. DEFINE again == [job[j] EXCEPT !.at = "waiting", !.stalls = @ + 1]
<1>1. JobOK(again) /\ again.at = "waiting"
  <2>1. job[j] \in Job /\ JobOK(job[j]) /\ job[j].at = "stalled"
    BY DEF Recover, Basic, TypeOK, JobsOK
  <2>2. job[j].stalls + 1 \in Nat
    BY <2>1 DEF Job
  <2>. QED  BY <2>1, <2>2 DEF JobOK, Job, SchedulePC
<1>2. PICK v \in {again, NoJob} : job' = [job EXCEPT ![j] = v]
  BY DEF Recover
<1>3. JobOK(v) /\ v.at # "batch"
  <2>1. NoJob.at = "free"
    BY DEF NoJob
  <2>. QED  BY <1>1, <1>2, <2>1, NoJobOK
<1>4. JobStep
  BY <1>2, <1>3, JobMove DEF Recover
<1>5. marks' \subseteq {"stopped", "overlapped", "lost"}
  BY Marked DEF Recover, Basic, TypeOK
<1>. QED  BY <1>4, <1>5 DEF Recover, Sound, Others, Basic, TypeOK
-----------------------------------------------------------------------------
(* The mails after a stop. *)

LEMMA StepSound ==
    ASSUME Basic, Step
    PROVE  Sound
<1>1. CASE \E q \in Requests :
             Send(q) \/ Schedule(q) \/ Pause(q) \/ Resume(q) \/ Cancel(q) \/ Delete(q)
  BY <1>1, AskStep DEF Send, Schedule, Pause, Resume, Cancel, Delete
<1>2. CASE \E q \in Requests : Answer(q)
  <2>1. PICK q \in Requests : Answer(q)
    BY <1>2
  <2>2. CASE WriteSending(q) \/ WriteScheduled(q) \/ WritePaused(q)
             \/ WriteResumed(q) \/ WriteCancelled(q) \/ DeleteRow(q)
    BY <2>2, ThenStep DEF WriteSending, WriteScheduled, WritePaused, WriteResumed,
       WriteCancelled, DeleteRow, CampaignStatus
  <2>. QED  BY <2>1, <2>2, AddStep, ListStep, RemoveStep DEF Answer
<1>3. CASE \E j \in Jobs : Work(j)
  <2>1. PICK j \in Jobs : Work(j)
    BY <1>3
  <2>. QED
    BY <2>1, BeginStep, FetchStep, CheckStep, MailStep, RecordStep, CompleteStep,
       BeginScheduledStep, LaunchStep, EnqueueStep, RecoverStep DEF Work
<1>4. CASE \E j \in Jobs : Fail(j) \/ FailScheduled(j) \/ \E r \in Rows : Suppress(j, r)
  BY <1>4, FailStep, FailScheduledStep, SuppressStep
<1>5. CASE Crash
  BY <1>5, CrashStep
<1>. QED  BY <1>1, <1>2, <1>3, <1>4, <1>5 DEF Step

\* A job has mailed one batch at most since the campaign stopped sending, and
\* none when it has a batch at hand: that one is checked, and may be late.
LateOK ==
    \A j \in Jobs : /\ late[j] <= BatchSize
                    /\ job[j].at = "batch" => late[j] = 0

LEMMA LateStep ==
    ASSUME Basic, LateOK, Sound, CountLate
    PROVE  LateOK' /\ late' \in [Jobs -> Nat]
<1>1. ASSUME NEW j \in Jobs
      PROVE  /\ late'[j] \in Nat /\ late'[j] <= BatchSize
             /\ job'[j].at = "batch" => late'[j] = 0
  <2>1. CASE status' = "sending" \/ job'[j].at \notin SendPC
    BY <2>1, QueueAssumption DEF CountLate
  <2>2. CASE /\ ~(status' = "sending" \/ job'[j].at \notin SendPC)
             /\ job[j].at = "batch"
    <3>1. late[j] = 0 /\ late'[j] = late[j] + Cardinality(job'[j].sent)
      BY <2>2 DEF CountLate, LateOK
    <3>2. /\ job'[j].sent \subseteq job[j].batch
          /\ job'[j].at = "batch" => job'[j].sent = {}
      BY <2>2 DEF Sound, JobStep, JobsOK, JobOK
    <3>3. job[j].batch \subseteq Rows /\ Cardinality(job[j].batch) <= BatchSize
      BY <2>2 DEF Basic, TypeOK, JobsOK, JobOK, Job
    <3>4. IsFiniteSet(job[j].batch)
      BY <3>3, SetsAssumption, FS_Subset
    <3>5. /\ Cardinality(job'[j].sent) \in Nat /\ Cardinality(job[j].batch) \in Nat
          /\ Cardinality(job'[j].sent) <= Cardinality(job[j].batch)
          /\ Cardinality({}) = 0
      BY <3>2, <3>4, FS_Subset, FS_CardinalityType, FS_EmptySet
    <3>. QED  BY <3>1, <3>2, <3>3, <3>5, QueueAssumption, SMTT(30)
  <2>3. CASE /\ ~(status' = "sending" \/ job'[j].at \notin SendPC)
             /\ job[j].at # "batch"
    <3>1. job'[j].at # "batch"
      BY <2>3 DEF Sound, JobStep
    <3>2. late[j] \in Nat /\ late[j] <= BatchSize /\ late'[j] = late[j] + 0
      BY <2>3 DEF CountLate, LateOK, Basic, TypeOK
    <3>. QED  BY <3>1, <3>2
  <2>. QED  BY <2>1, <2>2, <2>3
<1>2. late' \in [Jobs -> Nat]
  BY <1>1 DEF CountLate
<1>. QED  BY <1>1, <1>2 DEF LateOK

LEMMA CampaignInductive == Spec => [](Basic /\ LateOK)
<1>1. Init => Basic /\ LateOK
  <2>1. ASSUME Init
        PROVE  TypeOK
    BY <2>1, NoJobOK DEF Init, TypeOK, CampaignStatus, RowStatus, Request, NoRequest
  <2>2. ASSUME Init
        PROVE  JobsOK /\ LateOK
    BY <2>2, NoJobOK, QueueAssumption DEF Init, JobsOK, LateOK
  <2>. QED  BY <2>1, <2>2 DEF Basic
<1>2. Basic /\ LateOK /\ [Next]_vars => (Basic /\ LateOK)'
  <2>1. CASE UNCHANGED vars
    BY <2>1 DEF vars, Basic, TypeOK, JobsOK, JobOK, LateOK
  <2>2. ASSUME Basic, LateOK, Next
        PROVE  (Basic /\ LateOK)'
    <3>1. Sound
      BY <2>2, StepSound DEF Next
    <3>2. LateOK' /\ late' \in [Jobs -> Nat]
      BY <2>2, <3>1, LateStep DEF Next
    <3>. QED  BY <3>1, <3>2 DEF Sound, JobStep, Others, Basic, TypeOK
  <2>. QED  BY <2>1, <2>2
<1>. QED  BY <1>1, <1>2, PTL DEF Spec

\* The types of the variables: email-campaign.service.ts and the processor write
\* no status, and leave no job in a state, that the model does not name.
THEOREM CampaignTypes == Spec => []TypeOK
  BY CampaignInductive, PTL DEF Basic

\* After a pause or a cancellation a running job sends the batch it has begun
\* and no other, whatever the requests and the other jobs do meanwhile: the loop
\* of handleSendCampaign reads the status before each batch.
THEOREM OneBatchLate == Spec => []StopsWithinBatch
<1>1. LateOK => StopsWithinBatch
  BY DEF LateOK, StopsWithinBatch
<1>. QED  BY <1>1, CampaignInductive, PTL
-----------------------------------------------------------------------------
(* A campaign that is being sent has a job, and the mark of a complete one. *)

JobSends(v) == (v.kind = "send" /\ v.at # "free") \/ v.at = "enqueue"
RequestSends(v) == v.at = "add" /\ v.op # "schedule"

\* A step that takes away no job and no request that is to send.
LEMMA SendersStay ==
    ASSUME SendingHasJob, status' = "sending" => status = "sending", Lost => Lost',
           \A j \in Jobs : JobSends(job[j]) => JobSends(job'[j]) \/ Lost',
           \A q \in Requests : RequestSends(req[q]) => RequestSends(req'[q]) \/ Lost'
    PROVE  SendingHasJob'
  BY DEF SendingHasJob, Live, JobSends, RequestSends

\* The same for a step of one job.
LEMMA SenderMoves ==
    ASSUME Basic, SendingHasJob, status' = "sending" => status = "sending", Lost => Lost',
           NEW j \in Jobs, NEW v, job' = [job EXCEPT ![j] = v], req' = req,
           JobSends(job[j]) => JobSends(v) \/ Lost'
    PROVE  SendingHasJob'
<1>1. ASSUME NEW i \in Jobs, JobSends(job[i])
      PROVE  JobSends(job'[i]) \/ Lost'
  BY <1>1 DEF Basic, TypeOK
<1>. QED  BY <1>1, SendersStay

LEMMA MarkLost ==
    ASSUME Basic, NEW m, NEW P, Mark(m, P)
    PROVE  (Lost => Lost') /\ (m = "lost" /\ P => Lost')
  BY DEF Mark, Lost

LEMMA RequestsKeepSender ==
    ASSUME Basic, SendingHasJob, NEW q \in Requests,
           \/ Send(q) \/ Schedule(q) \/ Pause(q) \/ Resume(q) \/ Cancel(q) \/ Delete(q)
           \/ Answer(q)
    PROVE  SendingHasJob'
<1>1. ASSUME NEW op, NEW S, Ask(q, op, S)
      PROVE  SendingHasJob'
  BY <1>1, SendersStay DEF Ask, history, Lost, RequestSends, Basic, TypeOK
<1>2. ASSUME NEW op, NEW s, NEW label, Then(q, op, s, label), s # "sending"
      PROVE  SendingHasJob'
  <2>1. status' = "sending" => status = "sending"
    BY <1>2 DEF Then, Write
  <2>2. Lost => Lost'
    BY <1>2 DEF Then, Mark, Lost
  <2>3. \A p \in Requests : RequestSends(req[p]) => req'[p] = req[p]
    BY <1>2 DEF Then, RequestSends, Basic, TypeOK
  <2>. QED  BY <1>2, <2>1, <2>2, <2>3, SendersStay DEF Then
<1>3. ASSUME NEW op, NEW s, Then(q, op, s, "add"), op # "schedule"
      PROVE  SendingHasJob'
  <2>1. req[q] \in Request /\ req[q].op = op
    BY <1>3 DEF Then, Basic, TypeOK
  <2>2. req'[q] = [req[q] EXCEPT !.at = "add"]
    BY <1>3 DEF Then, Basic, TypeOK
  <2>3. req'[q].at = "add" /\ req'[q].op # "schedule"
    BY <1>3, <2>1, <2>2 DEF Request
  <2>. QED  BY <2>3 DEF SendingHasJob
<1>4. CASE Add(q)
  <2>1. PICK j \in Jobs :
          /\ NextJob(j)
          /\ job' = [job EXCEPT ![j] =
                 NewJob(IF req[q].op = "schedule" THEN "scheduled" ELSE "send")]
    BY <1>4 DEF Add
  <2>2. ~JobSends(job[j]) /\ UNCHANGED <<status, marks>>
    BY <1>4, <2>1 DEF NextJob, Free, JobSends, Add, history
  <2>3. \A i \in Jobs : JobSends(job[i]) => JobSends(job'[i])
    BY <2>1, <2>2 DEF Basic, TypeOK
  <2>4. CASE req[q].op = "schedule"
    <3>1. \A p \in Requests : RequestSends(req[p]) => req'[p] = req[p]
      BY <1>4, <2>4 DEF Add, RequestSends, Basic, TypeOK
    <3>. QED  BY <2>2, <2>3, <3>1, SendersStay DEF Lost
  <2>5. CASE req[q].op # "schedule"
    <3>1. job'[j] = NewJob("send")
      BY <2>1, <2>5 DEF Basic, TypeOK
    <3>. QED  BY <3>1, NewJobOK DEF SendingHasJob, Live
  <2>. QED  BY <2>4, <2>5
<1>5. CASE List(q)
  <2>1. \A p \in Requests : RequestSends(req[p]) => req'[p] = req[p]
    BY <1>5 DEF List, RequestSends, Basic, TypeOK
  <2>. QED  BY <1>5, <2>1, SendersStay DEF List, history, Lost
<1>6. CASE Remove(q)
  <2>1. PICK j \in req[q].found :
          /\ \E v \in {NoRequest, Without(q, j)} : req' = [req EXCEPT ![q] = v]
          /\ \/ /\ job' = [job EXCEPT ![j] = NoJob]
                /\ job[j].at \in {"waiting", "stalled"}
                /\ Mark("lost", Live(j) /\ status = "sending")
             \/ UNCHANGED <<job, marks>>
    BY <1>6 DEF Remove
  <2>2. Lost => Lost'
    BY <2>1 DEF Mark, Lost
  <2>3. \A p \in Requests : RequestSends(req[p]) => req'[p] = req[p]
    BY <1>6, <2>1 DEF Remove, RequestSends, Basic, TypeOK
  <2>4. CASE status = "sending"
    <3>1. \A i \in Jobs : JobSends(job[i]) => JobSends(job'[i]) \/ Lost'
      BY <2>1, <2>4, MarkLost DEF JobSends, Live, Basic, TypeOK
    <3>. QED  BY <2>2, <2>3, <2>4, <3>1, SendersStay
  <2>5. CASE status # "sending"
    BY <1>6, <2>5 DEF Remove, SendingHasJob
  <2>. QED  BY <2>4, <2>5
<1>7. CASE Send(q) \/ Schedule(q) \/ Pause(q) \/ Resume(q) \/ Cancel(q) \/ Delete(q)
  BY <1>1, <1>7 DEF Send, Schedule, Pause, Resume, Cancel, Delete
<1>8. CASE WriteScheduled(q) \/ WritePaused(q) \/ WriteCancelled(q) \/ DeleteRow(q)
  BY <1>2, <1>8 DEF WriteScheduled, WritePaused, WriteCancelled, DeleteRow
<1>9. CASE WriteSending(q) \/ WriteResumed(q)
  <2>1. CASE Then(q, "send", "sending", "add")
    BY <1>3, <2>1
  <2>2. CASE Then(q, "resume", "sending", "add")
    BY <1>3, <2>2
  <2>. QED  BY <1>9, <2>1, <2>2 DEF WriteSending, WriteResumed
<1>. QED  BY <1>4, <1>5, <1>6, <1>7, <1>8, <1>9 DEF Answer

LEMMA JobsKeepSender ==
    ASSUME Basic, SendingHasJob, NEW j \in Jobs,
           \/ Work(j) \/ Fail(j) \/ FailScheduled(j)
           \/ \E r \in Rows : Suppress(j, r)
    PROVE  SendingHasJob'
<1>0. job[j] \in Job /\ job \in [Jobs -> Job]
      /\ (job[j].at \in SchedulePC => job[j].kind = "scheduled")
  BY DEF Basic, TypeOK, JobsOK, JobOK
<1>1. ASSUME NEW v, job' = [job EXCEPT ![j] = v], req' = req, status' = status, Lost => Lost',
             v.kind = job[j].kind, v.at # "free", job[j].at # "enqueue"
      PROVE  SendingHasJob'
  BY <1>1, SenderMoves DEF JobSends
<1>2. CASE Begin(j)
  <2>1. UNCHANGED <<status, req>> /\ (Lost => Lost')
    BY <1>2 DEF Begin, Mark, Lost
  <2>2. CASE status = "sending"
    <3>. DEFINE v == [job[j] EXCEPT !.at = "fetch"]
    <3>1. job' = [job EXCEPT ![j] = v] /\ v.at = "fetch" /\ v.kind = job[j].kind
      BY <1>0, <1>2, <2>2 DEF Begin, GoTo, Job
    <3>2. job[j].at # "enqueue"
      BY <1>2 DEF Begin
    <3>. QED  BY <1>1, <2>1, <3>1, <3>2
  <2>. QED  BY <2>1, <2>2 DEF SendingHasJob
<1>3. CASE Fetch(j)
  <2>. DEFINE v == [job[j] EXCEPT !.left = ReadPending,
                                  !.at = IF ReadPending = {} THEN "complete" ELSE "check"]
  <2>1. job' = [job EXCEPT ![j] = v] /\ v.at # "free" /\ v.kind = job[j].kind
    BY <1>0, <1>3 DEF Fetch, Job
  <2>. QED  BY <1>1, <1>3, <2>1 DEF Fetch, history, Lost
<1>4. CASE Check(j)
  <2>1. CASE GoTo(j, "complete")
    <3>. DEFINE v == [job[j] EXCEPT !.at = "complete"]
    <3>1. job' = [job EXCEPT ![j] = v] /\ v.at # "free" /\ v.kind = job[j].kind
      BY <1>0, <2>1 DEF GoTo, Job
    <3>. QED  BY <1>1, <1>4, <3>1 DEF Check, history, Lost
  <2>2. ASSUME NEW S, NEW T,
               job' = [job EXCEPT ![j].batch = S, ![j].left = T, ![j].at = "batch"]
        PROVE  SendingHasJob'
    <3>. DEFINE v == [job[j] EXCEPT !.batch = S, !.left = T, !.at = "batch"]
    <3>1. job' = [job EXCEPT ![j] = v] /\ v.at # "free" /\ v.kind = job[j].kind
      BY <1>0, <2>2 DEF Job
    <3>. QED  BY <1>1, <1>4, <3>1 DEF Check, history, Lost
  <2>. QED  BY <1>4, <2>1, <2>2 DEF Check
<1>5. ASSUME NEW r \in Rows, Suppress(j, r)
      PROVE  SendingHasJob'
  <2>. DEFINE v == [job[j] EXCEPT !.batch = @ \ {r}]
  <2>1. job' = [job EXCEPT ![j] = v] /\ v.at # "free" /\ v.kind = job[j].kind
    BY <1>0, <1>5 DEF Suppress, Job
  <2>. QED  BY <1>1, <1>5, <2>1 DEF Suppress, history, Lost
<1>6. CASE Mail(j)
  <2>1. PICK S \in SUBSET job[j].batch :
          job' = [job EXCEPT ![j].sent = S,
                 ![j].at = IF job[j].batch = {} THEN AfterBatch(j) ELSE "record"]
    BY <1>6 DEF Mail
  <2>. DEFINE v == [job[j] EXCEPT !.sent = S,
                 !.at = IF job[j].batch = {} THEN AfterBatch(j) ELSE "record"]
  <2>2. job' = [job EXCEPT ![j] = v] /\ v.at # "free" /\ v.kind = job[j].kind
    BY <1>0, <1>6, <2>1 DEF Mail, AfterBatch, Job
  <2>3. job[j].at # "enqueue" /\ status' = status /\ req' = req /\ (Lost => Lost')
    BY <1>6 DEF Mail, Lost
  <2>. HIDE DEF v
  <2>. QED  BY <1>1, <2>2, <2>3
<1>7. ASSUME NEW r \in Rows, Record(j, r)
      PROVE  SendingHasJob'
  <2>. DEFINE v == [job[j] EXCEPT !.batch = @ \ {r}, !.sent = @ \ {r},
           !.at = IF job[j].batch = {r} THEN AfterBatch(j) ELSE @]
  <2>1. job' = [job EXCEPT ![j] = v] /\ v.at # "free" /\ v.kind = job[j].kind
    BY <1>0, <1>7 DEF Record, AfterBatch, Job
  <2>2. job[j].at # "enqueue" /\ status' = status /\ req' = req /\ (Lost => Lost')
    BY <1>7 DEF Record, history, Lost
  <2>. HIDE DEF v
  <2>. QED  BY <1>1, <2>1, <2>2
<1>8. CASE Complete(j)
  BY <1>8 DEF Complete, Write, Completed, SendingHasJob
<1>9. CASE Fail(j)
  <2>1. CASE status' # "sending"
    BY <2>1 DEF SendingHasJob
  <2>2. CASE status' = "sending"
    <3>1. status' = status /\ req' = req /\ (Lost => Lost') /\ (GivesUp(j) => Lost')
      BY <1>9, <2>2 DEF Fail, Write, Mark, Lost
    <3>2. JobSends(job[j]) => JobSends(Retried(j)) \/ Lost'
      BY <1>0, <1>9, <2>2, <3>1, RetriedOK, QueueAssumption
      DEF Fail, JobSends, GivesUp, SendPC, Job
    <3>. QED  BY <1>9, <3>1, <3>2, SenderMoves DEF Fail
  <2>. QED  BY <2>1, <2>2
<1>10. CASE BeginScheduled(j)
  <2>1. PICK v : job' = [job EXCEPT ![j] = v]
    BY <1>10 DEF BeginScheduled, GoTo
  <2>2. ~JobSends(job[j])
    BY <1>10 DEF BeginScheduled, JobSends
  <2>. QED  BY <1>10, <2>1, <2>2, SenderMoves DEF BeginScheduled, history, Lost
<1>11. CASE Launch(j)
  <2>1. job'[j].at = "enqueue"
    BY <1>0, <1>11 DEF Launch, GoTo, Job
  <2>. QED  BY <2>1 DEF SendingHasJob
<1>12. CASE Enqueue(j)
  <2>1. PICK i \in Jobs :
          NextJob(i) /\ job' = [job EXCEPT ![i] = NewJob("send"), ![j] = NoJob]
    BY <1>12 DEF Enqueue
  <2>2. job'[i] = NewJob("send")
    BY <1>0, <1>12, <2>1 DEF NextJob, Free, Enqueue
  <2>. QED  BY <2>2, NewJobOK DEF SendingHasJob, Live
<1>13. CASE FailScheduled(j)
  <2>1. (Lost => Lost') /\ (job[j].at = "enqueue" => Lost')
    BY <1>13 DEF FailScheduled, Mark, Lost
  <2>2. JobSends(job[j]) => Lost'
    BY <1>0, <1>13, <2>1 DEF FailScheduled, JobSends, SchedulePC
  <2>. QED  BY <1>13, <2>1, <2>2, SenderMoves DEF FailScheduled
<1>14. CASE Recover(j)
  <2>1. UNCHANGED <<status, req>> /\ (Lost => Lost')
    BY <1>14 DEF Recover, Mark, Lost
  <2>2. CASE job' = [job EXCEPT ![j].at = "waiting", ![j].stalls = @ + 1]
    <3>. DEFINE v == [job[j] EXCEPT !.at = "waiting", !.stalls = @ + 1]
    <3>1. job' = [job EXCEPT ![j] = v] /\ v.at # "free" /\ v.kind = job[j].kind
      BY <1>0, <2>2 DEF Job
    <3>. QED  BY <1>1, <1>14, <2>1, <3>1 DEF Recover
  <2>3. CASE job' = [job EXCEPT ![j] = NoJob] /\ Mark("lost", Live(j) /\ status = "sending")
    <3>1. status = "sending" /\ JobSends(job[j]) => JobSends(NoJob) \/ Lost'
      BY <1>14, <2>3 DEF Recover, JobSends, Live, Mark, Lost
    <3>2. CASE status = "sending"
      BY <2>1, <2>3, <3>1, <3>2, SenderMoves
    <3>. QED  BY <2>1, <3>2 DEF SendingHasJob
  <2>. QED  BY <1>14, <2>2, <2>3 DEF Recover
<1>. QED
  BY <1>2, <1>3, <1>4, <1>5, <1>6, <1>7, <1>8, <1>9, <1>10, <1>11, <1>12, <1>13, <1>14 DEF Work

LEMMA CrashKeepsSender ==
    ASSUME Basic, SendingHasJob, Crash
    PROVE  SendingHasJob'
<1>1. status' = status /\ (Lost => Lost')
  BY DEF Crash, Mark, Lost
<1>2. \A q \in Requests : RequestSends(req[q]) => Lost'
  BY DEF Crash, Mark, Lost, RequestSends
<1>3. ASSUME NEW j \in Jobs, JobSends(job[j])
      PROVE  JobSends(job'[j]) \/ Lost'
  <2>1. job[j].at = "enqueue" => Lost'
    BY DEF Crash, Mark, Lost
  <2>2. CASE job[j].kind = "send" /\ job[j].at \in Active
    BY <2>2 DEF Crash, NoJob, JobSends
  <2>3. CASE job[j].kind = "send" /\ job[j].at \notin Active
    BY <1>3, <2>3 DEF Crash, JobSends
  <2>. QED  BY <1>3, <2>1, <2>2, <2>3 DEF JobSends
<1>. QED  BY <1>1, <1>2, <1>3, SendersStay

LEMMA SenderInductive ==
    ASSUME Basic, SendingHasJob, [Next]_vars
    PROVE  SendingHasJob'
<1>1. CASE UNCHANGED vars
  BY <1>1, SendersStay DEF vars, Lost
<1>2. CASE Step
  BY <1>2, RequestsKeepSender, JobsKeepSender, CrashKeepsSender DEF Step
<1>. QED  BY <1>1, <1>2 DEF Next

\* A campaign in the sending status has a job that sends it, or a request or a
\* job about to add one, unless a crash, an error or an administrator took it
\* away: sendCampaign and resumeCampaign write the status before queue.add, and
\* whoever ends such a job writes another status first.
THEOREM SendingIsDriven == Spec => []SendingHasJob
<1>1. Init => SendingHasJob
  BY DEF Init, SendingHasJob
<1>2. Basic /\ SendingHasJob /\ [Next]_vars => SendingHasJob'
  BY SenderInductive
<1>. QED  BY <1>1, <1>2, CampaignInductive, PTL DEF Spec

-----------------------------------------------------------------------------
(* A campaign that nobody stopped is marked as sent when all are served. *)

\* What a running job does not have in its lists needs no mail any more, and it
\* does not go to the end before its lists are empty.
Covers(j) ==
    job[j].at \in SendPC =>
        /\ status = "sending"
        /\ job[j].at # "complete"
        /\ job[j].at # "fetch" => ReadPending \subseteq job[j].left \cup job[j].batch

Unserved == ~Stopped /\ ReadPending # {}

SentOK == Unserved => status # "sent" /\ \A j \in Jobs : Covers(j)

\* A step that serves nobody, and after which no job is sending in another state.
Settled ==
    /\ row' = row
    /\ Stopped => Stopped'
    /\ status' = status \/ status' # "sent"
    /\ status = "sending" => status' = "sending" \/ Stopped'
    /\ \A j \in Jobs : job'[j].at \in SendPC => job'[j] = job[j]

LEMMA SettledKeeps ==
    ASSUME SentOK, Settled
    PROVE  SentOK'
<1>1. Unserved' => Unserved /\ ReadPending' = ReadPending
  BY DEF Settled, Unserved, ReadPending
<1>2. ASSUME Unserved', NEW j \in Jobs
      PROVE  Covers(j)'
  BY <1>1, <1>2 DEF Settled, SentOK, Covers, Unserved
<1>. QED  BY <1>1, <1>2 DEF SentOK, Settled

\* A step of one sending job: it serves recipients and reads the status.
LEMMA SenderServes ==
    ASSUME Basic, SentOK, NEW j \in Jobs, NEW v, job' = [job EXCEPT ![j] = v],
           status' = status, Stopped => Stopped',
           \A r \in Rows : row[r] # "pending" => row'[r] # "pending",
           Unserved /\ Unserved' /\ Covers(j) => Covers(j)'
    PROVE  SentOK'
<1>1. ReadPending' \subseteq ReadPending
  BY DEF ReadPending
<1>2. Unserved' => Unserved
  BY <1>1 DEF Unserved
<1>3. ASSUME Unserved', NEW i \in Jobs
      PROVE  Covers(i)'
  <2>1. CASE i = j
    BY <1>2, <1>3, <2>1 DEF SentOK
  <2>2. CASE i # j
    <3>1. job'[i] = job[i]
      BY <2>2 DEF Basic, TypeOK
    <3>. QED  BY <1>1, <1>2, <1>3, <3>1 DEF SentOK, Covers
  <2>. QED  BY <2>1, <2>2
<1>. QED  BY <1>2, <1>3 DEF SentOK

LEMMA JobSettles ==
    ASSUME Basic, NEW j \in Jobs, NEW v, job' = [job EXCEPT ![j] = v], v.at \notin SendPC
    PROVE  \A i \in Jobs : job'[i].at \in SendPC => job'[i] = job[i]
  BY DEF Basic, TypeOK

LEMMA RequestsSettle ==
    ASSUME Basic, NEW q \in Requests,
           \/ Send(q) \/ Schedule(q) \/ Pause(q) \/ Resume(q) \/ Cancel(q) \/ Delete(q)
           \/ Answer(q)
    PROVE  Settled
<1>1. ASSUME NEW op, NEW S, Ask(q, op, S)
      PROVE  Settled
  BY <1>1 DEF Ask, history, Settled, Stopped
<1>2. ASSUME NEW op, NEW s, NEW label, Then(q, op, s, label), s # "sent"
      PROVE  Settled
  <2>1. (Stopped => Stopped') /\ (Stops(s) => Stopped')
    BY <1>2 DEF Then, Mark, Stopped
  <2>2. status' = status \/ status' = s
    BY <1>2 DEF Then, Write
  <2>. QED  BY <1>2, <2>1, <2>2 DEF Then, Settled, Stops
<1>3. CASE Add(q)
  <2>1. PICK j \in Jobs, k \in {"send", "scheduled"} : job' = [job EXCEPT ![j] = NewJob(k)]
    BY <1>3 DEF Add
  <2>2. NewJob(k).at \notin SendPC
    BY NewJobOK DEF SendPC
  <2>. QED  BY <1>3, <2>1, <2>2, JobSettles DEF Add, history, Settled, Stopped
<1>4. CASE List(q)
  BY <1>4 DEF List, history, Settled, Stopped
<1>5. CASE Remove(q)
  <2>1. NoJob.at \notin SendPC
    BY DEF NoJob, SendPC
  <2>2. PICK j \in req[q].found : job' = [job EXCEPT ![j] = NoJob] \/ job' = job
    BY <1>5 DEF Remove
  <2>3. j \in Jobs
    BY DEF Basic, TypeOK, Request
  <2>4. \A i \in Jobs : job'[i].at \in SendPC => job'[i] = job[i]
    BY <2>1, <2>2, <2>3, JobSettles
  <2>. QED  BY <1>5, <2>4 DEF Remove, Mark, Settled, Stopped
<1>6. CASE Send(q) \/ Schedule(q) \/ Pause(q) \/ Resume(q) \/ Cancel(q) \/ Delete(q)
  BY <1>1, <1>6 DEF Send, Schedule, Pause, Resume, Cancel, Delete
<1>7. CASE WriteSending(q) \/ WriteScheduled(q) \/ WritePaused(q)
             \/ WriteResumed(q) \/ WriteCancelled(q) \/ DeleteRow(q)
  BY <1>2, <1>7 DEF WriteSending, WriteScheduled, WritePaused, WriteResumed,
     WriteCancelled, DeleteRow
<1>. QED  BY <1>3, <1>4, <1>5, <1>6, <1>7 DEF Answer

LEMMA QueueSettles ==
    ASSUME Basic, NEW j \in Jobs,
           BeginScheduled(j) \/ Launch(j) \/ Enqueue(j) \/ FailScheduled(j) \/ Recover(j)
    PROVE  Settled
<1>1. NoJob.at \notin SendPC /\ Retried(j).at \notin SendPC
  BY RetriedOK DEF NoJob, SendPC
<1>2. job \in [Jobs -> Job]
  BY DEF Basic, TypeOK
<1>3. CASE BeginScheduled(j)
  <2>1. CASE GoTo(j, "launch")
    BY <1>2, <1>3, <2>1 DEF BeginScheduled, GoTo, history, Settled, Stopped, SendPC, Job
  <2>2. CASE job' = [job EXCEPT ![j] = NoJob]
    BY <1>1, <1>3, <2>2, JobSettles DEF BeginScheduled, history, Settled, Stopped
  <2>. QED  BY <1>3, <2>1, <2>2 DEF BeginScheduled
<1>4. CASE Launch(j)
  <2>1. \A i \in Jobs : job'[i].at \in SendPC => job'[i] = job[i]
    BY <1>2, <1>4 DEF Launch, GoTo, SendPC, Job
  <2>. QED  BY <1>4, <2>1 DEF Launch, Write, Settled, Stopped
<1>5. CASE Enqueue(j)
  <2>1. PICK i \in Jobs : job' = [job EXCEPT ![i] = NewJob("send"), ![j] = NoJob]
    BY <1>5 DEF Enqueue
  <2>2. NewJob("send").at \notin SendPC
    BY NewJobOK DEF SendPC
  <2>3. \A k \in Jobs : job'[k].at \in SendPC => job'[k] = job[k]
    BY <1>1, <1>2, <2>1, <2>2
  <2>. QED  BY <1>5, <2>3 DEF Enqueue, history, Settled, Stopped
<1>6. CASE FailScheduled(j)
  BY <1>1, <1>6, JobSettles DEF FailScheduled, Mark, Settled, Stopped
<1>7. CASE Recover(j)
  <2>1. Stopped => Stopped'
    BY <1>7 DEF Recover, Mark, Stopped
  <2>2. CASE job' = [job EXCEPT ![j].at = "waiting", ![j].stalls = @ + 1]
    BY <1>2, <1>7, <2>1, <2>2 DEF Recover, Settled, SendPC, Job
  <2>3. CASE job' = [job EXCEPT ![j] = NoJob]
    BY <1>1, <1>7, <2>1, <2>3, JobSettles DEF Recover, Settled
  <2>. QED  BY <1>7, <2>2, <2>3 DEF Recover
<1>. QED  BY <1>3, <1>4, <1>5, <1>6, <1>7

LEMMA CrashSettles ==
    ASSUME Basic, Crash
    PROVE  Settled
<1>1. ASSUME NEW j \in Jobs, job'[j].at \in SendPC
      PROVE  job'[j] = job[j]
  BY <1>1 DEF Crash, NoJob, SendPC, Active
<1>2. Stopped => Stopped'
  BY DEF Crash, Mark, Stopped
<1>. QED  BY <1>1, <1>2 DEF Crash, Settled

LEMMA SenderComplete ==
    ASSUME Basic, SentOK, NEW j \in Jobs, Work(j) \/ Fail(j) \/ \E r \in Rows : Suppress(j, r)
    PROVE  SentOK'
<1>0. job[j] \in Job /\ job \in [Jobs -> Job] /\ row \in [Rows -> RowStatus]
  BY DEF Basic, TypeOK
<1>1. CASE Begin(j)
  <2>1. UNCHANGED <<status, row>> /\ (Stopped => Stopped')
    BY <1>1 DEF Begin, Mark, Stopped
  <2>2. CASE status = "sending"
    <3>. DEFINE v == [job[j] EXCEPT !.at = "fetch"]
    <3>1. job' = [job EXCEPT ![j] = v] /\ v.at = "fetch"
      BY <1>0, <1>1, <2>2 DEF Begin, GoTo, Job
    <3>2. Covers(j)'
      BY <1>0, <2>1, <2>2, <3>1 DEF Covers
    <3>. QED  BY <2>1, <3>1, <3>2, SenderServes
  <2>3. CASE status # "sending"
    <3>1. job' = [job EXCEPT ![j] = NoJob] \/ job' = [job EXCEPT ![j] = Retried(j)]
      BY <1>1, <2>3 DEF Begin
    <3>2. NoJob.at \notin SendPC /\ Retried(j).at \notin SendPC
      BY RetriedOK DEF NoJob, SendPC
    <3>3. Settled
      BY <2>1, <3>1, <3>2, JobSettles DEF Settled
    <3>. QED  BY <3>3, SettledKeeps
  <2>. QED  BY <2>2, <2>3
<1>2. CASE Fetch(j)
  <2>. DEFINE v == [job[j] EXCEPT !.left = ReadPending,
                                  !.at = IF ReadPending = {} THEN "complete" ELSE "check"]
  <2>1. /\ job' = [job EXCEPT ![j] = v] /\ v.left = ReadPending
        /\ ReadPending # {} => v.at = "check"
    BY <1>0, <1>2 DEF Fetch, Job
  <2>2. UNCHANGED <<status, row>> /\ (Stopped => Stopped') /\ job[j].at \in SendPC
    BY <1>2 DEF Fetch, history, Stopped, SendPC
  <2>3. Unserved /\ Covers(j) => Covers(j)'
    BY <1>0, <2>1, <2>2 DEF Unserved, Covers, ReadPending
  <2>. HIDE DEF v
  <2>. QED  BY <2>1, <2>2, <2>3, SenderServes
<1>3. CASE Check(j)
  <2>1. UNCHANGED <<status, row>> /\ (Stopped => Stopped') /\ job[j].at = "check"
    BY <1>3 DEF Check, history, Stopped
  <2>2. CASE ~StillSending /\ GoTo(j, "complete")
    <3>1. ~Covers(j)
      BY <2>1, <2>2 DEF Covers, StillSending, SendPC
    <3>2. job' = [job EXCEPT ![j] = [job[j] EXCEPT !.at = "complete"]]
      BY <2>2 DEF GoTo
    <3>. QED  BY <2>1, <3>1, <3>2, SenderServes
  <2>3. ASSUME NEW S \in SUBSET job[j].left,
               job' = [job EXCEPT ![j].batch = S, ![j].left = Rest(j, S), ![j].at = "batch"]
        PROVE  SentOK'
    <3>. DEFINE v == [job[j] EXCEPT !.batch = S, !.left = Rest(j, S), !.at = "batch"]
    <3>1. job' = [job EXCEPT ![j] = v]
      BY <2>3
    <3>2. job'[j].at = "batch" /\ job'[j].left \cup job'[j].batch = job[j].left
      BY <1>0, <2>3, <3>1 DEF Job, Rest
    <3>3. job[j].batch = {}
      BY <2>1 DEF Basic, JobsOK, JobOK
    <3>4. Covers(j) => Covers(j)'
      BY <2>1, <3>2, <3>3 DEF Covers, ReadPending, SendPC
    <3>. HIDE DEF v
    <3>. QED  BY <2>1, <3>1, <3>4, SenderServes
  <2>. QED  BY <1>3, <2>2, <2>3 DEF Check
<1>4. ASSUME NEW r \in Rows, Suppress(j, r)
      PROVE  SentOK'
  <2>. DEFINE v == [job[j] EXCEPT !.batch = @ \ {r}]
  <2>1. job' = [job EXCEPT ![j] = v]
    BY <1>4 DEF Suppress
  <2>2. /\ job'[j].at = "batch" /\ job[j].at = "batch" /\ job'[j].left = job[j].left
        /\ job'[j].batch = job[j].batch \ {r}
    BY <1>0, <1>4, <2>1 DEF Suppress, Job
  <2>3. /\ ReadPending' = ReadPending \ {r} /\ status' = status /\ (Stopped => Stopped')
        /\ \A p \in Rows : row[p] # "pending" => row'[p] # "pending"
    BY <1>0, <1>4 DEF Suppress, ReadPending, history, Stopped
  <2>4. Covers(j) => Covers(j)'
    BY <2>2, <2>3 DEF Covers, SendPC
  <2>. HIDE DEF v
  <2>. QED  BY <2>1, <2>3, <2>4, SenderServes
<1>5. CASE Mail(j)
  <2>1. PICK S \in SUBSET job[j].batch :
          job' = [job EXCEPT ![j].sent = S,
                 ![j].at = IF job[j].batch = {} THEN AfterBatch(j) ELSE "record"]
    BY <1>5 DEF Mail
  <2>. DEFINE v == [job[j] EXCEPT !.sent = S,
                 !.at = IF job[j].batch = {} THEN AfterBatch(j) ELSE "record"]
  <2>2. job' = [job EXCEPT ![j] = v]
    BY <2>1
  <2>3. /\ job[j].at = "batch" /\ job'[j].left = job[j].left /\ job'[j].batch = job[j].batch
        /\ job'[j].at = IF job[j].batch = {} THEN AfterBatch(j) ELSE "record"
    BY <1>0, <1>5, <2>1 DEF Mail, Job
  <2>4. UNCHANGED <<status, row>> /\ (Stopped => Stopped')
    BY <1>5 DEF Mail, Stopped
  <2>5. Unserved /\ Covers(j) => Covers(j)'
    BY <2>3, <2>4 DEF Covers, Unserved, AfterBatch, ReadPending, SendPC
  <2>. HIDE DEF v
  <2>. QED  BY <2>2, <2>4, <2>5, SenderServes
<1>6. ASSUME NEW r \in Rows, Record(j, r)
      PROVE  SentOK'
  <2>. DEFINE v == [job[j] EXCEPT !.batch = @ \ {r}, !.sent = @ \ {r},
           !.at = IF job[j].batch = {r} THEN AfterBatch(j) ELSE @]
  <2>1. job' = [job EXCEPT ![j] = v]
    BY <1>6 DEF Record
  <2>2. /\ job[j].at = "record" /\ job'[j].left = job[j].left
        /\ job'[j].batch = job[j].batch \ {r}
        /\ job'[j].at = IF job[j].batch = {r} THEN AfterBatch(j) ELSE "record"
    <3>1. job[j].at = "record" /\ job'[j] = v
      BY <1>0, <1>6, <2>1 DEF Record
    <3>. QED  BY <1>0, <3>1 DEF Job
  <2>3. /\ ReadPending' = ReadPending \ {r} /\ status' = status /\ (Stopped => Stopped')
        /\ \A p \in Rows : row[p] # "pending" => row'[p] # "pending"
    BY <1>0, <1>6 DEF Record, ReadPending, history, Stopped
  <2>4. Unserved' /\ Covers(j) => Covers(j)'
    BY <2>2, <2>3 DEF Covers, Unserved, AfterBatch, SendPC
  <2>. HIDE DEF v
  <2>. QED  BY <2>1, <2>3, <2>4, SenderServes
<1>7. CASE Complete(j)
  <2>1. UNCHANGED <<row, marks>> /\ ~Covers(j)
    BY <1>7 DEF Complete, Covers, SendPC
  <2>. QED  BY <2>1 DEF SentOK, Unserved, Stopped, ReadPending
<1>8. CASE Fail(j)
  <2>1. Retried(j).at \notin SendPC
    BY RetriedOK DEF SendPC
  <2>2. \A i \in Jobs : job'[i].at \in SendPC => job'[i] = job[i]
    BY <1>8, <2>1, JobSettles DEF Fail
  <2>3. /\ Stopped => Stopped'
        /\ status' = status \/ status' # "sent"
        /\ status = "sending" => status' = "sending" \/ Stopped'
    BY <1>8 DEF Fail, Mark, Write, Stops, Stopped
  <2>4. row' = row
    BY <1>8 DEF Fail
  <2>5. Settled
    BY <2>2, <2>3, <2>4 DEF Settled
  <2>. QED  BY <2>5, SettledKeeps
<1>. QED
  BY <1>1, <1>2, <1>3, <1>4, <1>5, <1>6, <1>7, <1>8, QueueSettles, SettledKeeps DEF Work

LEMMA SentInductive ==
    ASSUME Basic, SentOK, [Next]_vars
    PROVE  SentOK'
<1>1. CASE UNCHANGED vars
  BY <1>1, SettledKeeps DEF vars, Settled, Stopped
<1>2. CASE Step
  BY <1>2, RequestsSettle, SenderComplete, QueueSettles, CrashSettles, SettledKeeps DEF Step
<1>. QED  BY <1>1, <1>2 DEF Next

\* A campaign that nobody stopped is marked as sent when every recipient was
\* served, whatever the number of jobs, and through crashes and errors: a run of
\* handleSendCampaign reads who is pending and drops none of them.
THEOREM SentIsComplete == Spec => []SentComplete
<1>1. Init => SentOK
  BY DEF Init, SentOK, Covers, NoJob, SendPC
<1>2. Basic /\ SentOK /\ [Next]_vars => SentOK'
  BY SentInductive
<1>3. SentOK => SentComplete
  BY DEF SentOK, Unserved, SentComplete, ReadPending
<1>. QED  BY <1>1, <1>2, <1>3, CampaignInductive, PTL DEF Spec
-----------------------------------------------------------------------------
(* The mails of a recipient.  A job holds a recipient whom it may still mail, *)
(* and owes the record of one whom it has mailed.  As long as the row says    *)
(* pending, the mails are owed or lost; from then on no job takes the         *)
(* recipient up again, and the jobs that hold it are counted beforehand.      *)

Holds(v, r) == \/ v.at \in {"check", "batch", "record"} /\ r \in v.left
               \/ v.at = "batch" /\ r \in v.batch
Owes(v, r) == v.at = "record" /\ r \in v.batch

Holders(r) == {j \in Jobs : Holds(job[j], r)}
Owing(r) == {j \in Jobs : Owes(job[j], r)}
Busy == {j \in Jobs : job[j].at \in Active}
Senders == {j \in Jobs : job[j].at \in SendPC}

\* How many jobs may be sending at the same time.
Width == IF Overlapped THEN Slots ELSE 1
Spent == Width * crashes

SlotsOK == Cardinality(Busy) <= Slots /\ Cardinality(Senders) <= Width

Apart(v) == v.at \in {"batch", "record"} => v.batch \cap v.left = {}
ApartOK == \A j \in Jobs : Apart(job[j])

MailOK(r) ==
    IF row[r] = "pending"
    THEN mailed[r] <= Spent + Cardinality(Owing(r)) + faults
    ELSE mailed[r] + Cardinality(Holders(r)) <= Spent + Width + faults

MailsOK == SlotsOK /\ ApartOK /\ \A r \in Rows : MailOK(r)

LEMMA JobCounts ==
    ASSUME NEW A \in SUBSET Jobs
    PROVE  /\ IsFiniteSet(A) /\ Cardinality(A) \in Nat
           /\ \A B \in SUBSET Jobs, j \in Jobs :
                /\ A \subseteq B => Cardinality(A) <= Cardinality(B)
                /\ A \subseteq B \cup {j} => Cardinality(A) <= Cardinality(B) + 1
                /\ A \subseteq B \ {j} /\ j \in B => Cardinality(A) + 1 <= Cardinality(B)
           /\ \A B, C \in SUBSET Jobs :
                A \cap B = {} /\ A \subseteq C /\ B \subseteq C =>
                    Cardinality(A) + Cardinality(B) <= Cardinality(C)
<1>1. \A B \in SUBSET Jobs : IsFiniteSet(B) /\ Cardinality(B) \in Nat
  BY SetsAssumption, FS_Subset, FS_CardinalityType
<1>2. ASSUME NEW B \in SUBSET Jobs, NEW C \in SUBSET Jobs, B \subseteq C
      PROVE  Cardinality(B) <= Cardinality(C)
  BY <1>1, <1>2, FS_Subset
<1>3. ASSUME NEW B \in SUBSET Jobs, NEW j \in Jobs
      PROVE  /\ Cardinality(B \cup {j}) <= Cardinality(B) + 1
             /\ j \in B => Cardinality(B \ {j}) + 1 = Cardinality(B)
  <2>1. /\ Cardinality(B \cup {j}) = IF j \in B THEN Cardinality(B) ELSE Cardinality(B) + 1
        /\ Cardinality(B \ {j}) = IF j \in B THEN Cardinality(B) - 1 ELSE Cardinality(B)
    BY <1>1, FS_AddElement, FS_RemoveElement
  <2>. QED  BY <1>1, <2>1
<1>4. ASSUME NEW B \in SUBSET Jobs, NEW j \in Jobs
      PROVE  /\ A \subseteq B => Cardinality(A) <= Cardinality(B)
             /\ A \subseteq B \cup {j} => Cardinality(A) <= Cardinality(B) + 1
             /\ A \subseteq B \ {j} /\ j \in B => Cardinality(A) + 1 <= Cardinality(B)
  <2>1. B \cup {j} \in SUBSET Jobs /\ B \ {j} \in SUBSET Jobs
    OBVIOUS
  <2>2. /\ A \subseteq B \cup {j} => Cardinality(A) <= Cardinality(B \cup {j})
        /\ A \subseteq B \ {j} => Cardinality(A) <= Cardinality(B \ {j})
        /\ A \subseteq B => Cardinality(A) <= Cardinality(B)
    BY <1>2, <2>1
  <2>3. /\ Cardinality(A) \in Nat /\ Cardinality(B) \in Nat
        /\ Cardinality(B \cup {j}) \in Nat /\ Cardinality(B \ {j}) \in Nat
    BY <1>1, <2>1
  <2>. QED  BY <1>3, <2>2, <2>3
<1>5. ASSUME NEW B \in SUBSET Jobs, NEW C \in SUBSET Jobs,
             A \cap B = {}, A \subseteq C, B \subseteq C
      PROVE  Cardinality(A) + Cardinality(B) <= Cardinality(C)
  <2>1. Cardinality(A \cup B) = Cardinality(A) + Cardinality(B) - Cardinality(A \cap B)
    BY <1>1, FS_Union
  <2>2. Cardinality(A \cap B) = 0
    BY <1>5, FS_EmptySet
  <2>3. Cardinality(A \cup B) <= Cardinality(C)
    BY <1>2, <1>5
  <2>. QED  BY <1>1, <2>1, <2>2, <2>3
<1>. QED  BY <1>1, <1>4, <1>5

LEMMA JobSets ==
    /\ Busy \in SUBSET Jobs /\ Senders \in SUBSET Jobs
    /\ \A r : Holders(r) \in SUBSET Jobs /\ Owing(r) \in SUBSET Jobs
    /\ Busy' \in SUBSET Jobs /\ Senders' \in SUBSET Jobs
    /\ \A r : Holders(r)' \in SUBSET Jobs /\ Owing(r)' \in SUBSET Jobs
    /\ Senders \subseteq Busy
  BY DEF Busy, Senders, Holders, Owing, Active

LEMMA WidthNat ==
    ASSUME Basic
    PROVE  Width \in Nat /\ Width >= 1 /\ Width <= Slots /\ Spent \in Nat
  BY QueueAssumption DEF Width, Spent, Basic, TypeOK

\* The width and what is spent only grow, but for the crashes.
LEMMA WidthGrows ==
    ASSUME Basic, Basic', marks \subseteq marks'
    PROVE  /\ Width <= Width'
           /\ crashes' = crashes => Spent <= Spent'
           /\ crashes' = crashes + 1 => Spent + Width <= Spent'
<1>1. Width <= Width'
  BY QueueAssumption DEF Width, Overlapped
<1>2. \A a, b, c \in Nat : a <= b => a * c <= b * c /\ a * c + a <= b * (c + 1)
  <2>. TAKE a, b, c \in Nat
  <2>. HAVE a <= b
  <2>1. PICK d \in Nat : b = a + d
    <3>. WITNESS b - a \in Nat
    <3>. QED  OBVIOUS
  <2>2. b * c = a * c + d * c /\ d * c >= 0 /\ b * (c + 1) = b * c + b
    BY <2>1
  <2>. QED  BY <2>1, <2>2
<1>3. Width \in Nat /\ Width' \in Nat /\ crashes \in Nat /\ crashes' \in Nat
  BY WidthNat, QueueAssumption DEF Width, Basic, TypeOK
<1>. QED  BY <1>1, <1>2, <1>3 DEF Spent
-----------------------------------------------------------------------------
(* Steps that mail nobody and write no row. *)

\* No job gets a slot, and none starts to send.
Placed ==
    \A j \in Jobs : /\ job'[j].at \in Active => job[j].at \in Active
                    /\ job'[j].at \in SendPC => job[j].at \in SendPC

\* No record is forgotten, and only who is pending is taken up.
Still ==
    /\ UNCHANGED <<mailed, row, crashes>> /\ faults <= faults' /\ marks \subseteq marks'
    /\ \A j \in Jobs :
        /\ Apart(job'[j])
        /\ \A r \in Rows : /\ Owes(job[j], r) => Owes(job'[j], r)
                           /\ Holds(job'[j], r) => Holds(job[j], r) \/ row[r] = "pending"

LEMMA PlacedKeeps ==
    ASSUME Basic, Basic', SlotsOK, Placed, marks \subseteq marks'
    PROVE  SlotsOK'
<1>1. Busy' \subseteq Busy /\ Senders' \subseteq Senders
  BY DEF Placed, Busy, Senders
<1>2. /\ Cardinality(Busy') <= Cardinality(Busy)
      /\ Cardinality(Senders') <= Cardinality(Senders)
      /\ Cardinality(Busy') \in Nat /\ Cardinality(Senders') \in Nat
      /\ Cardinality(Busy) \in Nat /\ Cardinality(Senders) \in Nat
  BY <1>1, JobSets, JobCounts
<1>3. Width \in Nat /\ Width' \in Nat /\ Width <= Width'
  BY WidthNat, WidthGrows, QueueAssumption DEF Width
<1>. QED  BY <1>2, <1>3, QueueAssumption DEF SlotsOK

\* The same for one recipient.
StillFor(r) ==
    /\ mailed'[r] = mailed[r] /\ row'[r] = row[r]
    /\ \A j \in Jobs : /\ Owes(job[j], r) => Owes(job'[j], r)
                       /\ Holds(job'[j], r) => Holds(job[j], r) \/ row[r] = "pending"

\* What the counts of a recipient are compared with.
LEMMA Counts ==
    ASSUME Basic, Basic', NEW r \in Rows
    PROVE  /\ Cardinality(Owing(r)) \in Nat /\ Cardinality(Owing(r)') \in Nat
           /\ Cardinality(Holders(r)) \in Nat /\ Cardinality(Holders(r)') \in Nat
           /\ Width \in Nat /\ Spent \in Nat /\ Width' \in Nat /\ Spent' \in Nat
           /\ mailed[r] \in Nat /\ mailed'[r] \in Nat /\ faults \in Nat /\ faults' \in Nat
<1>1. \A A \in SUBSET Jobs : Cardinality(A) \in Nat
  BY JobCounts
<1>2. Width' \in Nat /\ crashes' \in Nat
  BY QueueAssumption DEF Basic, TypeOK, Width
<1>3. Spent' \in Nat
  <2>1. \A a, b \in Nat : a * b \in Nat
    OBVIOUS
  <2>. QED  BY <1>2, <2>1 DEF Spent
<1>. QED  BY <1>1, <1>2, <1>3, JobSets, WidthNat DEF Basic, TypeOK

LEMMA StillKeeps ==
    ASSUME Basic, Basic', NEW r \in Rows, MailOK(r), StillFor(r), crashes' = crashes,
           faults <= faults', marks \subseteq marks'
    PROVE  MailOK(r)'
<1>1. Owing(r) \subseteq Owing(r)' /\ (row[r] # "pending" => Holders(r)' \subseteq Holders(r))
  BY DEF StillFor, Owing, Holders
<1>2. /\ Cardinality(Owing(r)) <= Cardinality(Owing(r)')
      /\ row[r] # "pending" => Cardinality(Holders(r)') <= Cardinality(Holders(r))
  BY <1>1, JobSets, JobCounts
<1>3. Width <= Width' /\ Spent <= Spent'
  BY WidthGrows
<1>. QED  BY <1>2, <1>3, Counts DEF MailOK, StillFor

LEMMA JobsSame ==
    ASSUME Basic, ApartOK, UNCHANGED <<job, mailed, row, crashes, faults>>, marks \subseteq marks'
    PROVE  Placed /\ Still
<1>. faults \in Nat
  BY DEF Basic, TypeOK
<1>. QED  BY DEF Placed, Still, ApartOK

\* A step of one job.
LEMMA OneJob ==
    ASSUME Basic, ApartOK, NEW j \in Jobs, NEW v, job' = [job EXCEPT ![j] = v],
           UNCHANGED <<mailed, row, crashes>>, faults <= faults', marks \subseteq marks', Apart(v),
           \A r \in Rows : /\ Owes(job[j], r) => Owes(v, r)
                           /\ Holds(v, r) => Holds(job[j], r) \/ row[r] = "pending"
    PROVE  /\ Still
           /\ (v.at \in Active => job[j].at \in Active)
                /\ (v.at \in SendPC => job[j].at \in SendPC) => Placed
<1>1. job'[j] = v /\ \A i \in Jobs \ {j} : job'[i] = job[i]
  BY DEF Basic, TypeOK
<1>. QED  BY <1>1 DEF Placed, Still, ApartOK

\* A job that goes out of its slot, or waits on, having recorded its mails.
LEMMA QueueJob ==
    ASSUME Basic, ApartOK, NEW j \in Jobs, NEW v, job' = [job EXCEPT ![j] = v],
           UNCHANGED <<mailed, row, crashes>>, faults <= faults', marks \subseteq marks',
           v.at \notin Active, job[j].at # "record"
    PROVE  Placed /\ Still
<1>1. v.at \notin SendPC /\ Apart(v) /\ \A r \in Rows : ~Holds(v, r) /\ ~Owes(job[j], r)
  BY DEF Active, SendPC, Apart, Holds, Owes
<1>. QED  BY <1>1, OneJob

LEMMA RequestsStill ==
    ASSUME Basic, ApartOK, NEW q \in Requests,
           \/ Send(q) \/ Schedule(q) \/ Pause(q) \/ Resume(q) \/ Cancel(q) \/ Delete(q)
           \/ Answer(q)
    PROVE  Placed /\ Still
<1>1. ASSUME NEW op, NEW S, Ask(q, op, S)
      PROVE  Placed /\ Still
  BY <1>1, JobsSame DEF Ask, history
<1>2. ASSUME NEW op, NEW s, NEW label, Then(q, op, s, label)
      PROVE  Placed /\ Still
  BY <1>2, JobsSame DEF Then, Mark
<1>3. CASE Add(q)
  <2>1. PICK j \in Jobs, k \in {"send", "scheduled"} :
          NextJob(j) /\ job' = [job EXCEPT ![j] = NewJob(k)]
    BY <1>3 DEF Add
  <2>2. NewJob(k).at \notin Active /\ job[j].at = "free"
    BY <2>1, NewJobOK DEF Active, SendPC, SchedulePC, NextJob, Free
  <2>3. UNCHANGED <<mailed, row, crashes>> /\ faults <= faults' /\ marks \subseteq marks'
    BY <1>3 DEF Add, history, Basic, TypeOK
  <2>. QED  BY <2>1, <2>2, <2>3, QueueJob
<1>4. CASE List(q)
  BY <1>4, JobsSame DEF List, history
<1>5. CASE Remove(q)
  <2>1. PICK j \in req[q].found :
          \/ job' = [job EXCEPT ![j] = NoJob] /\ job[j].at \in {"waiting", "stalled"}
          \/ job' = job
    BY <1>5 DEF Remove
  <2>2. j \in Jobs /\ NoJob.at \notin Active /\ faults \in Nat
    BY DEF Basic, TypeOK, Request, NoJob, Active, SendPC, SchedulePC
  <2>3. UNCHANGED <<mailed, row, crashes, faults>> /\ marks \subseteq marks'
    BY <1>5 DEF Remove, Mark
  <2>. QED  BY <2>1, <2>2, <2>3, QueueJob, JobsSame
<1>6. CASE Send(q) \/ Schedule(q) \/ Pause(q) \/ Resume(q) \/ Cancel(q) \/ Delete(q)
  BY <1>1, <1>6 DEF Send, Schedule, Pause, Resume, Cancel, Delete
<1>7. CASE WriteSending(q) \/ WriteScheduled(q) \/ WritePaused(q)
             \/ WriteResumed(q) \/ WriteCancelled(q) \/ DeleteRow(q)
  BY <1>2, <1>7 DEF WriteSending, WriteScheduled, WritePaused, WriteResumed,
     WriteCancelled, DeleteRow
<1>. QED  BY <1>3, <1>4, <1>5, <1>6, <1>7 DEF Answer

LEMMA QueueStill ==
    ASSUME Basic, ApartOK, NEW j \in Jobs,
           Complete(j) \/ Launch(j) \/ Enqueue(j) \/ FailScheduled(j) \/ Recover(j)
    PROVE  Placed /\ Still
<1>0. /\ job \in [Jobs -> Job] /\ job[j] \in Job /\ faults \in Nat
      /\ NoJob.at \notin Active /\ Retried(j).at \notin Active
      /\ marks \subseteq marks' /\ UNCHANGED <<mailed, row, crashes>> /\ faults <= faults'
  <2>1. Retried(j).at \in {"free", "waiting"}
    BY RetriedOK
  <2>. QED
    BY <2>1 DEF Basic, TypeOK, NoJob, Active, SendPC, SchedulePC, Complete, Launch, Enqueue,
       FailScheduled, Recover, history, Mark
<1>1. CASE Complete(j)
  BY <1>0, <1>1, QueueJob DEF Complete
<1>2. CASE Launch(j)
  <2>. DEFINE v == [job[j] EXCEPT !.at = "enqueue"]
  <2>1. job' = [job EXCEPT ![j] = v] /\ v.at = "enqueue" /\ job[j].at = "launch"
    BY <1>0, <1>2 DEF Launch, GoTo, Job
  <2>2. Apart(v) /\ \A r \in Rows : ~Holds(v, r) /\ ~Owes(job[j], r)
    BY <2>1 DEF Apart, Holds, Owes
  <2>3. v.at \notin SendPC /\ job[j].at \in Active
    BY <2>1 DEF SendPC, SchedulePC, Active
  <2>. HIDE DEF v
  <2>. QED  BY <1>0, <2>1, <2>2, <2>3, OneJob
<1>3. CASE Enqueue(j)
  <2>1. PICK i \in Jobs :
          NextJob(i) /\ job' = [job EXCEPT ![i] = NewJob("send"), ![j] = NoJob]
    BY <1>3 DEF Enqueue
  <2>2. /\ job[i].at = "free" /\ job[j].at = "enqueue"
        /\ NewJob("send").at = "waiting" /\ NoJob.at = "free"
    BY <1>3, <2>1, NewJobOK DEF Enqueue, NextJob, Free, NoJob
  <2>3. ASSUME NEW k \in Jobs
        PROVE  \/ job'[k] = job[k]
               \/ job'[k].at \in {"waiting", "free"} /\ job[k].at \in {"free", "enqueue"}
    BY <1>0, <2>1, <2>2
  <2>4. ASSUME NEW k \in Jobs, job'[k].at \in {"waiting", "free"},
               job[k].at \in {"free", "enqueue"}
        PROVE  /\ job'[k].at \notin Active /\ job'[k].at \notin SendPC /\ Apart(job'[k])
               /\ \A r \in Rows : ~Holds(job'[k], r) /\ ~Owes(job[k], r)
    BY <2>4 DEF Active, SendPC, SchedulePC, Apart, Holds, Owes
  <2>. QED  BY <1>0, <2>3, <2>4 DEF Placed, Still, ApartOK
<1>4. CASE FailScheduled(j)
  BY <1>0, <1>4, QueueJob DEF FailScheduled, SchedulePC
<1>5. CASE Recover(j)
  <2>. DEFINE v == [job[j] EXCEPT !.at = "waiting", !.stalls = @ + 1]
  <2>1. v.at \notin Active /\ job[j].at # "record"
    BY <1>0, <1>5 DEF Recover, Job, Active, SendPC, SchedulePC
  <2>2. job' = [job EXCEPT ![j] = v] \/ job' = [job EXCEPT ![j] = NoJob]
    BY <1>5 DEF Recover
  <2>. HIDE DEF v
  <2>. QED  BY <1>0, <2>1, <2>2, QueueJob
<1>. QED  BY <1>1, <1>2, <1>3, <1>4, <1>5

-----------------------------------------------------------------------------
(* The other steps. *)

LEMMA BeginStill ==
    ASSUME Basic, ApartOK, NEW j \in Jobs, Begin(j) \/ BeginScheduled(j)
    PROVE  Still
<1>0. /\ job \in [Jobs -> Job] /\ job[j].at = "waiting" /\ NoJob.at \notin Active
      /\ Retried(j).at \notin Active /\ faults <= faults' /\ marks \subseteq marks'
      /\ UNCHANGED <<mailed, row, crashes>>
  <2>1. Retried(j).at \in {"free", "waiting"}
    BY RetriedOK
  <2>. QED
    BY <2>1 DEF Basic, TypeOK, NoJob, Active, SendPC, SchedulePC, Begin, BeginScheduled,
       history, Mark
<1>1. ASSUME NEW label \in {"fetch", "launch"}, GoTo(j, label)
      PROVE  Still
  <2>. DEFINE v == [job[j] EXCEPT !.at = label]
  <2>1. job' = [job EXCEPT ![j] = v] /\ v.at = label
    BY <1>0, <1>1 DEF GoTo, Job
  <2>2. Apart(v) /\ \A r \in Rows : ~Holds(v, r) /\ ~Owes(job[j], r)
    BY <1>0, <2>1 DEF Apart, Holds, Owes
  <2>. HIDE DEF v
  <2>. QED  BY <1>0, <2>1, <2>2, OneJob
<1>2. ASSUME NEW v \in {NoJob, Retried(j)}, job' = [job EXCEPT ![j] = v]
      PROVE  Still
  BY <1>0, <1>2, QueueJob
<1>. QED  BY <1>1, <1>2 DEF Begin, BeginScheduled

\* A job that begins finds a slot, and the width allows for it.
LEMMA BeginSlots ==
    ASSUME Basic, Basic', SlotsOK, NEW j \in Jobs, Begin(j) \/ BeginScheduled(j)
    PROVE  SlotsOK'
<1>0. /\ job[j].at = "waiting" /\ j \notin Senders /\ Cardinality(Busy) < Slots
      /\ \A k \in Jobs \ {j} : job'[k] = job[k]
  BY DEF Begin, BeginScheduled, Slot, Senders, Busy, SendPC, GoTo, Basic, TypeOK
<1>1. Busy' \subseteq Busy \cup {j} /\ Senders' \subseteq Senders \cup {j}
  BY <1>0 DEF Busy, Senders
<1>2. marks \subseteq marks'
  BY DEF Begin, BeginScheduled, Mark, history
<1>3. /\ Cardinality(Busy) \in Nat /\ Cardinality(Busy') \in Nat
      /\ Cardinality(Senders) \in Nat /\ Cardinality(Senders') \in Nat
      /\ Cardinality(Busy') <= Cardinality(Busy) + 1
      /\ Cardinality(Senders') <= Cardinality(Senders) + 1
      /\ Cardinality(Senders') <= Cardinality(Busy')
      /\ Senders' \subseteq Senders => Cardinality(Senders') <= Cardinality(Senders)
  <2>1. Senders' \subseteq Busy'
    BY DEF Senders, Busy, Active
  <2>. QED  BY <1>1, <2>1, JobSets, JobCounts
<1>4. Width \in Nat /\ Width' \in Nat /\ Width <= Width'
  BY <1>2, WidthNat, WidthGrows, QueueAssumption DEF Width
<1>5. CASE Begin(j) /\ status = "sending"
  <2>1. CASE Senders = {}
    <3>1. Cardinality(Senders) = 0
      BY <2>1, FS_EmptySet
    <3>2. Width' >= 1
      BY QueueAssumption DEF Width
    <3>. QED  BY <1>0, <1>3, <1>4, <3>1, <3>2, QueueAssumption DEF SlotsOK
  <2>2. CASE Senders # {}
    <3>1. \E i \in Jobs \ {j} : job[i].at \in SendPC
      BY <1>0, <2>2 DEF Senders
    <3>2. Width' = Slots
      BY <1>5, <3>1 DEF Begin, Mark, Width, Overlapped
    <3>. QED  BY <1>0, <1>3, <3>2, QueueAssumption DEF SlotsOK
  <2>. QED  BY <2>1, <2>2
<1>6. CASE ~(Begin(j) /\ status = "sending")
  <2>1. job'[j].at \notin SendPC
    <3>1. job[j] \in Job /\ Retried(j).at \in {"free", "waiting"}
      BY RetriedOK DEF Basic, TypeOK
    <3>. QED
      BY <1>6, <3>1 DEF Begin, BeginScheduled, GoTo, NoJob, SendPC, Job, Basic, TypeOK
  <2>2. Senders' \subseteq Senders
    BY <1>0, <2>1 DEF Senders
  <2>. QED  BY <1>0, <1>3, <1>4, <2>2, QueueAssumption DEF SlotsOK
<1>. QED  BY <1>5, <1>6

LEMMA FetchStill ==
    ASSUME Basic, ApartOK, NEW j \in Jobs, Fetch(j) \/ Check(j)
    PROVE  Placed /\ Still
<1>0. /\ job \in [Jobs -> Job] /\ job[j] \in Job /\ faults <= faults' /\ marks \subseteq marks'
      /\ UNCHANGED <<mailed, row, crashes>> /\ job[j].at \in {"fetch", "check"}
  <2>1. UNCHANGED <<row, history>> /\ job[j].at \in {"fetch", "check"}
    BY DEF Fetch, Check
  <2>. QED  BY <2>1 DEF Basic, TypeOK, history
<1>1. /\ job[j].at \in SendPC /\ job[j].at \in Active
      /\ \A r \in Rows : ~Owes(job[j], r)
  BY <1>0 DEF SendPC, Active, Owes
<1>2. CASE Fetch(j)
  <2>. DEFINE v == [job[j] EXCEPT !.left = ReadPending,
                                  !.at = IF ReadPending = {} THEN "complete" ELSE "check"]
  <2>1. /\ job' = [job EXCEPT ![j] = v] /\ v.left = ReadPending
        /\ v.at \in {"complete", "check"}
    BY <1>0, <1>2 DEF Fetch, Job
  <2>2. Apart(v) /\ \A r \in Rows : Holds(v, r) => row[r] = "pending"
    BY <2>1 DEF Apart, Holds, ReadPending
  <2>. HIDE DEF v
  <2>. QED  BY <1>0, <1>1, <2>1, <2>2, OneJob
<1>3. CASE Check(j) /\ GoTo(j, "complete")
  <2>. DEFINE v == [job[j] EXCEPT !.at = "complete"]
  <2>1. job' = [job EXCEPT ![j] = v] /\ v.at = "complete"
    BY <1>0, <1>3 DEF GoTo, Job
  <2>2. Apart(v) /\ \A r \in Rows : ~Holds(v, r)
    BY <2>1 DEF Apart, Holds
  <2>. HIDE DEF v
  <2>. QED  BY <1>0, <1>1, <2>1, <2>2, OneJob
<1>4. ASSUME Check(j), NEW S \in SUBSET job[j].left,
             job' = [job EXCEPT ![j].batch = S, ![j].left = Rest(j, S), ![j].at = "batch"]
      PROVE  Placed /\ Still
  <2>. DEFINE v == [job[j] EXCEPT !.batch = S, !.left = Rest(j, S), !.at = "batch"]
  <2>1. /\ job' = [job EXCEPT ![j] = v] /\ v.at = "batch" /\ v.batch = S
        /\ v.left = job[j].left \ S /\ job[j].at = "check"
    BY <1>0, <1>4 DEF Check, Rest, Job
  <2>2. Apart(v) /\ \A r \in Rows : Holds(v, r) => Holds(job[j], r)
    BY <2>1 DEF Apart, Holds
  <2>. HIDE DEF v
  <2>. QED  BY <1>0, <1>1, <2>1, <2>2, OneJob
<1>. QED  BY <1>2, <1>3, <1>4 DEF Check

\* The jobs that hold a recipient and those that owe the record are sending.
LEMMA InWidth ==
    ASSUME Basic, SlotsOK, ApartOK, NEW r \in Rows
    PROVE  Cardinality(Owing(r)) + Cardinality(Holders(r)) <= Width
<1>1. Owing(r) \cap Holders(r) = {}
  BY DEF Owing, Holders, Owes, Holds, ApartOK, Apart
<1>2. Owing(r) \subseteq Senders /\ Holders(r) \subseteq Senders
  BY DEF Owing, Holders, Owes, Holds, Senders, SendPC
<1>3. Cardinality(Owing(r)) + Cardinality(Holders(r)) <= Cardinality(Senders)
  BY <1>1, <1>2, JobSets, JobCounts
<1>4. /\ Cardinality(Owing(r)) \in Nat /\ Cardinality(Holders(r)) \in Nat
      /\ Cardinality(Senders) \in Nat /\ Width \in Nat
  BY JobSets, JobCounts, WidthNat
<1>. QED  BY <1>3, <1>4 DEF SlotsOK

\* The row of a recipient is written: the mails so far are counted.
LEMMA WrittenRow ==
    ASSUME Basic, Basic', MailsOK, NEW r \in Rows, row'[r] # "pending",
           Holders(r)' \subseteq Holders(r), UNCHANGED <<mailed, crashes, faults, marks>>
    PROVE  MailOK(r)'
<1>1. Cardinality(Holders(r)') <= Cardinality(Holders(r))
  BY JobSets, JobCounts
<1>2. Width' = Width /\ Spent' = Spent
  BY DEF Width, Overlapped, Spent
<1>3. MailOK(r) /\ Cardinality(Owing(r)) + Cardinality(Holders(r)) <= Width
  BY InWidth DEF MailsOK
<1>. QED  BY <1>1, <1>2, <1>3, Counts DEF MailOK

\* Where one job goes on from a row it has written.
LEMMA OneRow ==
    ASSUME Basic, Basic', MailsOK, NEW j \in Jobs, NEW v, job' = [job EXCEPT ![j] = v],
           NEW p \in Rows, NEW x \in {"sent", "failed"}, row' = [row EXCEPT ![p] = x],
           UNCHANGED <<mailed, crashes, faults, marks>>, Apart(v),
           \A r \in Rows : /\ r # p /\ Owes(job[j], r) => Owes(v, r)
                           /\ Holds(v, r) => Holds(job[j], r),
           v.at \in SendPC, job[j].at \in SendPC
    PROVE  MailsOK'
<1>0. /\ job'[j] = v /\ \A i \in Jobs \ {j} : job'[i] = job[i]
      /\ row'[p] # "pending" /\ \A r \in Rows \ {p} : row'[r] = row[r]
      /\ faults \in Nat
  BY DEF Basic, TypeOK
<1>1. SlotsOK'
  BY <1>0, PlacedKeeps DEF MailsOK, Placed, Active
<1>2. ApartOK'
  BY <1>0 DEF MailsOK, ApartOK
<1>3. \A r \in Rows : Holders(r)' \subseteq Holders(r)
  BY <1>0 DEF Holders
<1>4. ASSUME NEW r \in Rows \ {p}
      PROVE  MailOK(r)'
  <2>1. StillFor(r)
    BY <1>0, <1>4 DEF StillFor
  <2>. QED  BY <1>0, <2>1, StillKeeps DEF MailsOK
<1>5. MailOK(p)'
  BY <1>0, <1>3, WrittenRow
<1>. QED  BY <1>1, <1>2, <1>4, <1>5 DEF MailsOK

LEMMA RecordMails ==
    ASSUME Basic, Basic', MailsOK, NEW j \in Jobs, NEW p \in Rows,
           Suppress(j, p) \/ Record(j, p)
    PROVE  MailsOK'
<1>0. /\ job \in [Jobs -> Job] /\ job[j] \in Job /\ Apart(job[j])
      /\ UNCHANGED <<mailed, crashes, faults, marks>>
  BY DEF Basic, TypeOK, MailsOK, ApartOK, Suppress, Record, history
<1>1. CASE Suppress(j, p)
  <2>. DEFINE v == [job[j] EXCEPT !.batch = @ \ {p}]
  <2>1. /\ job' = [job EXCEPT ![j] = v] /\ v.at = "batch" /\ job[j].at = "batch"
        /\ v.batch = job[j].batch \ {p} /\ v.left = job[j].left
        /\ row' = [row EXCEPT ![p] = "failed"]
    BY <1>0, <1>1 DEF Suppress, Job
  <2>. HIDE DEF v
  <2>2. /\ Apart(v) /\ v.at \in SendPC /\ job[j].at \in SendPC
        /\ \A r \in Rows : ~Owes(job[j], r) /\ (Holds(v, r) => Holds(job[j], r))
    BY <1>0, <2>1 DEF Apart, Holds, Owes, SendPC
  <2>. QED  BY <1>0, <2>1, <2>2, OneRow
<1>2. CASE Record(j, p)
  <2>. DEFINE v == [job[j] EXCEPT !.batch = @ \ {p}, !.sent = @ \ {p},
           !.at = IF job[j].batch = {p} THEN AfterBatch(j) ELSE @]
  <2>1. job' = [job EXCEPT ![j] = v] /\ job[j].at = "record"
    BY <1>2 DEF Record
  <2>2. /\ v.batch = job[j].batch \ {p} /\ v.left = job[j].left
        /\ v.at = IF job[j].batch = {p} THEN AfterBatch(j) ELSE "record"
    BY <1>0, <2>1 DEF Job
  <2>3. PICK x \in {"sent", "failed"} : row' = [row EXCEPT ![p] = x]
    BY <1>2 DEF Record
  <2>. HIDE DEF v
  <2>4. /\ Apart(v) /\ v.at \in SendPC /\ job[j].at \in SendPC
        /\ \A r \in Rows : Holds(v, r) => Holds(job[j], r)
    BY <1>0, <2>1, <2>2 DEF Apart, Holds, SendPC, AfterBatch
  <2>5. ASSUME NEW r \in Rows, r # p, Owes(job[j], r)
        PROVE  Owes(v, r)
    BY <2>1, <2>2, <2>5 DEF Owes
  <2>. QED  BY <1>0, <2>1, <2>3, <2>4, <2>5, OneRow
<1>. QED  BY <1>1, <1>2

LEMMA MailMails ==
    ASSUME Basic, Basic', MailsOK, NEW j \in Jobs, Mail(j)
    PROVE  MailsOK'
<1>0. /\ job \in [Jobs -> Job] /\ job[j] \in Job /\ Apart(job[j]) /\ job[j].at = "batch"
      /\ UNCHANGED <<row, crashes, faults, marks>> /\ faults \in Nat
      /\ mailed \in [Rows -> Nat]
  BY DEF Basic, TypeOK, MailsOK, ApartOK, Mail
<1>1. PICK S \in SUBSET job[j].batch :
        /\ mailed' = [r \in Rows |-> IF r \in S THEN mailed[r] + 1 ELSE mailed[r]]
        /\ job' = [job EXCEPT ![j].sent = S,
               ![j].at = IF job[j].batch = {} THEN AfterBatch(j) ELSE "record"]
  BY DEF Mail
<1>. DEFINE v == [job[j] EXCEPT !.sent = S,
               !.at = IF job[j].batch = {} THEN AfterBatch(j) ELSE "record"]
<1>2. /\ job' = [job EXCEPT ![j] = v]
      /\ v.batch = job[j].batch /\ v.left = job[j].left
      /\ v.at = IF job[j].batch = {} THEN AfterBatch(j) ELSE "record"
  BY <1>0, <1>1 DEF Job
<1>. HIDE DEF v
<1>3. /\ job'[j] = v /\ \A i \in Jobs \ {j} : job'[i] = job[i]
  BY <1>0, <1>2
<1>4. /\ Apart(v) /\ v.at \in SendPC /\ job[j].at \in SendPC
      /\ \A r \in Rows : ~Owes(job[j], r) /\ (Holds(v, r) => Holds(job[j], r))
  BY <1>0, <1>2 DEF Apart, Holds, Owes, SendPC, AfterBatch
<1>5. SlotsOK' /\ ApartOK'
  BY <1>0, <1>3, <1>4, PlacedKeeps DEF MailsOK, Placed, Active, ApartOK
<1>6. ASSUME NEW r \in Rows, r \notin job[j].batch
      PROVE  MailOK(r)'
  <2>1. StillFor(r)
    BY <1>0, <1>1, <1>3, <1>4, <1>6 DEF StillFor
  <2>. QED  BY <1>0, <2>1, StillKeeps DEF MailsOK
<1>7. ASSUME NEW r \in Rows, r \in job[j].batch
      PROVE  MailOK(r)'
  <2>1. Owes(v, r) /\ ~Holds(v, r) /\ Holds(job[j], r)
    BY <1>0, <1>2, <1>7 DEF Owes, Holds, Apart
  <2>2. /\ Owing(r) \subseteq Owing(r)' \ {j} /\ j \in Owing(r)'
        /\ Holders(r)' \subseteq Holders(r) \ {j} /\ j \in Holders(r)
    BY <1>3, <1>4, <2>1 DEF Owing, Holders
  <2>3. /\ Cardinality(Owing(r)) + 1 <= Cardinality(Owing(r)')
        /\ Cardinality(Holders(r)') + 1 <= Cardinality(Holders(r))
    BY <2>2, JobSets, JobCounts
  <2>4. Width' = Width /\ Spent' = Spent
    BY <1>0 DEF Width, Overlapped, Spent
  <2>5. mailed'[r] <= mailed[r] + 1 /\ row'[r] = row[r] /\ faults' = faults
    BY <1>0, <1>1
  <2>. QED  BY <2>3, <2>4, <2>5, Counts DEF MailOK, MailsOK
<1>. QED  BY <1>5, <1>6, <1>7 DEF MailsOK

LEMMA FailMails ==
    ASSUME Basic, Basic', MailsOK, NEW j \in Jobs, Fail(j)
    PROVE  MailsOK'
<1>0. /\ job' = [job EXCEPT ![j] = Retried(j)] /\ Retried(j).at \in {"free", "waiting"}
      /\ UNCHANGED <<row, mailed, crashes>> /\ faults' = faults + 1 /\ marks \subseteq marks'
      /\ job'[j] = Retried(j) /\ \A i \in Jobs \ {j} : job'[i] = job[i]
  BY RetriedOK DEF Fail, Mark, Basic, TypeOK
<1>1. /\ job'[j].at \notin Active /\ job'[j].at \notin SendPC /\ Apart(job'[j])
      /\ \A r \in Rows : ~Owes(job'[j], r) /\ ~Holds(job'[j], r)
  BY <1>0 DEF Active, SendPC, SchedulePC, Apart, Owes, Holds
<1>2. SlotsOK' /\ ApartOK'
  BY <1>0, <1>1, PlacedKeeps DEF MailsOK, Placed, ApartOK
<1>3. ASSUME NEW r \in Rows
      PROVE  MailOK(r)'
  <2>1. Owing(r) \subseteq Owing(r)' \cup {j} /\ Holders(r)' \subseteq Holders(r)
    BY <1>0, <1>1 DEF Owing, Holders
  <2>2. /\ Cardinality(Owing(r)) <= Cardinality(Owing(r)') + 1
        /\ Cardinality(Holders(r)') <= Cardinality(Holders(r))
    BY <2>1, JobSets, JobCounts
  <2>3. Width <= Width' /\ Spent <= Spent'
    BY <1>0, WidthGrows
  <2>. QED  BY <1>0, <2>2, <2>3, Counts DEF MailOK, MailsOK
<1>. QED  BY <1>2, <1>3 DEF MailsOK

LEMMA CrashMails ==
    ASSUME Basic, Basic', MailsOK, Crash
    PROVE  MailsOK'
<1>1. ASSUME NEW k \in Jobs
      PROVE  job'[k].at \notin Active
  <2>1. CASE job[k].at \in Active
    BY <2>1 DEF Crash, NoJob, Active, SendPC, SchedulePC
  <2>2. CASE job[k].at \notin Active
    BY <2>2 DEF Crash
  <2>. QED  BY <2>1, <2>2
<1>2. /\ UNCHANGED <<row, mailed, faults>> /\ crashes' = crashes + 1 /\ marks \subseteq marks'
  BY DEF Crash, Mark
<1>3. SlotsOK' /\ ApartOK'
  <2>1. Placed /\ ApartOK'
    BY <1>1 DEF Placed, ApartOK, Apart, Active, SendPC
  <2>. QED  BY <1>2, <2>1, PlacedKeeps DEF MailsOK
<1>4. ASSUME NEW r \in Rows
      PROVE  MailOK(r)'
  <2>1. Owing(r)' = {} /\ Holders(r)' = {}
    BY <1>1 DEF Owing, Holders, Owes, Holds, Active, SendPC
  <2>2. Cardinality(Owing(r)') = 0 /\ Cardinality(Holders(r)') = 0
    BY <2>1, FS_EmptySet
  <2>3. Spent + Width <= Spent'
    BY <1>2, WidthGrows
  <2>4. MailOK(r) /\ Cardinality(Owing(r)) + Cardinality(Holders(r)) <= Width
    BY InWidth DEF MailsOK
  <2>. QED  BY <1>2, <2>2, <2>3, <2>4, Counts DEF MailOK
<1>. QED  BY <1>3, <1>4 DEF MailsOK

LEMMA StillMails ==
    ASSUME Basic, Basic', MailsOK, Still, SlotsOK'
    PROVE  MailsOK'
<1>1. ASSUME NEW r \in Rows
      PROVE  MailOK(r)'
  <2>1. StillFor(r)
    BY DEF Still, StillFor
  <2>. QED  BY <2>1, StillKeeps DEF Still, MailsOK
<1>. QED  BY <1>1 DEF Still, MailsOK, ApartOK

LEMMA MailsNext ==
    ASSUME Basic, Basic', MailsOK, [Next]_vars
    PROVE  MailsOK'
<1>0. /\ ApartOK /\ SlotsOK
      /\ Placed /\ Still => MailsOK'
  <2>1. Placed /\ Still => SlotsOK'
    BY PlacedKeeps DEF MailsOK, Still
  <2>. QED  BY <2>1, StillMails DEF MailsOK
<1>1. ASSUME NEW q \in Requests,
             \/ Send(q) \/ Schedule(q) \/ Pause(q) \/ Resume(q) \/ Cancel(q) \/ Delete(q)
             \/ Answer(q)
      PROVE  MailsOK'
  BY <1>0, <1>1, RequestsStill
<1>2. ASSUME NEW j \in Jobs, Begin(j) \/ BeginScheduled(j)
      PROVE  MailsOK'
  BY <1>0, <1>2, BeginStill, BeginSlots, StillMails
<1>3. ASSUME NEW j \in Jobs, Fetch(j) \/ Check(j)
      PROVE  MailsOK'
  BY <1>0, <1>3, FetchStill
<1>4. ASSUME NEW j \in Jobs,
             Complete(j) \/ Launch(j) \/ Enqueue(j) \/ FailScheduled(j) \/ Recover(j)
      PROVE  MailsOK'
  BY <1>0, <1>4, QueueStill
<1>5. ASSUME NEW j \in Jobs, NEW r \in Rows, Suppress(j, r) \/ Record(j, r)
      PROVE  MailsOK'
  BY <1>5, RecordMails
<1>6. ASSUME NEW j \in Jobs, Mail(j) \/ Fail(j)
      PROVE  MailsOK'
  BY <1>6, MailMails, FailMails
<1>7. CASE UNCHANGED vars
  BY <1>0, <1>7, JobsSame DEF vars
<1>. QED
  BY <1>1, <1>2, <1>3, <1>4, <1>5, <1>6, <1>7, CrashMails DEF Next, Step, Work

LEMMA MailsInit == Init => MailsOK
<1>1. ASSUME Init
      PROVE  /\ Busy = {} /\ Senders = {} /\ ApartOK
             /\ \A r \in Rows : Owing(r) = {} /\ row[r] = "pending" /\ mailed[r] = 0
  BY <1>1 DEF Init, NoJob, Busy, Senders, ApartOK, Apart, Owing, Owes, Active, SendPC,
     SchedulePC
<1>2. ASSUME Init
      PROVE  Spent = 0 /\ faults = 0 /\ Width >= 0
  BY <1>2, QueueAssumption DEF Init, Spent, Width
<1>. QED  BY <1>1, <1>2, FS_EmptySet, QueueAssumption DEF MailsOK, SlotsOK, MailOK

\* No recipient gets more mails than the width and the crashes and errors allow,
\* for any number of recipients, jobs and slots and any size of the batches: a
\* run of handleSendCampaign reads who is pending, and writes the row of each
\* before it goes on.
THEOREM MailsAreFew == Spec => []MailsBounded
<1>1. Init => MailsOK
  BY MailsInit
<1>2. Basic /\ Basic' /\ MailsOK /\ [Next]_vars => MailsOK'
  BY MailsNext
<1>3. Basic /\ MailsOK => MailsBounded
  <2>. SUFFICES ASSUME Basic, MailsOK, NEW r \in Rows
                PROVE  mailed[r] <= Width * (1 + crashes) + faults
    BY DEF MailsBounded, Width
  <2>1. Cardinality(Owing(r)) + Cardinality(Holders(r)) <= Width /\ MailOK(r)
    BY InWidth DEF MailsOK
  <2>2. /\ Width \in Nat /\ Spent \in Nat /\ crashes \in Nat /\ faults \in Nat
        /\ mailed[r] \in Nat
        /\ Cardinality(Owing(r)) \in Nat /\ Cardinality(Holders(r)) \in Nat
    BY WidthNat, JobSets, JobCounts DEF Basic, TypeOK
  <2>3. mailed[r] <= Spent + Width + faults
    BY <2>1, <2>2 DEF MailOK
  <2>4. Width * (1 + crashes) = Spent + Width
    BY <2>2 DEF Spent
  <2>. QED  BY <2>2, <2>3, <2>4
<1>. QED  BY <1>1, <1>2, <1>3, CampaignInductive, PTL DEF Spec

-----------------------------------------------------------------------------
(* The mails, records and marks are those of Mailing. *)

Serves(v, r) == Holds(v, r) \/ Owes(v, r)

\* As long as no two jobs were sending at the same time, whom a job is still to
\* serve is pending; and the provider took the mails that it is to record as sent.
ServeOK ==
    \A j \in Jobs, r \in Rows :
        /\ ~Overlapped /\ Serves(job[j], r) => row[r] = "pending"
        /\ job[j].at = "record" /\ r \in job[j].sent => mailed[r] > 0

ServeInv == Basic /\ SentOK /\ MailsOK /\ ServeOK

\* No other job holds or owes anything while one is sending.
LEMMA OneSender ==
    ASSUME Basic, SlotsOK, ~Overlapped, NEW j \in Jobs, job[j].at \in SendPC,
           NEW i \in Jobs \ {j}, NEW r
    PROVE  ~Serves(job[i], r) /\ job[i].at # "record"
<1>1. i \notin Senders
  <2>. SUFFICES ASSUME i \in Senders
                PROVE  FALSE
    OBVIOUS
  <2>1. {i} \in SUBSET Jobs /\ {i} \subseteq Senders \ {j} /\ j \in Senders
    BY DEF Senders
  <2>2. Cardinality({i}) + 1 <= Cardinality(Senders)
    BY <2>1, JobCounts, JobSets
  <2>3. Cardinality({i}) = 1 /\ Cardinality(Senders) \in Nat
    BY FS_Singleton, JobCounts, JobSets
  <2>. QED  BY <2>2, <2>3 DEF SlotsOK, Width
<1>. QED  BY <1>1 DEF Senders, SendPC, Serves, Holds, Owes

\* A step that takes up nobody but the pending, and has no new mails to record.
LEMMA ServeStill ==
    ASSUME ServeOK, Still,
           \A j \in Jobs : job'[j].at = "record" => job'[j] = job[j]
    PROVE  ServeOK'
<1>1. UNCHANGED <<row, mailed>> /\ (Overlapped => Overlapped')
  BY DEF Still, Overlapped
<1>2. ASSUME NEW j \in Jobs, NEW r \in Rows, Serves(job'[j], r)
      PROVE  Serves(job[j], r) \/ row[r] = "pending"
  BY <1>2 DEF Still, Serves, Owes
<1>. QED  BY <1>1, <1>2 DEF ServeOK

\* A step of one job that serves.
LEMMA ServeOne ==
    ASSUME Basic, ServeOK, SlotsOK, NEW j \in Jobs, job[j].at \in SendPC, marks' = marks,
           \A i \in Jobs \ {j} : job'[i] = job[i],
           \A r \in Rows :
               /\ mailed[r] > 0 => mailed'[r] > 0
               /\ Serves(job'[j], r) => Serves(job[j], r) /\ row'[r] = row[r]
               /\ job'[j].at = "record" /\ r \in job'[j].sent => mailed'[r] > 0
    PROVE  ServeOK'
<1>. SUFFICES ASSUME NEW i \in Jobs, NEW r \in Rows
              PROVE  /\ ~Overlapped /\ Serves(job'[i], r) => row'[r] = "pending"
                     /\ job'[i].at = "record" /\ r \in job'[i].sent => mailed'[r] > 0
  BY DEF ServeOK, Overlapped
<1>1. CASE i = j
  BY <1>1 DEF ServeOK
<1>2. CASE i # j
  <2>1. job'[i] = job[i] /\ (~Overlapped => ~Serves(job[i], r))
    BY <1>2, OneSender
  <2>. QED  BY <2>1 DEF ServeOK
<1>. QED  BY <1>1, <1>2

LEMMA RecordServes ==
    ASSUME Basic, ServeOK, MailsOK, NEW j \in Jobs, NEW p \in Rows,
           Suppress(j, p) \/ Record(j, p)
    PROVE  ServeOK'
<1>0. /\ job \in [Jobs -> Job] /\ job[j] \in Job /\ Apart(job[j]) /\ job[j].at \in SendPC
      /\ UNCHANGED <<mailed, marks>>
      /\ \A r \in Rows \ {p} : row'[r] = row[r]
      /\ \A i \in Jobs \ {j} : job'[i] = job[i]
  BY DEF Basic, TypeOK, MailsOK, ApartOK, Suppress, Record, history, SendPC
<1>1. CASE Suppress(j, p)
  <2>1. /\ job'[j].at = "batch" /\ job[j].at = "batch"
        /\ job'[j].batch = job[j].batch \ {p} /\ job'[j].left = job[j].left
        /\ p \notin job[j].left
    BY <1>0, <1>1 DEF Suppress, Job, Apart
  <2>2. \A r \in Rows : Serves(job'[j], r) => Serves(job[j], r) /\ r # p
    BY <2>1 DEF Serves, Holds, Owes
  <2>. QED  BY <1>0, <2>1, <2>2, ServeOne DEF MailsOK
<1>2. CASE Record(j, p)
  <2>. DEFINE v == [job[j] EXCEPT !.batch = @ \ {p}, !.sent = @ \ {p},
           !.at = IF job[j].batch = {p} THEN AfterBatch(j) ELSE @]
  <2>1. job'[j] = v /\ job[j].at = "record" /\ p \notin job[j].left
    BY <1>0, <1>2 DEF Record, Apart
  <2>2. /\ v.batch = job[j].batch \ {p} /\ v.left = job[j].left
        /\ v.sent = job[j].sent \ {p}
        /\ v.at = IF job[j].batch = {p} THEN AfterBatch(j) ELSE "record"
    BY <1>0, <2>1 DEF Job
  <2>. HIDE DEF v
  <2>3. \A r \in Rows : Serves(v, r) => Serves(job[j], r) /\ r # p
    BY <1>0, <2>1, <2>2 DEF Serves, Holds, Owes, AfterBatch
  <2>4. \A r \in Rows : v.at = "record" /\ r \in v.sent => mailed[r] > 0
    BY <2>1, <2>2 DEF ServeOK, AfterBatch
  <2>. QED  BY <1>0, <2>1, <2>3, <2>4, ServeOne DEF MailsOK
<1>. QED  BY <1>1, <1>2

LEMMA MailServes ==
    ASSUME Basic, ServeOK, MailsOK, NEW j \in Jobs, Mail(j)
    PROVE  ServeOK'
<1>0. /\ job \in [Jobs -> Job] /\ job[j] \in Job /\ job[j].at = "batch"
      /\ mailed \in [Rows -> Nat] /\ UNCHANGED <<row, marks>>
      /\ \A i \in Jobs \ {j} : job'[i] = job[i]
  BY DEF Basic, TypeOK, Mail
<1>1. PICK S \in SUBSET job[j].batch :
        /\ mailed' = [r \in Rows |-> IF r \in S THEN mailed[r] + 1 ELSE mailed[r]]
        /\ job' = [job EXCEPT ![j].sent = S,
               ![j].at = IF job[j].batch = {} THEN AfterBatch(j) ELSE "record"]
  BY DEF Mail
<1>2. /\ job'[j].sent = S /\ job'[j].batch = job[j].batch /\ job'[j].left = job[j].left
      /\ job'[j].at = IF job[j].batch = {} THEN AfterBatch(j) ELSE "record"
  BY <1>0, <1>1 DEF Job
<1>3. \A r \in Rows : Serves(job'[j], r) => Serves(job[j], r)
  BY <1>0, <1>2 DEF Serves, Holds, Owes, AfterBatch
<1>4. \A r \in Rows : /\ mailed[r] > 0 => mailed'[r] > 0
                      /\ r \in S => mailed'[r] > 0
  BY <1>0, <1>1
<1>5. job[j].at \in SendPC
  BY <1>0 DEF SendPC
<1>. QED  BY <1>0, <1>2, <1>3, <1>4, <1>5, ServeOne DEF MailsOK

\* Steps after which no job is further than before the first mail of its batch.
LEMMA NoRecord ==
    ASSUME Basic, NEW j \in Jobs, NEW v, job' = [job EXCEPT ![j] = v], v.at # "record"
    PROVE  \A i \in Jobs : job'[i].at = "record" => job'[i] = job[i]
  BY DEF Basic, TypeOK

\* Jobs that are given back, and those that wait, hold and owe nothing.
LEMMA ServeSettled ==
    ASSUME ServeOK, UNCHANGED <<row, mailed>>, marks \subseteq marks',
           \A j \in Jobs : job'[j].at \in SendPC => job'[j] = job[j]
    PROVE  ServeOK'
<1>1. Overlapped => Overlapped'
  BY DEF Overlapped
<1>2. ASSUME NEW j \in Jobs, NEW r \in Rows, job'[j].at \notin SendPC
      PROVE  ~Serves(job'[j], r) /\ job'[j].at # "record"
  BY <1>2 DEF Serves, Holds, Owes, SendPC
<1>. QED  BY <1>1, <1>2 DEF ServeOK

LEMMA SettledServes ==
    ASSUME Basic, ApartOK, ServeOK,
           \/ \E q \in Requests :
                \/ Send(q) \/ Schedule(q) \/ Pause(q) \/ Resume(q) \/ Cancel(q) \/ Delete(q)
                \/ Answer(q)
           \/ \E j \in Jobs :
                \/ BeginScheduled(j) \/ Launch(j) \/ Enqueue(j) \/ FailScheduled(j)
                \/ Recover(j) \/ Complete(j) \/ Fail(j)
           \/ Crash
    PROVE  ServeOK'
<1>1. CASE \/ \E q \in Requests :
               \/ Send(q) \/ Schedule(q) \/ Pause(q) \/ Resume(q) \/ Cancel(q) \/ Delete(q)
               \/ Answer(q)
           \/ \E j \in Jobs :
               BeginScheduled(j) \/ Launch(j) \/ Enqueue(j) \/ FailScheduled(j) \/ Recover(j)
  <2>1. Settled /\ Still
    BY <1>1, RequestsSettle, RequestsStill, QueueSettles, QueueStill, BeginStill
  <2>. QED  BY <2>1, ServeSettled DEF Settled, Still
<1>2. ASSUME NEW j \in Jobs, Complete(j) \/ Fail(j)
      PROVE  ServeOK'
  <2>1. PICK v \in {NoJob, Retried(j)} : job' = [job EXCEPT ![j] = v]
    BY <1>2 DEF Complete, Fail
  <2>2. v.at \notin SendPC
    BY <2>1, RetriedOK DEF NoJob, SendPC
  <2>3. UNCHANGED <<row, mailed>> /\ marks \subseteq marks'
    BY <1>2 DEF Complete, Fail, Mark
  <2>. QED  BY <2>1, <2>2, <2>3, JobSettles, ServeSettled
<1>3. CASE Crash
  <2>1. Settled /\ UNCHANGED <<row, mailed>> /\ marks \subseteq marks'
    BY <1>3, CrashSettles DEF Crash, Mark
  <2>. QED  BY <2>1, ServeSettled DEF Settled
<1>. QED  BY <1>1, <1>2, <1>3

LEMMA TakenUpServes ==
    ASSUME Basic, ApartOK, ServeOK, NEW j \in Jobs, Begin(j) \/ Fetch(j) \/ Check(j)
    PROVE  ServeOK'
<1>0. job \in [Jobs -> Job] /\ job[j] \in Job /\ Retried(j).at # "record"
  BY RetriedOK DEF Basic, TypeOK
<1>1. Still
  BY BeginStill, FetchStill
<1>2. CASE Begin(j)
  <2>1. PICK v \in {[job[j] EXCEPT !.at = "fetch"], NoJob, Retried(j)} :
          job' = [job EXCEPT ![j] = v]
    BY <1>2 DEF Begin, GoTo
  <2>2. v.at # "record"
    BY <1>0, <2>1 DEF NoJob, Job
  <2>. QED  BY <1>1, <2>1, <2>2, NoRecord, ServeStill
<1>3. CASE Fetch(j)
  <2>1. job'[j].at # "record" /\ \A i \in Jobs \ {j} : job'[i] = job[i]
    BY <1>0, <1>3 DEF Fetch, Job
  <2>. QED  BY <1>1, <2>1, ServeStill
<1>4. CASE Check(j)
  <2>1. PICK v : job' = [job EXCEPT ![j] = v] /\ v.at \in {"complete", "batch"}
    <3>1. [job[j] EXCEPT !.at = "complete"].at = "complete"
      BY <1>0 DEF Job
    <3>2. \A S, T : [job[j] EXCEPT !.batch = S, !.left = T, !.at = "batch"].at = "batch"
      BY <1>0 DEF Job
    <3>3. CASE GoTo(j, "complete")
      BY <3>1, <3>3 DEF GoTo
    <3>4. ASSUME NEW S, NEW T,
                 job' = [job EXCEPT ![j].batch = S, ![j].left = T, ![j].at = "batch"]
          PROVE  \E v : job' = [job EXCEPT ![j] = v] /\ v.at \in {"complete", "batch"}
      <4>1. job' = [job EXCEPT ![j] = [job[j] EXCEPT !.batch = S, !.left = T, !.at = "batch"]]
        BY <1>0, <3>4
      <4>. QED  BY <3>2, <4>1
    <3>. QED  BY <1>4, <3>3, <3>4 DEF Check
  <2>. QED  BY <1>1, <2>1, NoRecord, ServeStill
<1>. QED  BY <1>2, <1>3, <1>4

LEMMA ServeNext ==
    ASSUME Basic, MailsOK, ServeOK, [Next]_vars
    PROVE  ServeOK'
<1>1. CASE UNCHANGED vars
  BY <1>1, ServeSettled DEF vars
<1>2. CASE Step
  BY <1>2, SettledServes, TakenUpServes, MailServes, RecordServes DEF Step, Work, MailsOK
<1>. QED  BY <1>1, <1>2 DEF Next

LEMMA ServeAlways == Spec => []ServeInv
<1>1. Init => SentOK /\ MailsOK /\ ServeOK
  <2>1. Init => SentOK
    BY DEF Init, SentOK, Covers, NoJob, SendPC
  <2>2. Init => MailsOK
    BY MailsInit
  <2>3. Init => ServeOK
    BY DEF Init, ServeOK, Serves, Holds, Owes, NoJob
  <2>. QED  BY <2>1, <2>2, <2>3
<1>2. Basic /\ Basic' /\ SentOK /\ MailsOK /\ ServeOK /\ [Next]_vars
        => SentOK' /\ MailsOK' /\ ServeOK'
  BY SentInductive, MailsNext, ServeNext
<1>. QED  BY <1>1, <1>2, CampaignInductive, PTL DEF Spec, ServeInv

\* A request or a job writes the status: the campaign is stopped or goes back.
LEMMA StatusMoves ==
    ASSUME UNCHANGED <<row, mailed>>, NEW s, Write(s), s # "sent", Mark("stopped", Stops(s))
    PROVE  [Abstract!Next]_(Abstract!mvars)
<1>1. (Overlapped <=> Overlapped') /\ (Stopped' <=> Stopped \/ Stops(s))
  BY DEF Mark, Overlapped, Stopped
<1>2. Overlapped' = Overlapped
  BY <1>1 DEF Overlapped
<1>3. CASE status = "sent"
  <2>1. status' # "sent" /\ Stopped' = Stopped
    BY <1>1, <1>3 DEF Write, Stops, Stopped
  <2>. QED  BY <1>2, <1>3, <2>1 DEF Abstract!Next, Abstract!Reopen
<1>4. CASE status # "sent" /\ Stops(s)
  <2>1. status' # "sent" /\ Stopped' = TRUE
    BY <1>1, <1>4 DEF Write, Stops, Stopped
  <2>. QED  BY <1>2, <1>4, <2>1 DEF Abstract!Next, Abstract!Stop
<1>5. CASE status # "sent" /\ ~Stops(s)
  <2>1. status' # "sent" /\ Stopped' = Stopped
    BY <1>1, <1>5 DEF Write, Stopped
  <2>. QED  BY <1>2, <1>5, <2>1 DEF Abstract!mvars
<1>. QED  BY <1>3, <1>4, <1>5

LEMMA MarksLost ==
    ASSUME UNCHANGED <<row, mailed, status>>, NEW P, Mark("lost", P) \/ UNCHANGED marks
    PROVE  UNCHANGED Abstract!mvars
  BY DEF Mark, Overlapped, Stopped, Abstract!mvars

LEMMA RequestsPromised ==
    ASSUME NEW q \in Requests,
           \/ Send(q) \/ Schedule(q) \/ Pause(q) \/ Resume(q) \/ Cancel(q) \/ Delete(q)
           \/ Answer(q)
    PROVE  [Abstract!Next]_(Abstract!mvars)
<1>1. ASSUME NEW op, NEW s, NEW label, Then(q, op, s, label), s # "sent"
      PROVE  [Abstract!Next]_(Abstract!mvars)
  BY <1>1, StatusMoves DEF Then
<1>2. CASE WriteSending(q) \/ WriteScheduled(q) \/ WritePaused(q)
             \/ WriteResumed(q) \/ WriteCancelled(q) \/ DeleteRow(q)
  BY <1>1, <1>2 DEF WriteSending, WriteScheduled, WritePaused, WriteResumed,
     WriteCancelled, DeleteRow
<1>3. CASE \/ Send(q) \/ Schedule(q) \/ Pause(q) \/ Resume(q) \/ Cancel(q) \/ Delete(q)
           \/ Add(q) \/ List(q)
  BY <1>3, MarksLost DEF Send, Schedule, Pause, Resume, Cancel, Delete, Ask, Add, List, history
<1>4. CASE Remove(q)
  <2>1. /\ UNCHANGED <<status, row, mailed>>
        /\ Mark("lost", TRUE) \/ UNCHANGED marks
    BY <1>4 DEF Remove, Mark
  <2>. QED  BY <2>1, MarksLost
<1>. QED  BY <1>2, <1>3, <1>4 DEF Answer

LEMMA MailPromised ==
    ASSUME Basic, ServeOK, NEW j \in Jobs, Mail(j)
    PROVE  Abstract!Next
<1>1. PICK S \in SUBSET job[j].batch :
        mailed' = [r \in Rows |-> IF r \in S THEN mailed[r] + 1 ELSE mailed[r]]
  BY DEF Mail
<1>2. S \in SUBSET Rows /\ \A r \in S : Serves(job[j], r)
  BY DEF Mail, Basic, TypeOK, Job, Serves, Holds
<1>3. Abstract!Mail(S)
  BY <1>1, <1>2 DEF Abstract!Mail, Abstract!Open, ServeOK, Mail, Overlapped, Stopped
<1>. QED  BY <1>2, <1>3 DEF Abstract!Next

LEMMA RecordPromised ==
    ASSUME Basic, ServeOK, NEW j \in Jobs, NEW r \in Rows, Suppress(j, r) \/ Record(j, r)
    PROVE  Abstract!Next
<1>1. Abstract!Open(r) /\ UNCHANGED <<mailed, status, marks>>
  BY DEF Suppress, Record, Serves, Holds, Owes, ServeOK, Abstract!Open, history
<1>2. PICK outcome \in {"sent", "failed"} :
        /\ row' = [row EXCEPT ![r] = outcome]
        /\ outcome = "sent" => mailed[r] > 0
  BY DEF Suppress, Record, ServeOK
<1>3. Abstract!Settle(r, outcome)
  BY <1>1, <1>2 DEF Abstract!Settle, Overlapped, Stopped
<1>. QED  BY <1>3 DEF Abstract!Next

LEMMA CompletePromised ==
    ASSUME SentOK, NEW j \in Jobs, Complete(j)
    PROVE  [Abstract!Next]_(Abstract!mvars)
<1>1. ~Unserved /\ UNCHANGED <<row, mailed, marks>>
  BY DEF Complete, SentOK, Covers, SendPC
<1>2. CASE status = "deleted"
  BY <1>1, <1>2 DEF Complete, Write, Abstract!mvars, Overlapped, Stopped
<1>3. CASE status # "deleted"
  <2>1. status' = "sent"
    BY <1>3 DEF Complete, Write, Completed
  <2>2. Abstract!Finish
    BY <1>1, <2>1 DEF Abstract!Finish, Unserved, ReadPending, Overlapped, Stopped
  <2>. QED  BY <2>2 DEF Abstract!Next
<1>. QED  BY <1>2, <1>3

LEMMA JobsPromised ==
    ASSUME NEW j \in Jobs,
           \/ Begin(j) \/ Fetch(j) \/ Check(j) \/ Fail(j)
           \/ BeginScheduled(j) \/ Launch(j) \/ Enqueue(j) \/ FailScheduled(j) \/ Recover(j)
    PROVE  [Abstract!Next]_(Abstract!mvars)
<1>1. CASE Begin(j)
  <2>1. /\ UNCHANGED <<status, row, mailed>> /\ Stopped' = Stopped
        /\ Overlapped' # Overlapped => status = "sending" /\ Overlapped' = TRUE
    BY <1>1 DEF Begin, Mark, Stopped, Overlapped
  <2>. QED  BY <2>1 DEF Abstract!Next, Abstract!Overlap, Abstract!mvars
<1>2. CASE Fail(j)
  <2>1. CASE Write("failed") /\ Mark("stopped", Stops("failed"))
    BY <1>2, <2>1, StatusMoves DEF Fail
  <2>2. CASE Mark("lost", GivesUp(j)) /\ UNCHANGED status
    BY <1>2, <2>2, MarksLost DEF Fail
  <2>. QED  BY <1>2, <2>1, <2>2 DEF Fail
<1>3. CASE Launch(j)
  <2>1. status' # "sent"
    BY <1>3 DEF Launch, Write
  <2>2. UNCHANGED <<row, mailed, marks>>
    BY <1>3 DEF Launch
  <2>. QED  BY <2>1, <2>2 DEF Abstract!Next, Abstract!Reopen, Abstract!mvars, Overlapped, Stopped
<1>4. CASE \/ Fetch(j) \/ Check(j) \/ BeginScheduled(j) \/ Enqueue(j)
           \/ FailScheduled(j) \/ Recover(j)
  <2>1. /\ UNCHANGED <<status, row, mailed>>
        /\ \E P \in BOOLEAN : Mark("lost", P) \/ UNCHANGED marks
    BY <1>4 DEF Fetch, Check, BeginScheduled, Enqueue, FailScheduled, Recover, history, Mark
  <2>. QED  BY <2>1, MarksLost
<1>. QED  BY <1>1, <1>2, <1>3, <1>4

\* The sending of a campaign keeps the promises of Mailing, for any number of
\* recipients, jobs and slots, through pauses, resumes, crashes and errors: a run
\* of handleSendCampaign takes up who is pending, records what the provider said,
\* and completes what nobody stopped only when nobody is pending.
THEOREM MailsAsPromised == Spec => MailingSpec
<1>1. Init => Abstract!Init
  BY DEF Init, Abstract!Init, Stopped, Overlapped
<1>2. ServeInv /\ [Next]_vars => [Abstract!Next]_(Abstract!mvars)
  <2>. SUFFICES ASSUME ServeInv, [Next]_vars
                PROVE  [Abstract!Next]_(Abstract!mvars)
    OBVIOUS
  <2>1. ASSUME NEW q \in Requests,
               \/ Send(q) \/ Schedule(q) \/ Pause(q) \/ Resume(q) \/ Cancel(q) \/ Delete(q)
               \/ Answer(q)
        PROVE  [Abstract!Next]_(Abstract!mvars)
    BY <2>1, RequestsPromised
  <2>2. ASSUME NEW j \in Jobs, NEW r \in Rows, Suppress(j, r) \/ Record(j, r)
        PROVE  [Abstract!Next]_(Abstract!mvars)
    BY <2>2, RecordPromised DEF ServeInv
  <2>3. ASSUME NEW j \in Jobs, Work(j) \/ Fail(j) \/ FailScheduled(j)
        PROVE  [Abstract!Next]_(Abstract!mvars)
    BY <2>2, <2>3, JobsPromised, MailPromised, CompletePromised DEF Work, ServeInv
  <2>4. CASE Crash
    BY <2>4, MarksLost DEF Crash
  <2>5. CASE UNCHANGED vars
    BY <2>5 DEF vars, Abstract!mvars, Stopped, Overlapped
  <2>. QED  BY <2>1, <2>2, <2>3, <2>4, <2>5 DEF Next, Step
<1>. QED  BY <1>1, <1>2, ServeAlways, PTL DEF Spec, MailingSpec, Abstract!Spec

-----------------------------------------------------------------------------
(* What follows from the promises of Mailing.                                *)

Promised ==
    /\ row \in [Rows -> {"pending", "sent", "failed"}]
    /\ mailed \in [Rows -> Nat]
    /\ Abstract!Honest
    /\ Abstract!Thorough

LEMMA PromisedStep ==
    ASSUME Promised, [Abstract!Next]_(Abstract!mvars)
    PROVE  Promised'
<1>1. ASSUME NEW S \in SUBSET Rows, Abstract!Mail(S)
      PROVE  Promised'
  <2>1. /\ mailed' = [r \in Rows |-> IF r \in S THEN mailed[r] + 1 ELSE mailed[r]]
        /\ UNCHANGED <<row, Stopped>> /\ (status = "sent")' = (status = "sent")
    BY <1>1 DEF Abstract!Mail
  <2>2. \A r \in Rows : mailed'[r] \in Nat /\ mailed'[r] >= mailed[r]
    BY <2>1 DEF Promised
  <2>3. mailed' \in [Rows -> Nat]
    BY <2>1, <2>2
  <2>4. Abstract!Honest'
    BY <2>1, <2>2 DEF Promised, Abstract!Honest
  <2>. QED  BY <2>1, <2>3, <2>4 DEF Promised, Abstract!Thorough
<1>2. ASSUME NEW r \in Rows, NEW outcome \in {"sent", "failed"}, Abstract!Settle(r, outcome)
      PROVE  Promised'
  <2>1. /\ row' = [row EXCEPT ![r] = outcome] /\ (outcome = "sent" => mailed[r] > 0)
        /\ UNCHANGED <<mailed, Stopped>> /\ (status = "sent")' = (status = "sent")
    BY <1>2 DEF Abstract!Settle
  <2>2. \A x \in Rows : row'[x] = IF x = r THEN outcome ELSE row[x]
    BY <2>1 DEF Promised
  <2>3. row' \in [Rows -> {"pending", "sent", "failed"}] /\ mailed' \in [Rows -> Nat]
    BY <2>1 DEF Promised
  <2>4. Abstract!Honest'
    BY <2>1, <2>2 DEF Promised, Abstract!Honest
  <2>5. Abstract!Thorough'
    BY <2>1, <2>2 DEF Promised, Abstract!Thorough
  <2>. QED  BY <2>3, <2>4, <2>5 DEF Promised
<1>3. CASE Abstract!Finish
  BY <1>3 DEF Promised, Abstract!Finish, Abstract!Honest, Abstract!Thorough
<1>4. CASE Abstract!Reopen
  BY <1>4 DEF Promised, Abstract!Reopen, Abstract!Honest, Abstract!Thorough
<1>5. CASE Abstract!Stop \/ Abstract!Overlap
  BY <1>5 DEF Promised, Abstract!Stop, Abstract!Overlap, Abstract!Honest, Abstract!Thorough
<1>6. CASE UNCHANGED Abstract!mvars
  BY <1>6 DEF Promised, Abstract!mvars, Abstract!Honest, Abstract!Thorough
<1>. QED  BY <1>1, <1>2, <1>3, <1>4, <1>5, <1>6 DEF Abstract!Next

\* Whoever keeps the promises of Mailing marks as sent only who was mailed, and is
\* done, unless stopped, only when nobody is pending.
LEMMA PromisesKept == MailingSpec => [](Abstract!Honest /\ Abstract!Thorough)
<1>1. Abstract!Init => Promised
  BY DEF Abstract!Init, Promised, Abstract!Honest, Abstract!Thorough
<1>2. Promised => Abstract!Honest /\ Abstract!Thorough
  BY DEF Promised
<1>. QED  BY <1>1, <1>2, PromisedStep, PTL DEF MailingSpec, Abstract!Spec

\* A row of a recipient says SENT only when the provider took a mail for him, through
\* whatever crash or error between the mail and the row.
THEOREM SentWasMailed == Spec => [](Abstract!Honest /\ Abstract!Thorough)
  BY MailsAsPromised, PromisesKept, PTL
-----------------------------------------------------------------------------
(* No job goes on for ever.                                                  *)

\* How far the points of a run are from its end, within a round of the loop too.
Place ==
    [free |-> 0, stalled |-> 1, complete |-> 2, check |-> 3, record |-> 4, batch |-> 5,
     fetch |-> 6, enqueue |-> 7, launch |-> 8, waiting |-> 9]

Loop == {"check", "batch", "record"}

Shrinks(S, T) == T \subseteq S /\ T # S

\* The job v is done, or tried once more, or recovered once more, or at a later point:
\* in the loop there are fewer recipients left, or the batch is further on.
Near(v, u) ==
    \/ u.at = "free"
    \/ v.tries < u.tries /\ u.tries < Attempts
    \/ v.tries = u.tries /\ v.stalls < u.stalls /\ u.stalls <= MaxStalls
    \/ /\ v.tries = u.tries /\ v.stalls = u.stalls
       /\ IF v.at \in Loop /\ u.at \in Loop
          THEN \/ Shrinks(v.left, u.left)
               \/ /\ u.left = v.left
                  /\ \/ Place[u.at] < Place[v.at]
                     \/ u.at = v.at /\ Shrinks(v.batch, u.batch)
          ELSE Place[u.at] < Place[v.at]

Nearer(j) == Near(job[j], job'[j])

\* The loop comes to its head for a batch only when somebody is left.
Supplied(v) == v.at = "check" => v.left # {}
AllSupplied == \A j \in Jobs : Supplied(job[j])

\* The steps of the job itself.
Works(j) == Work(j) \/ \E r \in Rows : Suppress(j, r)

\* The job comes nearer, and at most a new one is added.
Advance(j) ==
    /\ job[j].at # "free" /\ Nearer(j) /\ Supplied(job'[j])
    /\ \A i \in Jobs \ {j} :
        \/ job'[i] = job[i]
        \/ job[i].at = "free" /\ Supplied(job'[i])

LEMMA Advanced ==
    ASSUME Basic, NEW j \in Jobs, NEW v, job' = [job EXCEPT ![j] = v],
           job[j].at # "free", Near(job[j], v), Supplied(v)
    PROVE  Advance(j)
<1>1. job \in [Jobs -> Job]
  BY DEF Basic, TypeOK
<1>2. job'[j] = v /\ \A i \in Jobs \ {j} : job'[i] = job[i]
  BY <1>1
<1>. QED  BY <1>2 DEF Advance, Nearer

LEMMA EndAdvances ==
    ASSUME Basic, NEW j \in Jobs, job[j].at # "free",
           job' = [job EXCEPT ![j] = NoJob] \/ job' = [job EXCEPT ![j] = Retried(j)]
    PROVE  Advance(j)
<1>1. Near(job[j], NoJob) /\ Supplied(NoJob)
  BY DEF NoJob, Near, Supplied
<1>2. Near(job[j], Retried(j)) /\ Supplied(Retried(j))
  <2>1. CASE job[j].tries + 1 < Attempts
    <3>1. job[j].tries \in Nat /\ Attempts \in Nat
      BY QueueAssumption DEF Basic, TypeOK, Job
    <3>2. Retried(j).tries = job[j].tries + 1 /\ Retried(j).at = "waiting"
      BY <2>1 DEF Retried, NewJob, NoJob
    <3>. QED  BY <2>1, <3>1, <3>2 DEF Near, Supplied
  <2>2. CASE ~(job[j].tries + 1 < Attempts)
    BY <1>1, <2>2 DEF Retried
  <2>. QED  BY <2>1, <2>2
<1>. QED  BY <1>1, <1>2, Advanced

LEMMA PointAdvances ==
    ASSUME Basic, NEW j \in Jobs, NEW v, job' = [job EXCEPT ![j] = v],
           v.tries = job[j].tries, v.stalls = job[j].stalls,
           \/ job[j].at = "waiting" /\ v.at \in {"fetch", "launch"}
           \/ job[j].at = "launch" /\ v.at = "enqueue"
           \/ job[j].at = "fetch" /\ v.at \in {"check", "complete"}
           \/ job[j].at \in Loop /\ v.at = "complete",
           Supplied(v)
    PROVE  Advance(j)
<1>1. Place[v.at] < Place[job[j].at] /\ ~(job[j].at \in Loop /\ v.at \in Loop)
  BY DEF Place, Loop
<1>2. job[j].at # "free" /\ Near(job[j], v)
  BY <1>1 DEF Near, Loop
<1>. QED  BY <1>2, Advanced

LEMMA LoopAdvances ==
    ASSUME Basic, NEW j \in Jobs, NEW v, job' = [job EXCEPT ![j] = v],
           v.tries = job[j].tries, v.stalls = job[j].stalls,
           job[j].at \in Loop, v.at \in Loop,
           \/ Shrinks(job[j].left, v.left)
           \/ v.left = job[j].left /\ Place[v.at] < Place[job[j].at]
           \/ v.left = job[j].left /\ v.at = job[j].at /\ Shrinks(job[j].batch, v.batch),
           Supplied(v)
    PROVE  Advance(j)
<1>1. job[j].at # "free" /\ Near(job[j], v)
  BY DEF Near, Loop
<1>. QED  BY <1>1, Advanced

LEMMA BeginAdvances ==
    ASSUME Basic, NEW j \in Jobs,
           \/ Begin(j) \/ Fetch(j) \/ Complete(j)
           \/ BeginScheduled(j) \/ Launch(j) \/ Recover(j)
    PROVE  Advance(j)
<1>1. job \in [Jobs -> Job] /\ job[j] \in Job
  BY DEF Basic, TypeOK
<1>2. ASSUME NEW label, GoTo(j, label),
             \/ job[j].at = "waiting" /\ label \in {"fetch", "launch"}
             \/ job[j].at = "launch" /\ label = "enqueue"
      PROVE  Advance(j)
  <2>1. PICK v : v = [job[j] EXCEPT !.at = label]
    OBVIOUS
  <2>2. job' = [job EXCEPT ![j] = v]
    BY <1>2, <2>1 DEF GoTo
  <2>3. v.at = label /\ v.tries = job[j].tries /\ v.stalls = job[j].stalls /\ Supplied(v)
    BY <1>1, <1>2, <2>1 DEF Job, Supplied
  <2>. QED  BY <1>2, <2>2, <2>3, PointAdvances
<1>3. CASE Begin(j)
  BY <1>2, <1>3, EndAdvances DEF Begin
<1>4. CASE Fetch(j)
  <2>1. PICK v : v = [job[j] EXCEPT !.left = ReadPending,
                          !.at = IF ReadPending = {} THEN "complete" ELSE "check"]
    OBVIOUS
  <2>2. job' = [job EXCEPT ![j] = v]
    BY <1>4, <2>1 DEF Fetch
  <2>3. /\ v.at = (IF ReadPending = {} THEN "complete" ELSE "check")
        /\ v.left = ReadPending /\ v.tries = job[j].tries /\ v.stalls = job[j].stalls
    BY <1>1, <2>1 DEF Job
  <2>4. v.at \in {"check", "complete"} /\ Supplied(v)
    BY <2>3 DEF Supplied
  <2>. QED  BY <1>4, <2>2, <2>3, <2>4, PointAdvances DEF Fetch
<1>5. CASE Complete(j)
  BY <1>5, EndAdvances DEF Complete
<1>6. CASE BeginScheduled(j)
  BY <1>2, <1>6, EndAdvances DEF BeginScheduled
<1>7. CASE Launch(j)
  BY <1>2, <1>7 DEF Launch
<1>8. CASE Recover(j)
  <2>1. CASE job[j].stalls < MaxStalls
             /\ job' = [job EXCEPT ![j].at = "waiting", ![j].stalls = @ + 1]
    <3>1. PICK v : v = [job[j] EXCEPT !.at = "waiting", !.stalls = @ + 1]
      OBVIOUS
    <3>2. job' = [job EXCEPT ![j] = v]
      BY <2>1, <3>1
    <3>3. /\ v.at = "waiting" /\ v.tries = job[j].tries /\ v.stalls = job[j].stalls + 1
          /\ job[j].stalls \in Nat /\ MaxStalls \in Nat
      BY <1>1, <3>1, QueueAssumption DEF Job
    <3>4. Near(job[j], v) /\ Supplied(v)
      BY <2>1, <3>3 DEF Near, Supplied
    <3>. QED  BY <1>8, <3>2, <3>4, Advanced DEF Recover
  <2>. QED  BY <1>8, <2>1, EndAdvances DEF Recover
<1>. QED  BY <1>3, <1>4, <1>5, <1>6, <1>7, <1>8

LEMMA CheckAdvances ==
    ASSUME Basic, AllSupplied, NEW j \in Jobs, Check(j)
    PROVE  Advance(j)
<1>1. job \in [Jobs -> Job] /\ job[j] \in Job /\ job[j].at = "check" /\ job[j].left # {}
  BY DEF Basic, TypeOK, AllSupplied, Supplied, Check
<1>2. CASE GoTo(j, "complete")
  <2>1. PICK v : v = [job[j] EXCEPT !.at = "complete"]
    OBVIOUS
  <2>2. job' = [job EXCEPT ![j] = v]
    BY <1>2, <2>1 DEF GoTo
  <2>3. v.at = "complete" /\ v.tries = job[j].tries /\ v.stalls = job[j].stalls /\ Supplied(v)
    BY <1>1, <2>1 DEF Job, Supplied
  <2>. QED  BY <1>1, <2>2, <2>3, PointAdvances DEF Loop
<1>3. ASSUME NEW S \in SUBSET job[j].left,
             Cardinality(S) = BatchSize \/ S = job[j].left,
             job' = [job EXCEPT ![j].batch = S, ![j].left = Rest(j, S), ![j].at = "batch"]
      PROVE  Advance(j)
  <2>1. S # {}
    BY <1>1, <1>3, FS_EmptySet, QueueAssumption
  <2>2. Shrinks(job[j].left, Rest(j, S))
    BY <2>1 DEF Shrinks, Rest
  <2>3. PICK v : v = [job[j] EXCEPT !.batch = S, !.left = Rest(j, S), !.at = "batch"]
    OBVIOUS
  <2>4. job' = [job EXCEPT ![j] = v]
    BY <1>3, <2>3
  <2>5. /\ v.at = "batch" /\ v.left = Rest(j, S)
        /\ v.tries = job[j].tries /\ v.stalls = job[j].stalls /\ Supplied(v)
    BY <1>1, <2>3 DEF Job, Supplied
  <2>. QED  BY <1>1, <2>2, <2>4, <2>5, LoopAdvances DEF Loop
<1>. QED  BY <1>2, <1>3 DEF Check

LEMMA BatchAdvances ==
    ASSUME Basic, NEW j \in Jobs, Mail(j) \/ \E r \in Rows : Suppress(j, r) \/ Record(j, r)
    PROVE  Advance(j)
<1>1. job \in [Jobs -> Job] /\ job[j] \in Job
  BY DEF Basic, TypeOK
\* After a batch, in the loop or out of it.
<1>2. ASSUME NEW v, job' = [job EXCEPT ![j] = v], job[j].at \in {"batch", "record"},
             v.tries = job[j].tries, v.stalls = job[j].stalls, v.left = job[j].left,
             v.at = AfterBatch(j)
      PROVE  Advance(j)
  <2>1. CASE job[j].left = {}
    <3>1. v.at = "complete" /\ Supplied(v)
      BY <1>2, <2>1 DEF AfterBatch, Supplied
    <3>. QED  BY <1>2, <3>1, PointAdvances DEF Loop
  <2>2. CASE job[j].left # {}
    <3>1. v.at = "check" /\ Supplied(v)
      BY <1>2, <2>2 DEF AfterBatch, Supplied
    <3>2. Place[v.at] < Place[job[j].at]
      BY <1>2, <3>1 DEF Place
    <3>. QED  BY <1>2, <3>1, <3>2, LoopAdvances DEF Loop
  <2>. QED  BY <2>1, <2>2
<1>3. CASE Mail(j)
  <2>1. PICK S \in SUBSET job[j].batch :
            job' = [job EXCEPT ![j].sent = S,
                        ![j].at = IF job[j].batch = {} THEN AfterBatch(j) ELSE "record"]
    BY <1>3 DEF Mail
  <2>2. PICK v : v = [job[j] EXCEPT !.sent = S,
                          !.at = IF job[j].batch = {} THEN AfterBatch(j) ELSE "record"]
    OBVIOUS
  <2>3. job' = [job EXCEPT ![j] = v]
    BY <2>1, <2>2
  <2>4. /\ v.at = (IF job[j].batch = {} THEN AfterBatch(j) ELSE "record")
        /\ v.tries = job[j].tries /\ v.stalls = job[j].stalls /\ v.left = job[j].left
    BY <1>1, <2>2 DEF Job
  <2>5. CASE v.at = "record"
    <3>1. Supplied(v) /\ job[j].at = "batch" /\ Place[v.at] < Place[job[j].at]
      BY <1>3, <2>5 DEF Supplied, Mail, Place
    <3>. QED  BY <2>3, <2>4, <2>5, <3>1, LoopAdvances DEF Loop
  <2>. QED  BY <1>2, <1>3, <2>3, <2>4, <2>5 DEF Mail
<1>4. ASSUME NEW r \in Rows, Suppress(j, r)
      PROVE  Advance(j)
  <2>1. PICK v : v = [job[j] EXCEPT !.batch = @ \ {r}]
    OBVIOUS
  <2>2. job' = [job EXCEPT ![j] = v]
    BY <1>4, <2>1 DEF Suppress
  <2>3. /\ v.at = job[j].at /\ v.tries = job[j].tries /\ v.stalls = job[j].stalls
        /\ v.left = job[j].left /\ v.batch = job[j].batch \ {r}
    BY <1>1, <2>1 DEF Job
  <2>4. Supplied(v) /\ job[j].at = "batch" /\ Shrinks(job[j].batch, v.batch)
    BY <1>4, <2>3 DEF Supplied, Suppress, Shrinks
  <2>. QED  BY <2>2, <2>3, <2>4, LoopAdvances DEF Loop
<1>5. ASSUME NEW r \in Rows, Record(j, r)
      PROVE  Advance(j)
  <2>1. PICK v : v = [job[j] EXCEPT !.batch = @ \ {r}, !.sent = @ \ {r},
                          !.at = IF job[j].batch = {r} THEN AfterBatch(j) ELSE @]
    OBVIOUS
  <2>2. job' = [job EXCEPT ![j] = v]
    BY <1>5, <2>1 DEF Record
  <2>3. /\ v.at = (IF job[j].batch = {r} THEN AfterBatch(j) ELSE job[j].at)
        /\ v.tries = job[j].tries /\ v.stalls = job[j].stalls
        /\ v.left = job[j].left /\ v.batch = job[j].batch \ {r}
    BY <1>1, <2>1 DEF Job
  <2>4. CASE job[j].batch = {r}
    BY <1>2, <1>5, <2>2, <2>3, <2>4 DEF Record
  <2>5. CASE job[j].batch # {r}
    <3>1. Supplied(v) /\ job[j].at = "record" /\ v.at = job[j].at
          /\ Shrinks(job[j].batch, v.batch)
      BY <1>5, <2>3, <2>5 DEF Supplied, Record, Shrinks
    <3>. QED  BY <2>2, <2>3, <3>1, LoopAdvances DEF Loop
  <2>. QED  BY <2>4, <2>5
<1>. QED  BY <1>3, <1>4, <1>5

LEMMA EnqueueAdvances ==
    ASSUME Basic, NEW j \in Jobs, Enqueue(j)
    PROVE  Advance(j)
<1>1. job \in [Jobs -> Job]
  BY DEF Basic, TypeOK
<1>2. PICK i \in Jobs : NextJob(i) /\ job' = [job EXCEPT ![i] = NewJob("send"), ![j] = NoJob]
  BY DEF Enqueue
<1>3. job[j].at = "enqueue" /\ job[i].at = "free"
  BY <1>2 DEF Enqueue, NextJob, Free
<1>4. job'[j] = NoJob /\ job'[i] = NewJob("send")
      /\ \A k \in Jobs \ {i, j} : job'[k] = job[k]
  BY <1>1, <1>2, <1>3
<1>5. Nearer(j) /\ Supplied(job'[j]) /\ Supplied(job'[i])
  BY <1>4 DEF Nearer, Near, NoJob, NewJob, Supplied
<1>. QED  BY <1>3, <1>4, <1>5 DEF Advance

\* What happens to the jobs but for their own steps.
LEMMA OthersAdvance ==
    ASSUME Basic, AllSupplied, [Next]_vars, ~\E j \in Jobs : Works(j), NEW i \in Jobs
    PROVE  /\ job[i].at = "free" \/ job'[i] = job[i] \/ Nearer(i)
           /\ Supplied(job'[i])
<1>1. job \in [Jobs -> Job] /\ Supplied(job[i])
  BY DEF Basic, TypeOK, AllSupplied
<1>2. CASE job' = job
  BY <1>1, <1>2
<1>3. ASSUME NEW j \in Jobs, Advance(j)
      PROVE  /\ job[i].at = "free" \/ job'[i] = job[i] \/ Nearer(i)
             /\ Supplied(job'[i])
  <2>1. CASE i = j
    BY <1>3, <2>1 DEF Advance
  <2>2. CASE i # j
    BY <1>1, <1>3, <2>2 DEF Advance
  <2>. QED  BY <2>1, <2>2
<1>4. ASSUME NEW q \in Requests, Add(q)
      PROVE  (job[i].at = "free" \/ job'[i] = job[i]) /\ Supplied(job'[i])
  <2>1. PICK j \in Jobs, k \in {"send", "scheduled"} :
          NextJob(j) /\ job' = [job EXCEPT ![j] = NewJob(k)]
    BY <1>4 DEF Add
  <2>2. job[j].at = "free" /\ Supplied(NewJob(k))
    BY <2>1 DEF NextJob, Free, NewJob, NoJob, Supplied
  <2>. QED  BY <1>1, <2>1, <2>2
<1>5. ASSUME NEW q \in Requests, Remove(q)
      PROVE  (job'[i] = job[i] \/ Nearer(i)) /\ Supplied(job'[i])
  <2>1. CASE UNCHANGED job
    BY <1>1, <2>1
  <2>2. ASSUME NEW j, job' = [job EXCEPT ![j] = NoJob]
        PROVE  (job'[i] = job[i] \/ Nearer(i)) /\ Supplied(job'[i])
    <3>1. job'[i] = job[i] \/ job'[i] = NoJob
      BY <1>1, <2>2
    <3>. QED  BY <1>1, <3>1 DEF Nearer, Near, NoJob, Supplied
  <2>. QED  BY <1>5, <2>1, <2>2 DEF Remove
<1>6. CASE Crash
  <2>1. CASE job[i].at \in Active
    <3>1. job'[i] = [NoJob EXCEPT !.kind = job[i].kind, !.at = "stalled",
                          !.tries = job[i].tries, !.stalls = job[i].stalls]
      BY <1>6, <2>1 DEF Crash
    <3>2. /\ job'[i].at = "stalled" /\ job'[i].tries = job[i].tries
          /\ job'[i].stalls = job[i].stalls
      BY <3>1 DEF NoJob
    <3>3. Place[job'[i].at] < Place[job[i].at]
      BY <2>1, <3>2 DEF Place, Active, SendPC, SchedulePC
    <3>. QED  BY <3>2, <3>3 DEF Nearer, Near, Loop, Supplied
  <2>2. CASE job[i].at \notin Active
    <3>1. job'[i] = job[i]
      BY <1>6, <2>2 DEF Crash
    <3>. QED  BY <1>1, <3>1
  <2>. QED  BY <2>1, <2>2
<1>7. ASSUME NEW j \in Jobs, Fail(j) \/ FailScheduled(j)
      PROVE  Advance(j)
  BY <1>7, EndAdvances DEF Fail, FailScheduled, SendPC, SchedulePC
<1>8. ASSUME NEW q \in Requests,
             \/ Send(q) \/ Schedule(q) \/ Pause(q) \/ Resume(q) \/ Cancel(q) \/ Delete(q)
             \/ WriteSending(q) \/ WriteScheduled(q) \/ WritePaused(q)
             \/ WriteResumed(q) \/ WriteCancelled(q) \/ DeleteRow(q) \/ List(q)
      PROVE  job' = job
  BY <1>8 DEF Send, Schedule, Pause, Resume, Cancel, Delete, Ask, WriteSending,
     WriteScheduled, WritePaused, WriteResumed, WriteCancelled, DeleteRow, Then, List
<1>9. CASE UNCHANGED vars
  BY <1>2, <1>9 DEF vars
<1>10. CASE \E q \in Requests :
             \/ Send(q) \/ Schedule(q) \/ Pause(q) \/ Resume(q) \/ Cancel(q) \/ Delete(q)
             \/ Answer(q)
  BY <1>2, <1>4, <1>5, <1>8, <1>10 DEF Answer
<1>11. CASE \E j \in Jobs : Fail(j) \/ FailScheduled(j)
  BY <1>3, <1>7, <1>11
<1>. QED  BY <1>6, <1>9, <1>10, <1>11 DEF Next, Step, Works

LEMMA WorkAdvances ==
    ASSUME Basic, AllSupplied, NEW j \in Jobs, Works(j)
    PROVE  Advance(j)
  BY BeginAdvances, CheckAdvances, BatchAdvances, EnqueueAdvances DEF Works, Work

LEMMA JobsNear ==
    ASSUME Basic, AllSupplied, [Next]_vars
    PROVE  /\ \A j \in Jobs :
                job[j].at # "free" /\ (Works(j) \/ job'[j] # job[j]) => Nearer(j)
           /\ AllSupplied'
<1>1. CASE \E j \in Jobs : Works(j)
  <2>1. PICK j \in Jobs : Works(j)
    BY <1>1
  <2>2. Advance(j)
    BY <2>1, WorkAdvances
  <2>3. AllSupplied'
    <3>1. ASSUME NEW i \in Jobs
          PROVE  Supplied(job'[i])
      BY <2>2 DEF Advance, AllSupplied
    <3>. QED  BY <3>1 DEF AllSupplied, Supplied
  <2>4. ASSUME NEW i \in Jobs, job[i].at # "free", Works(i) \/ job'[i] # job[i]
        PROVE  Nearer(i)
    <3>1. CASE Works(i)
      BY <3>1, WorkAdvances DEF Advance
    <3>2. CASE job'[i] # job[i]
      BY <2>2, <2>4, <3>2 DEF Advance
    <3>. QED  BY <2>4, <3>1, <3>2
  <2>. QED  BY <2>3, <2>4
<1>2. CASE ~\E j \in Jobs : Works(j)
  <2>1. \A i \in Jobs : /\ job[i].at = "free" \/ job'[i] = job[i] \/ Nearer(i)
                        /\ Supplied(job'[i])
    BY <1>2, OthersAdvance
  <2>. QED  BY <1>2, <2>1 DEF AllSupplied, Supplied
<1>. QED  BY <1>1, <1>2

LEMMA AlwaysSupplied == Spec => [](Basic /\ AllSupplied)
<1>1. Init => AllSupplied
  BY DEF Init, AllSupplied, Supplied, NoJob
<1>2. Basic /\ AllSupplied /\ [Next]_vars => AllSupplied'
  BY JobsNear
<1>. QED  BY <1>1, <1>2, CampaignInductive, PTL DEF Spec

\* Whatever happens to a job brings it nearer to its end, the exits of the process and
\* the other jobs included: a round of the loop takes recipients from those left, an
\* error costs one of the attempts and an exit one of the recoveries.  So no job sends
\* for ever, however often the campaign is paused and resumed.
THEOREM JobsEnd ==
    Spec => [][\A j \in Jobs :
                 job[j].at # "free" /\ (Works(j) \/ job'[j] # job[j]) => Nearer(j)]_vars
<1>1. Basic /\ AllSupplied /\ [Next]_vars =>
        [\A j \in Jobs :
           job[j].at # "free" /\ (Works(j) \/ job'[j] # job[j]) => Nearer(j)]_vars
  BY JobsNear
<1>. QED  BY <1>1, AlwaysSupplied, PTL DEF Spec
=============================================================================
