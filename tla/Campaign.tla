------------------------------ MODULE Campaign ------------------------------
(***************************************************************************)
(* One email campaign: email-campaign.service.ts, which answers the        *)
(* administrators, and email-campaign.processor.ts, which runs the jobs of *)
(* the Bull queue.                                                         *)
(*                                                                         *)
(* The status column is all they have in common.  A request reads it,      *)
(* writes another and changes the queue in separate steps; a job works     *)
(* through the recipients it read when it began, and looks at the status   *)
(* before each batch.  Bull is external: it keeps jobs through a crash,    *)
(* runs a job again that stalled, and tries again one that threw.          *)
(***************************************************************************)
EXTENDS Naturals, FiniteSets

CONSTANTS
    Rows,        \* rows of email_campaign_recipients
    Requests,    \* requests of administrators that may be in flight
    Jobs,        \* job ids; a Nat set, the least free one is taken
    Ops,         \* what administrators ask for
    BatchSize,   \* sendOptions.batchSize
    Slots,       \* jobs of this queue that run at once
    Attempts,    \* notification.module.ts: how often a job is tried
    MaxStalls,   \* Bull's maxStalledCount
    MaxCrashes,  \* bound: how often the process dies
    MaxFaults    \* bound: how many database errors the jobs meet

ASSUME SetsAssumption ==
    /\ IsFiniteSet(Rows) /\ Rows # {} /\ IsFiniteSet(Jobs) /\ Jobs \subseteq Nat
    /\ Ops \subseteq {"send", "schedule", "pause", "resume", "cancel", "delete"}
ASSUME QueueAssumption ==
    /\ BatchSize \in Nat \ {0} /\ Slots \in Nat \ {0}
    /\ Attempts \in Nat /\ MaxStalls \in Nat
ASSUME CampaignBounds == MaxCrashes \in Nat /\ MaxFaults \in Nat

VARIABLES
    status,   \* the campaign's status column; "deleted" when the row is gone
    row,      \* the status column of each recipient
    job,      \* the queue, with the locals of a job that runs
    req,      \* the requests in flight
    mailed,   \* how many mails the provider took for each recipient
    late,     \* mails of a job's run since the campaign last stopped sending
    marks,    \* what happened, see Stopped, Overlapped and Lost
    crashes, faults

vars == <<status, row, job, req, mailed, late, marks, crashes, faults>>
history == <<mailed, marks, crashes, faults>>

CampaignStatus ==
    {"draft", "scheduled", "sending", "sent", "paused", "cancelled", "failed"}
RowStatus == {"pending", "sent", "failed"}

SendPC == {"fetch", "check", "batch", "record", "complete"}
SchedulePC == {"launch", "enqueue"}
Active == SendPC \cup SchedulePC
Job == [kind : {"none", "send", "scheduled"},
        at : {"free", "waiting", "stalled"} \cup Active,
        tries : Nat, stalls : Nat,
        left : SUBSET Rows, batch : SUBSET Rows, sent : SUBSET Rows]
NoJob == [kind |-> "none", at |-> "free", tries |-> 0, stalls |-> 0,
          left |-> {}, batch |-> {}, sent |-> {}]

Request == [op : Ops \cup {"none"}, found : SUBSET Jobs,
            at : {"idle", "write", "add", "list", "remove"}]
NoRequest == [op |-> "none", at |-> "idle", found |-> {}]

TypeOK ==
    /\ status \in CampaignStatus \cup {"deleted"}
    /\ row \in [Rows -> RowStatus]
    /\ job \in [Jobs -> Job]
    /\ req \in [Requests -> Request]
    /\ mailed \in [Rows -> Nat]
    /\ late \in [Jobs -> Nat]
    /\ marks \subseteq {"stopped", "overlapped", "lost"}
    /\ crashes \in Nat
    /\ faults \in Nat

\* create has saved the draft and its recipients.
Init ==
    /\ status = "draft"
    /\ row = [r \in Rows |-> "pending"]
    /\ job = [j \in Jobs |-> NoJob]
    /\ req = [q \in Requests |-> NoRequest]
    /\ mailed = [r \in Rows |-> 0]
    /\ late = [j \in Jobs |-> 0]
    /\ marks = {}
    /\ crashes = 0
    /\ faults = 0

\* Somebody took the campaign out of the sending status before it was sent.
Stopped == "stopped" \in marks
\* Two jobs were sending at the same time.
Overlapped == "overlapped" \in marks
\* A crash, an error or an administrator took away the job that was to send.
Lost == "lost" \in marks

Mark(m, happened) == marks' = marks \cup (IF happened THEN {m} ELSE {})

-----------------------------------------------------------------------------
(* The campaign row and the queue. *)

\* campaignRepository.update: no row, no change.
Write(s) == status' = IF status = "deleted" THEN status ELSE s

Stops(s) == status = "sending" /\ s # "sending"

Live(j) == job[j].kind = "send" /\ job[j].at # "free"

\* An id that no request still has in its list.
Free == {j \in Jobs : job[j].at = "free" /\ \A q \in Requests : j \notin req[q].found}

NewJob(k) == [NoJob EXCEPT !.kind = k, !.at = "waiting"]

\* The id that queue.add gives.
NextJob(j) == j \in Free /\ \A i \in Free : j <= i

\* Bull puts a job back that failed, until its attempts are used up.
Retried(j) ==
    IF job[j].tries + 1 < Attempts
    THEN [NewJob(job[j].kind) EXCEPT !.tries = job[j].tries + 1,
                                     !.stalls = job[j].stalls]
    ELSE NoJob

\* A failing job takes the only chance of a campaign with it.
GivesUp(j) == job[j].tries + 1 >= Attempts /\ status = "sending"

-----------------------------------------------------------------------------
(* Requests: findOne and the checks, then the write, then the queue. *)

Ask(q, op, allowed) ==
    /\ op \in Ops
    /\ req[q].at = "idle"
    /\ status \in allowed
    /\ req' = [req EXCEPT ![q] = [op |-> op, at |-> "write", found |-> {}]]
    /\ UNCHANGED <<status, row, job, history>>

Send(q) == Ask(q, "send", {"draft", "scheduled"})
Schedule(q) == Ask(q, "schedule", {"draft"})
Pause(q) == Ask(q, "pause", {"sending", "scheduled"})
Resume(q) == Ask(q, "resume", {"paused"})
Cancel(q) == Ask(q, "cancel", CampaignStatus \ {"sent"})
Delete(q) == Ask(q, "delete", CampaignStatus \ {"sending"})

\* The second step of each request, and where it goes on.
Then(q, op, s, label) ==
    /\ req[q].at = "write"
    /\ req[q].op = op
    /\ Write(s)
    /\ req' = [req EXCEPT ![q] = IF label = "idle" THEN NoRequest
                                 ELSE [@ EXCEPT !.at = label]]
    /\ Mark("stopped", Stops(s))
    /\ UNCHANGED <<row, job, mailed, crashes, faults>>

WriteSending(q) == Then(q, "send", "sending", "add")
WriteScheduled(q) == Then(q, "schedule", "scheduled", "add")
WritePaused(q) == Then(q, "pause", "paused", "list")
WriteResumed(q) == Then(q, "resume", "sending", "add")
WriteCancelled(q) == Then(q, "cancel", "cancelled", "list")
DeleteRow(q) == Then(q, "delete", "deleted", "idle")

Add(q) ==
    /\ req[q].at = "add"
    /\ \E j \in Jobs :
        /\ NextJob(j)
        /\ job' = [job EXCEPT ![j] =
               NewJob(IF req[q].op = "schedule" THEN "scheduled" ELSE "send")]
    /\ req' = [req EXCEPT ![q] = NoRequest]
    /\ UNCHANGED <<status, row, history>>

\* getJobs: jobs in a slot come last, and to remove one of them throws, so
\* cancel's list differs from pause's in the jobs without a server only.
List(q) ==
    LET found == {j \in Jobs :
            \/ job[j].at = "waiting"
            \/ job[j].at = "stalled" /\ req[q].op = "cancel"}
    IN  /\ req[q].at = "list"
        /\ req' = [req EXCEPT ![q] = IF found = {} THEN NoRequest
                       ELSE [@ EXCEPT !.at = "remove", !.found = found]]
        /\ UNCHANGED <<status, row, job, history>>

\* The request when it is done with a job of its list.
Without(q, j) == IF req[q].found = {j} THEN NoRequest
                 ELSE [req[q] EXCEPT !.found = @ \ {j}]

\* job.remove: throws, and ends the request, when the job is locked.
Remove(q) ==
    /\ req[q].at = "remove"
    /\ \E j \in req[q].found :
        LET rest == [req EXCEPT ![q] = Without(q, j)]
        IN  \/ /\ job[j].at \in {"waiting", "stalled"}
               /\ job' = [job EXCEPT ![j] = NoJob]
               /\ req' = rest
               /\ Mark("lost", Live(j) /\ status = "sending")
            \/ /\ job[j].at = "free"
               /\ req' = rest
               /\ UNCHANGED <<job, marks>>
            \/ /\ job[j].at \in Active \cup {"stalled"}
               /\ req' = [req EXCEPT ![q] = NoRequest]
               /\ UNCHANGED <<job, marks>>
    /\ UNCHANGED <<status, row, mailed, crashes, faults>>

-----------------------------------------------------------------------------
(* The job send-campaign. *)

Slot == Cardinality({j \in Jobs : job[j].at \in Active}) < Slots

GoTo(j, label) == job' = [job EXCEPT ![j].at = label]

\* A job takes a slot and looks at the campaign.  Without the row it throws.
Begin(j) ==
    /\ job[j].kind = "send" /\ job[j].at = "waiting" /\ Slot
    /\ \/ status = "sending" /\ GoTo(j, "fetch")
       \/ /\ status \notin {"sending", "deleted"}
          /\ job' = [job EXCEPT ![j] = NoJob]
       \/ status = "deleted" /\ job' = [job EXCEPT ![j] = Retried(j)]
    /\ Mark("overlapped", status = "sending" /\ \E i \in Jobs \ {j} : job[i].at \in SendPC)
    /\ UNCHANGED <<status, row, req, mailed, crashes, faults>>

\* Mutant: the recipients who were served are read as well.
ReadAll == Rows

\* The recipients a job is to serve.
ReadPending == {r \in Rows : row[r] = "pending"}

\* Mutant: a run that finds nobody ends without a word.
FetchSilent(j) ==
    /\ job[j].at = "fetch"
    /\ job' = [job EXCEPT ![j] = IF ReadPending = {} THEN NoJob
                                 ELSE [@ EXCEPT !.left = ReadPending, !.at = "check"]]
    /\ UNCHANGED <<status, row, req, history>>

Fetch(j) ==
    /\ job[j].at = "fetch"
    /\ job' = [job EXCEPT ![j].left = ReadPending,
                          ![j].at = IF ReadPending = {} THEN "complete" ELSE "check"]
    /\ UNCHANGED <<status, row, req, history>>

\* Mutants: the rest is forgotten, or the index stays where it is.
RestDropped(j, S) == {}
RestStuck(j, S) == job[j].left

\* What is left for later batches.
Rest(j, S) == job[j].left \ S

\* Mutant: the status is looked at once, when the job begins.
StillSendingOnce == TRUE

StillSending == status = "sending"

\* The head of the loop over the batches.
Check(j) ==
    /\ job[j].at = "check"
    /\ \/ ~StillSending /\ GoTo(j, "complete")
       \/ /\ StillSending
          /\ \E S \in SUBSET job[j].left :
              /\ Cardinality(S) <= BatchSize
              /\ Cardinality(S) = BatchSize \/ S = job[j].left
              /\ job' = [job EXCEPT ![j].batch = S, ![j].left = Rest(j, S),
                                    ![j].at = "batch"]
    /\ UNCHANGED <<status, row, req, history>>

\* A suppressed address is not mailed.
Suppress(j, r) ==
    /\ job[j].at = "batch"
    /\ r \in job[j].batch
    /\ row' = [row EXCEPT ![r] = "failed"]
    /\ job' = [job EXCEPT ![j].batch = @ \ {r}]
    /\ UNCHANGED <<status, req, history>>

\* After a batch, the next one or the end.
AfterBatch(j) == IF job[j].left = {} THEN "complete" ELSE "check"

\* sendBulkEmail: the provider takes some of the mails and refuses the others.
Mail(j) ==
    /\ job[j].at = "batch"
    /\ \E S \in SUBSET job[j].batch :
        /\ mailed' = [r \in Rows |-> IF r \in S THEN mailed[r] + 1 ELSE mailed[r]]
        /\ job' = [job EXCEPT ![j].sent = S,
               ![j].at = IF job[j].batch = {} THEN AfterBatch(j) ELSE "record"]
    /\ UNCHANGED <<status, row, req, marks, crashes, faults>>

\* Mutant: who was in the batch is recorded as sent, whatever the provider said.
RecordSent(j, r) ==
    /\ job[j].at = "record"
    /\ r \in job[j].batch
    /\ row' = [row EXCEPT ![r] = "sent"]
    /\ job' = [job EXCEPT ![j].batch = @ \ {r}, ![j].sent = @ \ {r},
           ![j].at = IF job[j].batch = {r} THEN AfterBatch(j) ELSE @]
    /\ UNCHANGED <<status, req, history>>

\* The results are written one by one.
Record(j, r) ==
    /\ job[j].at = "record"
    /\ r \in job[j].batch
    /\ row' = [row EXCEPT ![r] = IF r \in job[j].sent THEN "sent" ELSE "failed"]
    /\ job' = [job EXCEPT ![j].batch = @ \ {r}, ![j].sent = @ \ {r},
           ![j].at = IF job[j].batch = {r} THEN AfterBatch(j) ELSE @]
    /\ UNCHANGED <<status, req, history>>

\* Mutant: the word that orders use.
CompletedAsOrder == "completed"

Completed == "sent"

\* completeCampaign, whether the loop ran to its end or was left.
Complete(j) ==
    /\ job[j].at = "complete"
    /\ Write(Completed)
    /\ job' = [job EXCEPT ![j] = NoJob]
    /\ UNCHANGED <<row, req, mailed, marks, crashes, faults>>

\* A database error ends the run: the campaign is marked as failed, if the
\* database takes that, and Bull tries the job again.
Fail(j) ==
    /\ job[j].at \in SendPC
    /\ faults < MaxFaults
    /\ faults' = faults + 1
    /\ job' = [job EXCEPT ![j] = Retried(j)]
    /\ \/ Write("failed") /\ Mark("stopped", Stops("failed"))
       \/ Mark("lost", GivesUp(j)) /\ UNCHANGED status
    /\ UNCHANGED <<row, req, mailed, crashes>>

-----------------------------------------------------------------------------
(* The job send-scheduled-campaign. *)

\* scheduledAt is a column of whole seconds, so the row may hold a time that is
\* a little later than the job's: then the job ends and nothing comes after it.
BeginScheduled(j) ==
    /\ job[j].kind = "scheduled" /\ job[j].at = "waiting" /\ Slot
    /\ \/ status = "scheduled" /\ GoTo(j, "launch")
       \/ job' = [job EXCEPT ![j] = NoJob]
    /\ UNCHANGED <<status, row, req, history>>

Launch(j) ==
    /\ job[j].at = "launch"
    /\ Write("sending")
    /\ GoTo(j, "enqueue")
    /\ UNCHANGED <<row, req, mailed, marks, crashes, faults>>

Enqueue(j) ==
    /\ job[j].at = "enqueue"
    /\ \E i \in Jobs :
        /\ NextJob(i)
        /\ job' = [job EXCEPT ![i] = NewJob("send"), ![j] = NoJob]
    /\ UNCHANGED <<status, row, req, history>>

\* An error ends the run.  Bull tries again, but from here the status is no
\* longer the one that the job looks for.
FailScheduled(j) ==
    /\ job[j].at \in SchedulePC
    /\ faults < MaxFaults
    /\ faults' = faults + 1
    /\ job' = [job EXCEPT ![j] = Retried(j)]
    /\ Mark("lost", job[j].at = "enqueue")
    /\ UNCHANGED <<status, row, req, mailed, crashes>>

-----------------------------------------------------------------------------
(* The process dies. *)

\* What was in flight is gone; Bull keeps the jobs, without a server.
Crash ==
    /\ crashes < MaxCrashes
    /\ crashes' = crashes + 1
    /\ job' = [j \in Jobs |-> IF job[j].at \in Active
                              THEN [NoJob EXCEPT !.kind = job[j].kind, !.at = "stalled",
                                                 !.tries = job[j].tries,
                                                 !.stalls = job[j].stalls]
                              ELSE job[j]]
    /\ req' = [q \in Requests |-> NoRequest]
    /\ Mark("lost", \/ \E q \in Requests : req[q].at = "add" /\ req[q].op # "schedule"
                    \/ \E j \in Jobs : job[j].at = "enqueue")
    /\ UNCHANGED <<status, row, mailed, faults>>

\* Bull notices a lock that ran out: the job runs again, or, when it has stalled
\* too often, fails for good, whatever attempts it has left.
Recover(j) ==
    /\ job[j].at = "stalled"
    /\ \/ /\ job[j].stalls < MaxStalls
          /\ job' = [job EXCEPT ![j].at = "waiting", ![j].stalls = @ + 1]
          /\ UNCHANGED marks
       \/ /\ job[j].stalls >= MaxStalls
          /\ job' = [job EXCEPT ![j] = NoJob]
          /\ Mark("lost", Live(j) /\ status = "sending")
    /\ UNCHANGED <<status, row, req, mailed, crashes, faults>>

-----------------------------------------------------------------------------
Answer(q) ==
    \/ WriteSending(q) \/ WriteScheduled(q) \/ WritePaused(q)
    \/ WriteResumed(q) \/ WriteCancelled(q) \/ DeleteRow(q)
    \/ Add(q) \/ List(q) \/ Remove(q)

Work(j) ==
    \/ Begin(j) \/ Fetch(j) \/ Check(j) \/ Mail(j)
    \/ \E r \in Rows : Record(j, r)
    \/ Complete(j)
    \/ BeginScheduled(j) \/ Launch(j) \/ Enqueue(j)
    \/ Recover(j)

Step ==
    \/ \E q \in Requests :
        \/ Send(q) \/ Schedule(q) \/ Pause(q) \/ Resume(q) \/ Cancel(q) \/ Delete(q)
        \/ Answer(q)
    \/ \E j \in Jobs :
        \/ Work(j)
        \/ \E r \in Rows : Suppress(j, r)
        \/ Fail(j) \/ FailScheduled(j)
    \/ Crash

\* The mails of a job's batch count as late unless the campaign is being sent.
CountLate ==
    late' = [j \in Jobs |->
        IF status' = "sending" \/ job'[j].at \notin SendPC THEN 0
        ELSE late[j] + IF job[j].at = "batch" THEN Cardinality(job'[j].sent) ELSE 0]

Next == Step /\ CountLate

Spec == Init /\ [][Next]_vars

\* The event loop drives what is in flight, and Bull hands out what is queued.
\* Nothing is assumed of the administrators.
FairSpec ==
    /\ Spec
    /\ \A q \in Requests : WF_vars(Answer(q) /\ CountLate)
    /\ \A j \in Jobs : WF_vars(Work(j) /\ CountLate)

-----------------------------------------------------------------------------
(* Properties. *)

\* The provider gets a recipient's mail once, but for crashes and errors between
\* mailing and recording, and for jobs that overlap: then once per slot.  No
\* later run mails who was recorded, however often the campaign is resumed.
MailsBounded ==
    \A r \in Rows :
        mailed[r] <= (IF Overlapped THEN Slots ELSE 1) * (1 + crashes) + faults

\* A campaign that nobody stopped is marked as sent only when every recipient
\* was served, through crashes, stalled jobs and several jobs at a time.
SentComplete == status = "sent" /\ ~Stopped => \A r \in Rows : row[r] # "pending"

\* A campaign that is being sent has a job that sends it, or somebody about to
\* add one, unless something took the job away.
SendingHasJob ==
    status = "sending" => \/ Lost
                          \/ \E j \in Jobs : Live(j) \/ job[j].at = "enqueue"
                          \/ \E q \in Requests : req[q].at = "add" /\ req[q].op # "schedule"

\* After a campaign was paused or cancelled, a running job sends the batch it
\* has begun and no other.
StopsWithinBatch == \A j \in Jobs : late[j] <= BatchSize

\* No recipient is mailed or settled again whose row was settled, unless two jobs
\* overlapped, none is marked as sent without a mail, and the campaign is done only
\* when all are settled, unless it was stopped: through crashes, errors, retries,
\* pauses and resumes.
Abstract == INSTANCE Mailing WITH
    done <- status = "sent", stopped <- Stopped, overlapped <- Overlapped
MailingSpec == Abstract!Spec

\* A campaign does not stay in the sending status for ever while a job for it
\* is in the queue.
SendingEnds == []<>(status # "sending" \/ \A j \in Jobs : ~Live(j))
=============================================================================
