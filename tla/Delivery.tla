------------------------------ MODULE Delivery ------------------------------
(***************************************************************************)
(* One notification on its way to the channels of its user:                *)
(* notification-delivery.service.ts and its processor.                     *)
(*                                                                         *)
(* The request that creates the notification, or a job at its time, puts a *)
(* job per enabled channel into the Bull queue.  Such a job makes a row of *)
(* notification_deliveries, has the provider send, settles the row, and    *)
(* rewrites the notification's deliveryStatus column from the copy it read *)
(* when it began.  An error before there is a row makes Bull try again, a  *)
(* later one only marks the row as failed.                                 *)
(***************************************************************************)
EXTENDS Naturals, Sequences, FiniteSets

CONSTANTS
    Channels,
    InApp,       \* the channel that has no provider
    Sms,         \* the channel whose look-up names a relation that there is not
    Preferences, \* the sets of channels that a user may have enabled
    Jobs,        \* job ids; a Nat set, the least free one is taken
    Request,     \* the request, which runs like a job that is never repeated
    Slots,       \* jobs of this queue that run at once
    Attempts,    \* how often a job is tried
    MaxStalls,   \* Bull's maxStalledCount
    MaxCrashes,  \* bound: how often the process dies
    MaxFaults    \* bound: errors of the database, of the queue and lost answers

ASSUME ChannelsAssumption == InApp \in Channels /\ InApp # Sms
ASSUME PreferencesAssumption == Preferences \subseteq SUBSET Channels
ASSUME JobsAssumption == Jobs \subseteq Nat /\ Request \notin Jobs /\ IsFiniteSet(Jobs)
ASSUME LimitsAssumption ==
    /\ Slots \in Nat \ {0} /\ Attempts \in Nat /\ MaxStalls \in Nat
    /\ MaxCrashes \in Nat /\ MaxFaults \in Nat

VARIABLES
    gone,      \* the notification was deleted
    column,    \* its deliveryStatus, by channel
    rows,      \* notification_deliveries; history: whether the provider took it
    task,      \* the request and the jobs, with their locals
    sends,     \* history: how many messages the providers took, by channel
    late,      \* history: of each task's, those taken since the deletion
    marks,     \* history: "overlapped": two jobs held copies of the column at a
               \* time; "gaveUp": a job failed for good
    crashes, faults

vars == <<gone, column, rows, task, sends, late, marks, crashes, faults>>

Tasks == Jobs \cup {Request}
Outcome == {"none", "sent", "failed"}
Row == [ch : Channels, status : {"pending", "sent", "failed"}, taken : BOOLEAN]

FanPC == {"find", "prefs", "add"}
ChannelPC == {"load", "record", "send", "stamp", "settle", "column", "catch"}
Task == [kind : {"none", "fan", "channel"},
         at : {"free", "waiting", "stalled"} \cup FanPC \cup ChannelPC,
         ch : Channels,                  \* the channel of its job
         left : SUBSET Channels,         \* those still to be given a job
         base : [Channels -> Outcome],   \* the column as it read it
         row : Nat,                      \* its row, 0 when it has none yet
         ok : BOOLEAN,                   \* what the provider said
         tries : Nat, stalls : Nat]

Unread == [c \in Channels |-> "none"]
NoTask == [kind |-> "none", at |-> "free", ch |-> InApp, left |-> {}, base |-> Unread,
           row |-> 0, ok |-> FALSE, tries |-> 0, stalls |-> 0]

TypeOK ==
    /\ gone \in BOOLEAN
    /\ column \in [Channels -> Outcome]
    /\ rows \in Seq(Row)
    /\ task \in [Tasks -> Task]
    /\ sends \in [Channels -> Nat]
    /\ late \in [Tasks -> Nat]
    /\ marks \subseteq {"overlapped", "gaveUp"}
    /\ crashes \in Nat
    /\ faults \in Nat

\* The controller has created the notification and goes on to deliver it.
Init ==
    /\ gone = FALSE
    /\ column = Unread
    /\ rows = <<>>
    /\ task = [t \in Tasks |->
                 IF t = Request THEN [NoTask EXCEPT !.kind = "fan", !.at = "find"]
                 ELSE NoTask]
    /\ sends = [c \in Channels |-> 0]
    /\ late = [t \in Tasks |-> 0]
    /\ marks = {}
    /\ crashes = 0
    /\ faults = 0

-----------------------------------------------------------------------------
(* The queue. *)

Mark(m, happened) == marks' = marks \cup (IF happened THEN {m} ELSE {})

GoTo(t, label) == task' = [task EXCEPT ![t].at = label]
Done(t) == task' = [task EXCEPT ![t] = NoTask]

Job(kind, c) == [NoTask EXCEPT !.kind = kind, !.ch = c, !.at = "waiting"]

\* The id that queue.add gives.
Free == {j \in Jobs : task[j].at = "free"}
NextJob(j) == j \in Free /\ \A i \in Free : j <= i

Running(t) == task[t].at \in FanPC \cup ChannelPC
Slot == Cardinality({j \in Jobs : Running(j)}) < Slots

LastTry(t) == t = Request \/ task[t].tries + 1 >= Attempts

\* Bull puts a job back that failed, until its attempts are used up; a request
\* that failed is answered with an error.
Retried(t) ==
    IF LastTry(t) THEN NoTask
    ELSE [Job(task[t].kind, task[t].ch) EXCEPT !.tries = task[t].tries + 1,
                                               !.stalls = task[t].stalls]

\* A task throws.
Throw(t) ==
    /\ task' = [task EXCEPT ![t] = Retried(t)]
    /\ Mark("gaveUp", LastTry(t))

\* A job fails and is not tried again.
GiveUp(t) ==
    /\ Done(t)
    /\ Mark("gaveUp", TRUE)

Fault == faults < MaxFaults /\ faults' = faults + 1

\* Either the step is done, or an error ends the run.
Or(t, Step) ==
    \/ Step /\ UNCHANGED <<marks, faults>>
    \/ Fault /\ Throw(t) /\ UNCHANGED <<rows>>

-----------------------------------------------------------------------------
(* deliverNotification, by the request or by the job deliver-notification. *)

\* scheduleNotification with a time to come.
Schedule(j) ==
    /\ task[Request].at = "find"
    /\ NextJob(j)
    /\ task' = [task EXCEPT ![j] = Job("fan", InApp), ![Request] = NoTask]
    /\ UNCHANGED <<gone, column, rows, sends, late, marks, crashes, faults>>

BeginFan(j) ==
    /\ task[j].at = "waiting" /\ task[j].kind = "fan" /\ Slot
    /\ GoTo(j, "find")
    /\ UNCHANGED <<gone, column, rows, sends, late, marks, crashes, faults>>

FindFan(t) ==
    /\ task[t].at = "find"
    /\ Or(t, IF gone THEN Done(t) /\ UNCHANGED rows
             ELSE GoTo(t, "prefs") /\ UNCHANGED rows)
    /\ UNCHANGED <<gone, column, sends, late, crashes>>

\* getEnabledChannels: without a preference, and in the quiet hours, in the
\* application only, else what the user has enabled.
Prefs(t) ==
    /\ task[t].at = "prefs"
    /\ \E enabled \in Preferences \cup {{InApp}} :
         Or(t, /\ task' = [task EXCEPT ![t] =
                     IF enabled = {} THEN NoTask
                     ELSE [@ EXCEPT !.at = "add", !.left = enabled]]
               /\ UNCHANGED rows)
    /\ UNCHANGED <<gone, column, sends, late, crashes>>

\* Mutant: the loop does not advance.
RestAll(t, c) == task[t]

\* What is left of the loop after the job for channel c.
Rest(t, c) ==
    IF task[t].left = {c} THEN NoTask ELSE [task[t] EXCEPT !.left = @ \ {c}]

Add(t) ==
    /\ task[t].at = "add"
    /\ \E c \in task[t].left, j \in Jobs :
         /\ NextJob(j)
         /\ Or(t, /\ task' = [task EXCEPT ![j] = Job("channel", c), ![t] = Rest(t, c)]
                  /\ UNCHANGED rows)
    /\ UNCHANGED <<gone, column, sends, late, crashes>>

-----------------------------------------------------------------------------
(* deliverToChannel, the job deliver-single-channel. *)

BeginChannel(j) ==
    /\ task[j].at = "waiting" /\ task[j].kind = "channel" /\ Slot
    /\ GoTo(j, "load")
    /\ UNCHANGED <<gone, column, rows, sends, late, marks, crashes, faults>>

\* The jobs that hold a copy of the column and may write it.
Holders == {j \in Jobs : task[j].at \in ChannelPC \ {"load", "catch"}}

\* Mutant: the notification is not looked for.
LoadAny(j) ==
    /\ task[j].at = "load"
    /\ \/ /\ task' = [task EXCEPT ![j].at = "record", ![j].base = column]
          /\ Mark("overlapped", Holders # {})
          /\ UNCHANGED faults
       \/ Fault /\ Throw(j)
    /\ UNCHANGED <<gone, column, rows, sends, late, crashes>>

Load(j) ==
    /\ task[j].at = "load"
    /\ \/ /\ gone /\ Done(j)
          /\ UNCHANGED <<marks, faults>>
       \/ /\ ~gone
          /\ task' = [task EXCEPT ![j].at = "record", ![j].base = column]
          /\ Mark("overlapped", Holders # {})
          /\ UNCHANGED faults
       \/ Fault /\ Throw(j)
    /\ UNCHANGED <<gone, column, rows, sends, late, crashes>>

Record(j) ==
    /\ task[j].at = "record"
    /\ Or(j, /\ rows' = Append(rows, [ch |-> task[j].ch, status |-> "pending",
                                      taken |-> FALSE])
             /\ task' = [task EXCEPT ![j].at = "send", ![j].row = Len(rows) + 1])
    /\ UNCHANGED <<gone, column, sends, late, crashes>>

\* The provider takes the message, or not, and answers.
Take(j, took) ==
    LET c == task[j].ch
        n == IF took THEN 1 ELSE 0
    IN  /\ rows' = [rows EXCEPT ![task[j].row].taken = took]
        /\ sends' = [sends EXCEPT ![c] = @ + n]
        /\ late' = [late EXCEPT ![j] = @ + IF gone THEN n ELSE 0]

\* An email or a push message.  When its answer is lost it counts as not sent.
\* The application's own channel is only stamped, and a short message is never sent.
Send(j) ==
    /\ task[j].at = "send"
    /\ \/ /\ task[j].ch = InApp
          /\ task' = [task EXCEPT ![j].at = "stamp", ![j].ok = TRUE]
          /\ UNCHANGED <<rows, sends, late, faults>>
       \/ /\ task[j].ch = Sms
          /\ GoTo(j, "catch")
          /\ UNCHANGED <<rows, sends, late, faults>>
       \/ \E took \in BOOLEAN :
          /\ task[j].ch \notin {InApp, Sms}
          /\ Take(j, took)
          /\ \/ /\ task' = [task EXCEPT ![j].at = IF took THEN "stamp" ELSE "settle",
                                        ![j].ok = took]
                /\ UNCHANGED faults
             \/ took /\ Fault /\ GoTo(j, "settle")
             \/ Fault /\ GoTo(j, "catch")
    /\ UNCHANGED <<gone, column, marks, crashes>>

\* From here on an error leads to the catch.
OrCatch(j, Step) ==
    \/ Step /\ UNCHANGED faults
    \/ Fault /\ GoTo(j, "catch") /\ UNCHANGED <<rows, column>>

Stamp(j) ==
    /\ task[j].at = "stamp"
    /\ OrCatch(j, GoTo(j, "settle") /\ UNCHANGED <<rows, column>>)
    /\ UNCHANGED <<gone, sends, late, marks, crashes>>

\* Mutant: the row is given the status of another enumeration.
VerdictOther(j) == IF task[j].ok THEN "delivered" ELSE "failed"

Verdict(j) == IF task[j].ok THEN "sent" ELSE "failed"

\* Mutants: the row is settled as sent, or left as it is.
SettleSent(j) ==
    /\ task[j].at = "settle"
    /\ OrCatch(j, /\ rows' = [rows EXCEPT ![task[j].row].status = "sent"]
                  /\ GoTo(j, "column")
                  /\ UNCHANGED column)
    /\ UNCHANGED <<gone, sends, late, marks, crashes>>
SettleNot(j) ==
    /\ task[j].at = "settle"
    /\ OrCatch(j, GoTo(j, "column") /\ UNCHANGED <<rows, column>>)
    /\ UNCHANGED <<gone, sends, late, marks, crashes>>

Settle(j) ==
    /\ task[j].at = "settle"
    /\ OrCatch(j, /\ rows' = [rows EXCEPT ![task[j].row].status = Verdict(j)]
                  /\ GoTo(j, "column")
                  /\ UNCHANGED column)
    /\ UNCHANGED <<gone, sends, late, marks, crashes>>

\* Mutant: the column begins anew.
ColumnAnew(j) ==
    /\ task[j].at = "column"
    /\ OrCatch(j, /\ column' = [Unread EXCEPT ![task[j].ch] = Verdict(j)]
                  /\ Done(j)
                  /\ UNCHANGED rows)
    /\ UNCHANGED <<gone, sends, late, marks, crashes>>

\* updateNotificationDeliveryStatus writes the whole column.
Column(j) ==
    /\ task[j].at = "column"
    /\ OrCatch(j, /\ column' = [task[j].base EXCEPT ![task[j].ch] = Verdict(j)]
                  /\ Done(j)
                  /\ UNCHANGED rows)
    /\ UNCHANGED <<gone, sends, late, marks, crashes>>

Catch(j) ==
    /\ task[j].at = "catch"
    /\ Or(j, /\ rows' = [rows EXCEPT ![task[j].row].status = "failed"]
             /\ Done(j))
    /\ UNCHANGED <<gone, column, sends, late, crashes>>

-----------------------------------------------------------------------------

\* NotificationService.delete.
Delete ==
    /\ ~gone
    /\ gone' = TRUE
    /\ UNCHANGED <<column, rows, task, sends, late, marks, crashes, faults>>

\* The process dies: Bull keeps its jobs.
Crash ==
    /\ crashes < MaxCrashes
    /\ crashes' = crashes + 1
    /\ task' = [t \in Tasks |->
                  CASE t = Request -> NoTask
                    [] t # Request /\ Running(t) ->
                       [Job(task[t].kind, task[t].ch) EXCEPT !.at = "stalled",
                            !.tries = task[t].tries, !.stalls = task[t].stalls]
                    [] OTHER -> task[t]]
    /\ UNCHANGED <<gone, column, rows, sends, late, marks, faults>>

\* Mutant: a stalled job is forgotten.
RecoverNot(j) ==
    /\ task[j].at = "stalled"
    /\ Done(j)
    /\ UNCHANGED <<gone, column, rows, sends, late, marks, crashes, faults>>

\* Bull notices a lock that ran out: the job runs again, or, when it has stalled
\* too often, fails for good, whatever attempts it has left.
Recover(j) ==
    /\ task[j].at = "stalled"
    /\ \/ /\ task[j].stalls < MaxStalls
          /\ task' = [task EXCEPT ![j].at = "waiting", ![j].stalls = @ + 1]
          /\ UNCHANGED marks
       \/ task[j].stalls >= MaxStalls /\ GiveUp(j)
    /\ UNCHANGED <<gone, column, rows, sends, late, crashes, faults>>

Work(t) ==
    \/ FindFan(t) \/ Prefs(t) \/ Add(t)
    \/ /\ t \in Jobs
       /\ \/ BeginFan(t) \/ BeginChannel(t) \/ Load(t) \/ Record(t) \/ Send(t)
          \/ Stamp(t) \/ Settle(t) \/ Column(t) \/ Catch(t) \/ Recover(t)

Next ==
    \/ \E t \in Tasks : Work(t)
    \/ \E j \in Jobs : Schedule(j)
    \/ Delete
    \/ Crash

Spec == Init /\ [][Next]_vars

\* Bull hands out what is queued, and the event loop drives what is in flight.
FairSpec == Spec /\ \A t \in Tasks : WF_vars(Work(t))

-----------------------------------------------------------------------------
(* Properties. *)

\* The provider of a channel gets the message once, but for errors and crashes.
\* Each of them may run the task again that adds the jobs, so that there is one
\* job more, and each crash may run all the jobs again.
SendsBounded ==
    \A c \in Channels : sends[c] <= (1 + faults + crashes) * (1 + crashes)

\* A row says what became of its message: "sent" only when the provider took it,
\* "failed" of a message that it took only after an error.
RowsTruthful ==
    \A i \in DOMAIN rows :
        /\ rows[i].status = "sent" => rows[i].taken \/ rows[i].ch = InApp
        /\ rows[i].status = "failed" /\ rows[i].taken => faults > 0

\* A row stays pending only while its job runs.  An error leaves at most one
\* behind, a crash as many as there are slots.
RowsSettle ==
    Cardinality({i \in DOMAIN rows :
        rows[i].status = "pending" /\ \A j \in Jobs : task[j].row # i})
      <= faults + crashes * Slots

\* The column claims no delivery that did not happen, and when no two jobs held
\* copies of it at a time, no error happened and the process did not die, it has
\* the outcome of every row whose job is done.
ColumnTruthful ==
    /\ \A c \in Channels : column[c] = "sent" => c = InApp \/ sends[c] > 0
    /\ "overlapped" \notin marks /\ faults = 0 /\ crashes = 0 =>
         \A i \in DOMAIN rows :
            rows[i].ch # Sms => \/ column[rows[i].ch] = rows[i].status
                                \/ \E j \in Jobs : task[j].row = i

\* After the notification was deleted, a job sends what it has in hand.
NoneAfterDelete == \A t \in Tasks : late[t] <= 1

\* Every message that was taken has a row of its own; a row is settled once, and
\* truly, but for a failure after an error; and each job's outcome is all that it
\* changes in the column, unless two jobs held copies of it at a time: through
\* errors, crashes, and jobs that are tried again.
Abstract == INSTANCE Outbox WITH
    failed <- faults > 0, overlapped <- "overlapped" \in marks
OutboxSpec == Abstract!Spec

\* A job for a channel comes to an outcome, unless the notification is deleted
\* or the job's attempts are used up.
Attempted ==
    \A c \in Channels :
        (\E j \in Jobs : task[j].kind = "channel" /\ task[j].ch = c)
        ~> \/ \E i \in DOMAIN rows : rows[i].ch = c /\ rows[i].status # "pending"
           \/ gone
           \/ "gaveUp" \in marks
=============================================================================
