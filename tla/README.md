# A TLA+ model of the LMS backend

The repository is a learning management system: a NestJS server over MySQL (through TypeORM), Redis (through `cache-manager` and Bull) and external providers for payment and mail. Requests, cron jobs and queue jobs run as interleaved asynchronous functions of one Node process. Almost nothing is done in a transaction: a handler reads a row, awaits, and writes back what it computed from the copy. That is where its hard behaviour is, and it is what these modules are about.

Paths below are relative to `src/src/`.

## Inventory

| component | state | operations | interacts with | what is hard | what makes it correct |
|---|---|---|---|---|---|
| Assessment taking (`modules/assessment/services/assessment-taking.service.ts`, `time-management.service.ts`) | rows of `assessment_sessions` and `assessment_attempts`, a cached copy of each session row | start, status, heartbeat, progress, answer, submit, security event, pause, resume, expiry by request and by cron | grading, cache, socket gateway, audit log | three places written without a transaction, stale copies, a cron beside the requests, a crash in the middle | acknowledged answers survive, a submission is complete and final, limits hold up to the number of overlapping requests, overdue sessions are closed |
| Automatic grading (`modules/grading/services/grading.service.ts`) | rows of `grades`, cached statistics | create, update, delete, bulk, publish, auto-grade | attempts, caches | check and insert without a key | a grade only for what was handed in, one grade per attempt up to overlap |
| Payments (`modules/payment`) | rows of `payments` and their items | order from the cart, start of a payment, callback, webhook, redirect, cancellation | Stripe, MoMo, cart, enrolments | repeated, late, reordered and lost notifications, no guard on the status | a paid order enrols its buyer, an unpaid one does not, an order does not lose its final status |
| Cart and enrolment (`modules/course/services/cart.service.ts`) | rows of `cart` and `enrollments` | add, remove, clear, enrol | payments | the cart changes between order and payment | the items paid for are the items enrolled |
| Email campaigns (`modules/notification`, campaign service and processor) | a campaign row, its recipients, a Bull queue | create, schedule, send, pause, resume, cancel, the sending job | mail providers | the status is the only signal to a job that works through a list it read at its start; jobs run again after a stall | every recipient gets the mail, and once |
| Notification delivery (`modules/notification`, delivery service and processor) | a row per channel and try, the notification's `deliveryStatus` column, a Bull queue | deliver, schedule, delete, the two jobs | mail, push, SMS | jobs run again after an error or a stall, and write the column from copies | rows and column say what became of a message, which a provider gets once |
| Login sessions (`modules/auth/services/session.service.ts`) | a Redis entry per session, an index per user, a blacklist | create, validate, touch, list, destroy, destroy all | authentication guards | the index is rewritten from a copy, dates come back as strings | a destroyed session is gone, the index covers the sessions |
| Cache and Redis (`cache`, `redis`, `modules/caching`) | entries with a time to live, tag lists | get, set, delete, invalidate by tag | everything | errors are swallowed, tag lists are rewritten from a copy | a stale entry is not served for ever |
| Rate limiting (`common/services/rate-limiting.service.ts`) | sorted sets and hashes in Redis | sliding window, buckets, distributed count, circuit breaker | guards | boundaries, rounding, several instances | no more than the limit is let through, a waiting client is let through again |
| Live sessions (`modules/communication/services/video-session.service.ts`, `webrtc.service.ts`, `modules/teacher/services/teacher-live-sessions-real.service.ts`) | rows of `live_sessions` and `session_participants`, a cached copy of the session, the room in memory and in the cache | start, end, update, join, leave | cache, socket gateway, the teacher's page | the copy is not corrected when participants change; two services change one row | the count is right, the capacity holds, an end is seen, a live session has its room |
| Forum, collaborative learning, chat rooms, realtime, privacy jobs | rows with counters | create, vote, join, leave, post | notifications | counters kept by read-modify-write | counters agree with rows |
| Deployment rollback | files and shell commands | plan, roll back, recover | database | a step that fails | maintenance mode while the database is restored |
| Courses, users, teacher tools, analytics, AI, onboarding, uploads, security, configuration | rows | create, read, update, delete; formulas; external calls | | little beyond the database | |

`PROJECT.json` lists every component with what is and is not modelled of it, and the hazards at the lines where they bite.

## The modules

Six parts are modelled. In the code they share no state, so no module composes them: a payment enrols a student, whom no assessment handler looks up again; an email campaign and a notification are sent through different queues and different rows; the session middleware runs before a handler and hands it a user, nothing that changes later.

- `AssessmentSession.tla` is the core, and `AnswerSheet.tla` says what it promises about the answers. `MCAssessmentSession.tla` gives it the sets that the runs let a client send. Its theorems are in `AssessmentSession_proofs.tla` (types, attempts and their numbers), `AssessmentRows_proofs.tla` (grades, active sessions, expiry), which extends it, and `AssessmentAnswers_proofs.tla` (answers and submissions), which extends both.
- `Enrolment.tla` says what payments promise about enrolment and `Checkout.tla` is the code that is shown to implement it. `MCCheckout.tla` gives the values for TLC, `Checkout_proofs.tla` holds the theorems.
- `Mailing.tla` says what the sending of a campaign promises its recipients and `Campaign.tla` is the code that is shown to implement it, `MCCampaign.tla` its symmetry for TLC, `Campaign_proofs.tla` holds the theorems.
- `Register.tla` says what the sessions of a user promise and `LoginSessions.tla`, their keys in Redis and the requests on them, is shown to implement it; `MCLoginSessions.tla`, `LoginSessions_proofs.tla`.
- `Outbox.tla` says what a notification's records promise and `Delivery.tla`, its way to its channels, is shown to implement it; its configuration needs no module of its own; `Delivery_proofs.tla`.
- `LiveSession.tla` is a live session with its participants and its room; `MCLiveSession.tla`, `LiveSession_proofs.tla`.

Definitions that a comment calls a mutant are no part of a specification: they are what the code could have been, and show that a property can fail.

### AssessmentSession

One student takes one assessment. Rows are kept per id, and one id stands for an attempt, for the session saved with it and for that session's token, since `startAssessment` creates them together.

| state | in the code |
|---|---|
| `session`, `attempt` | the rows of `assessment_sessions` and `assessment_attempts`, reduced to the columns a guard reads: status, expiry, answers, number of violations; status, number, answers, grading status |
| `cache` | the entry `session:<token>` |
| `grades` | how many `grades` rows an attempt has |
| `issued`, `acked` | what the client knows: the tokens it was given, the answers it was told are saved |
| `pc`, `job`, `copy`, `number` | a request in flight: the await it stands at, its input, its local `session`, its local `attemptNumber` |
| `cron` | the run of `expireOverdueSessions`: the rows it read and the one it is at |
| `now`, `crashes` | clock and number of process exits |

Every await between two accesses to shared state separates two actions. `startAssessment` is `StartLimit`, `StartTerminate`, `StartCount`, `StartAttempt`, `StartSession`, `StartStore`. A request with a token is `Receive` (the cache hits) or `Receive`, `Find`, `Fill` (it misses), then `Dispatch`, which holds the synchronous checks of the handler and picks its first write; the writes follow (`Touch`; `WriteAnswer`, `SaveAnswer`; `Complete`, `HandIn`, `Clear`, `Grade...`; `Violate`; `Pause`; `Resume`; `Expire`, `TimeOut`, `Clear`). The cron is `CronQuery`, `CronExpire`, `CronTimeOut`. `StartUnavailable` is the exit of the process: `validateAssessmentAvailability` is asynchronous, is not awaited, and `main.ts` exits on an unhandled rejection; it throws for any assessment that came out of the cache, whose plain object lacks the getter `isAvailable`.

Abstractions: an answer is the question it answers, so a set of questions stands for the answers column. What one answer replaces by another for the same question is not told apart. The violation count saturates at the limit. `status`, `heartbeat` and `progress` write columns that nothing here reads, so only the cache entry they put back is kept. Audit rows, events and logs are left out. One server process is assumed: its exit ends every request and the cron's run. The cron does not overlap itself (a run takes less than the minute between two). The cache entry may vanish at any time, which covers its time to live (3600 milliseconds with cache-manager 5, the comment says an hour) and Redis evicting it. `CacheFaults` adds writes that Redis loses and `CacheService` swallows.

`AnswerSheet` knows, per session, the sheet (the questions answered in the row), what of it the client was told is saved, and the paper (open, submitted or timed out, with its answers); tokens, caches, requests and the cron are gone. `Write` takes up one more answer and loses none, `Submit` hands in the sheet as it is, `TimeOut` what was on it a moment ago. The mapping is `sheet <- session[i].answers`, `paper <- Paper(i)`, `crashed <- crashes > 0`. Two conditions are in the abstract specification and not hidden in the mapping. `Reliable` is a constant: a client that awaits each reply and a cache that loses no write; without it nothing is promised, since an answer can be overwritten by an overlapping request. After a crash a step may work on a sheet that lacks unacknowledged answers, because the copy in the cache may be older than the row.

### Checkout

One student buys courses: the cart, the order, the notifications of the gateway and the enrolments they cause. Other students have their own rows and share none of these.

| state | in the code |
|---|---|
| `cart`, `enrolled` | the courses in the student's rows of `cart` and `enrollments` |
| `order` | the row of `payments` of an order code with its `payment_items`, reduced to status, method and courses |
| `pc`, `job` | a request in flight: the await it stands at; the order it handles, the event it has to acknowledge, the items still to be looked up and the new enrolments collected |
| `charged`, `events` | Stripe: orders it took the money for, notifications it keeps sending |
| `granted` | courses entered through `enrollUserInCourse`, without an order |
| `settled`, `failed` | history: orders ever marked as completed; orders in whose callback a database error was swallowed |
| `crashes` | number of process exits |

The student's actions are `AddToCart` and `Insert`, `RemoveFromCart`, `OrderCart` or `OrderCourses` and then `Create` (the transaction of `createPaymentFromCart` and `processPayment`), `Redirect` (the browser comes back from a paid checkout), `MarkMoMoPaid`, and `Grant`. Only `createPaymentFromCart` refuses an empty list of courses (`OrderCart`); an order of `processPayment` may have none. Stripe's are `Charge` and `Decline`. `Webhook` is the delivery of one notification and `VerifyMoMo` the confirmation of a transfer by hand; neither it nor `MarkMoMoPaid` looks at the order's payment method, so they take any order that was placed. Both `Webhook` and `VerifyMoMo` run `handlePaymentCallback`: `Update`, one `Lookup` per item, `Save` or `Duplicate`, `Clear`. `Fault` is an error at any of these; the webhook logs it and replies as ever. `Crash` ends all of them without a reply. A reply may be lost (`Reply`), so Stripe may repeat a notification that was handled.

What is abstracted, and why it does not matter:

- The items of an order never change, so the `findOne` of a callback is part of its receipt.
- Enrolments are never taken back, so what an order request looks up course by course is one step: a course found to be free is free in every earlier state.
- No handler reads the status of an order before it writes it. A status is therefore one assignment, and `settled` remembers what it was.
- `Redirect` and `MarkMoMoPaid` write one row after they read it, and what they write does not depend on what they read: one step each.
- What Stripe makes of an order without a charge is left open: any order of Stripe's may get its page or be refused one.
- Prices, discounts, refunds (an administrator's, outside this protocol), the bulk forms of the cart operations, the second payment page for a QR code and MoMo's business interface are left out.

`Enrolment` knows orders, which of them are placed and which settled, and the courses. `Enrol` takes all courses of one settled order at once, `Grant` takes one without an order. Under the mapping `placed <- {o : Placed(o)}`, `items <- order[o].items` every step of `Checkout` is one of its steps or changes nothing in it.

### Campaign

One campaign, from the moment `create` has saved its draft and its recipients.

| state | in the code |
|---|---|
| `status`, `row` | the status columns of `email_campaigns` and `email_campaign_recipients` |
| `job` | the Bull queue `email-campaign`: kind, where the job stands, attempts and stalls; for a job that runs, the recipients it has read and not yet sliced (`left`), the batch in hand, and which of it the provider took |
| `req` | a request in flight: the write it is about to do, then its work on the queue |
| `mailed`, `late`, `marks` | history: mails the provider took per recipient; mails a run sent since the campaign stopped; what happened that a property makes an exception for |
| `crashes`, `faults` | bounded counters |

A request is three steps, because each awaits: `Send`, `Schedule`, `Pause`, `Resume`, `Cancel`, `Delete` read the row and check it, the `Write...` of each changes the status whatever it is by then, and `Add` or `List` and `Remove` change the queue. `send-campaign` is `Begin`, `Fetch`, then per batch `Check`, `Suppress`, `Mail`, `Record` (one row per step), and `Complete`; `send-scheduled-campaign` is `BeginScheduled`, `Launch`, `Enqueue`. `Fail` and `FailScheduled` are database errors, after which Bull tries again. `Crash` ends requests and runs; Bull keeps the jobs and `Recover` puts them back.

Bull is external: two slots, because each of the two `@Process` handlers brings one; a job that is locked cannot be removed; a job that stalled is run again `maxStalledCount` times and then fails for good, whatever attempts it has left (the second branch of `Recover`; if the campaign is being sent this is `Lost`). Delayed and waiting jobs are one state, since a delayed one becomes waiting at a time that nothing here controls. The order of the queue is left open. Left out are the editing of a campaign and of its audience, test mode, the counters and the rates, opens and clicks.

Three marks say what a property excepts: `Stopped`, somebody took the campaign out of the sending status; `Overlapped`, two jobs were sending at once; `Lost`, a crash, an error or a removal took the job of a campaign that is in the sending status. `Mailing` knows recipients, mails, whether the campaign is done, and two of these marks; the queue, the jobs, their lists, requests, errors and exits are gone. Mails go only to pending recipients and rows are settled once, as sent only with a mail, and `Finish` needs everybody settled. `Overlapped` excepts the first, `Stopped` the last; nothing excepts the rule that a row says sent only with a mail.

Each of the marks is a real weakness of the code: `Stopped` because the job then marks the campaign as sent although recipients are pending, `Overlapped` because resuming does not wait for the running job, `Lost` because status and queue are changed in two steps.

### LoginSessions

The sessions of one user, as `session.service.ts` keeps them for the logins and logouts of `auth.service.ts` and for `session.middleware.ts`.

| state | in the code |
|---|---|
| `entry`, `index`, `black` | the keys `session:<id>`, the list under `user_sessions:<user>`, the keys `blacklist:<id>` |
| `job` | a request in flight: the await it stands at; what `getUserSessions` was called for (`for`), the index as it read it (`base`), what it has still to look up (`left`) and has found (`kept`); what `destroyAllUserSessions` has left to do (`todo`) |
| `was` | history: ids used, listed, told to the client, ended, and what happened to each that a property makes an exception for |
| `losses` | keys dropped, calls failed and exits, against one bound |

`createSession` is `Login`, `Store`, then `getUserSessions` (`ReadIndex`, a `Look` per id, `Prune` if one is gone), `Add`, `getUserSessions` again, `Limit`. `destroySession` is `Find`, `getUserSessions`, `Remove`, `Bar`, `Drop`; `terminateSession` looks the session up first (`Terminate`, `Owned`), `destroyAllUserSessions` (`LogoutAll`, `Sweep`) runs it for each id in its copy of the index. The middleware is `Request`, `Guard` (the blacklist), `Load`, `Touch`, `Renew`. `AskList` and `List` are the page of active sessions. Every step that calls the cache takes `ok`: `CacheService` logs a failing call and answers as if there were nothing.

Three things that look odd are the code's. The dates of an entry come back from JSON as strings, so the test `new Date() > session.expiresAt` is never true, no call destroys an expired session, the hourly cleanup destroys nothing, and `enforceMaxSessionsPerUser` throws when it sorts them: the login fails after its session was stored and listed. `logout` is never given a session id (`FindLogoutKept`). A session whose entry is gone is left in the index by `destroySession`.

`Register` knows the sessions there are, the list the user sees, and who was let in; keys, copies, the blacklist, look-ups and requests are gone. A session is opened, listed, ended, or expires. `Visit` lets a request in and may bring its session back, `Relist` replaces the list. What the code does beyond that is in the abstract specification as an exception with a rule of its own (`Exceptions`): a session comes back only when a request held a copy while it went (`echoed`), and a later request is let in by it only when the blacklist has forgotten it too; the list drops a live session only while somebody takes it away (`leaving`), which ends with the session gone, or when the writer of the list had not seen it or the list was evicted (`lost`); and a session whose call failed (`failed`) may outlive its end, be missing in the list and let a later request in. The mapping is `alive <- entry`, `shown <- index`, and the history `was` for the rest: `listed`, `ended`, `late <- was.revived`, `leaving <- was.unlisted`, `echoed <- was.raced`, `lost <- was.overwritten`, `forgotten`, `failed`.

### Delivery

One notification, from the moment its row is saved.

| state | in the code |
|---|---|
| `gone`, `column` | whether the row of `notifications` was deleted; its `deliveryStatus`, by channel |
| `rows` | `notification_deliveries`: channel, status, and, as history, whether the provider took the message |
| `task` | the request and the Bull jobs `deliver-notification` (kind `fan`) and `deliver-single-channel` (kind `channel`): where each stands, the channels it has still to queue, its copy of the column, its row, the provider's answer, tries and stalls |
| `sends`, `late`, `marks` | history: messages taken per channel, those taken after the deletion per job, jobs that overlapped or were given up |
| `crashes`, `faults` | bounded counters |

`deliverNotification` is `FindFan`, `Prefs`, one `Add` per channel; by a job it begins with `BeginFan`, and `Schedule` makes that job. `deliverToChannel` is `BeginChannel`, `Load`, `Record`, `Send`, `Stamp`, `Settle`, `Column`, and `Catch` for an error after the row was made. Bull is external: `Throw` puts a job back until its attempts are used up, `Crash` leaves running jobs stalled, `Recover` puts a stalled job back or, when it has stalled more than `maxStalledCount` times, fails it for good without another attempt (`GiveUp`).

The channels are three kinds: the application's own, which no provider serves; the short message, whose look-up names the relation `profile` that the user entity does not have, so that it always ends in the catch; and those with a provider, for which `email` stands. `createBulk` saves rows and delivers none of them.

`Outbox` knows the rows, the messages taken and the column; jobs, copies, tries and stalls are gone. A provider takes one message per row (`Take`), a row is settled once (`Settle`), as sent only with a message or on the application's own channel, and `Publish` takes the outcome of one settled row over into the column. An error (`faults > 0`) lets a row that was sent be put down as failed (`Retract`); once two jobs held copies of the column (the mark `overlapped`), `Publish` may change other channels too, but never claims a message that nobody took.

### LiveSession

One live session, made by `POST /video/sessions` or on the teacher's page.

| state | in the code |
|---|---|
| `row`, `copy` | the row of `live_sessions` (status, `currentParticipants`, `maxParticipants` as `max`) and the cached copy under `session:<id>`, which also knows, as history, whether its count was already wrong when it was read |
| `part` | the connection status of each user's row of `session_participants` |
| `room` | where the room is: in the map of `WebRTCService`, in the cache |
| `job` | a request in flight: the await it stands at, what `getSessionById` was called for and returned, whether from the cache, whether it found the user's row, the count it took |
| `was`, `used` | history: what a property excepts; requests and losses against their bounds |

`getSessionById` is `Receive`, `Look`, and on a miss `Fetch`, `Fill`. `startSession` goes on with `Start`, `Clear`; `endSession` with `End`, `Close`, `Disconnect`, `Clear`; `updateSession` with `Update` (the row), `Settings` (the room's copy in the cache, only when settings are given), `Clear`; `joinSession` with `Admit`, `Find`, `Seat`, `Connect`, and `updateParticipantCount` (`Count`, `Write`). `leaveSession` is `AskLeave`, `Part`, `Count`, `Write`; the gateway calls it when a socket closes. `TeacherStart`, `TeacherEnd` and `TeacherUpdate` are the teacher's page, which writes the row with no check, no room and no cache. Of what a session holds the model has its capacity, which an update may change and a copy may have from before, and its status. A session without a capacity admits everybody; the model always has one. A request keeps of what it read what it goes on to use (`Needed`).

The code's own oddities, kept: `endSession` calls `getTime` of a date that is a string when the copy came from the cache, and throws after the room was deleted; it disconnects the rows that are `CONNECTED`, while whoever joins is `CONNECTING`; a session of the teacher's page has no room, so each join seats its user, fails and counts nobody; the host has a row from the beginning and is counted at the first join or leave; `CANCELLED` is never set. Left out: attendance times, breakout rooms, registration, the Zoom provider, recordings, deletion, the chat rooms.

## Runs

`CHECK_DEADLOCK FALSE` is set everywhere: clients stop, the clock and the number of exits are bounded, so a state without a successor is expected.

| run | instance | what it shows |
|---|---|---|
| `Starts` | three workers, five ids, only `start`, two attempts allowed, one exit, lost cache writes; symmetric | `AttemptsBounded`, `NumbersBounded`, `ActiveBounded`: the limit, the numbering and the rule of one active session break under overlap, by no more than the number of requests that overlap. Five ids leave room for one attempt more than the bound allows. |
| `Requests` | one worker, one id, two questions, all operations, the client awaits its replies, the clock passes the expiry once, one exit | `TypeOK`; `AcksDurable`: an acknowledged answer stays in the row; `SubmissionComplete` and `CompletedStaysClosed`: until an exit cuts a request off, a submitted attempt has every acknowledged answer and the session is over; `OverdueCloses`: the cron closes what is overdue; `AnswerSheetSpec`: the refinement. The cron, eviction and the exit interleave with every await of the request. Two questions are needed for an answer to be overwritten by another. |
| `Grading` | two workers that need not await each other, automatic grading, all answers required, an exit, lost cache writes; symmetric | `GradesBounded`: grades per attempt are bounded by the requests that overlap; `GradedWasHandedIn`: a grade is made only of what was handed in; `HandedInUntilTime`: what was handed in stays so until its time is over (after it, a late request turns it into a timed out one). |
| `Checkout` | two orders of none to two courses each, two handlers, success and decline events, courses granted on the side, one swallowed database error, one exit; symmetric | `TypeOK`; `AckedEnrolled`: Stripe is not told that it is done with a charged order whose courses are missing, unless another order, another way in or an error disturbed it; `EnrolmentSpec`: the refinement. Two orders of two courses overlap in none, one or both; two handlers are two deliveries at once. |
| `CheckoutLive` | one order from the cart, by Stripe or MoMo, two success events, two handlers, the return of the browser, MoMo's two endpoints on any order, one exit, one error | `PaidEnrolled`: a charged order enrols in the end, unless disturbed |
| `FindDeclined` | one order | `CompletedCharged` is violated: a declined card completes the order |
| `Campaign` | two recipients in batches of one, two requests that send, pause and resume, two job ids and slots, one exit; symmetric | `TypeOK`; `MailsBounded`: mails per recipient are bounded by slots, exits and errors, however often the campaign is paused and resumed; `SentComplete`: sent means served, unless stopped; `SendingHasJob`: a sending campaign has its job, unless lost; `StopsWithinBatch`: a stopped campaign sends the batch in hand and no more; `MailingSpec`: the refinement. Two batches are the least in which a loop can stop between batches; two requests race in their steps. |
| `CampaignLive` | one recipient, one request of any kind, two job ids, one stall, two exits, one error: the second exit makes a job that stalled before fail for good | `SendingEnds`: the sending status does not last while a job is in the queue |
| `LoginSessions` | two requests in flight, two sessions, a limit of one, one loss, all operations; symmetric; the search is exhaustive (3 718 138 states) | `TypeOK`; `IndexComplete`: the index has every live session; `SessionsBounded`: no more live sessions than the limit; `SweepComplete`: destroying all leaves none; `RegisterSpec`: the refinement, which includes that a destroyed session is not let in again (`EndedStaysOut`, an invariant that is proved and no longer needs the run). Each names its exceptions: a writer that had not seen an entry (`overwritten`), a `touchSession` around the end (`raced`), a blacklist entry that expired (`forgotten`), a failed call (`failed`), a destruction half done (`unlisted`). Two sessions and a limit of one make the second login pass the limit; two requests interleave at every await. |
| `FindLogoutKept` | one request, one session, no loss | `LogoutEnds` is violated: who logs out keeps the session |
| `Delivery` | three channels, users with none, two or the third enabled, two job ids, four slots, three attempts, one stall, two exits, one error, an early or late deletion; the second exit makes a job that stalled before fail for good | `TypeOK`; `SendsBounded`: messages per channel, by errors and exits; `RowsSettle`: how many rows stay pending; `ColumnTruthful`: the column claims nothing that did not happen, and has every outcome if jobs did not overlap and nothing failed; `NoneAfterDelete`: a job sends at most the message in hand after the deletion; `Attempted`: every queued job comes to an end; `OutboxSpec`: the refinement, which includes what a settled row says (`RowsTruthful`, an invariant that is proved and no longer needs the run). Two jobs are two channels at once, or a channel twice; `Slots` is the concurrency Bull gives to the four `@Process` handlers, which two ids never fill. |
| `LiveSession` | two requests at a time, four in all, a host and two users, a capacity of one or two that updates change, one loss; both kinds of session; symmetric; exhaustive (6 269 284 states) | `TypeOK`; `CountTruthful`: the count of participants; `CapacityHeld`: the capacity a join was shown, when the count that let it in was true; `EndIsSeen`: the cached copy after an end; `LiveHasRoom`: the room of a live session. Three users are one more than the larger capacity; four requests are a start, two joins that overlap and an end. |

What the models show beside the runs (each needs no race, or is an exception that a property names, so no run is spent on it): a browser that returns from a paid checkout marks the order as failed (`Redirect`; `payment.controller.ts:122` passes no `session_id`); a start of an unavailable assessment ends the process (`StartUnavailable`); a session terminated for violations takes answers as long as its copy is cached; a status request after the time limit turns a submitted attempt into a timed out one (`HandedInUntilTime` ends at that time for this reason); two orders that share a course can leave a charged order without its other course (the exception of `AckedEnrolled`); a campaign that was paused is marked as sent when its job leaves the loop (the mark `Stopped`); a login beyond the limit fails with its session stored; no short message is ever sent; a live session ended from a cached copy stays live without a room.

Two kinds of success event stand for the four that Stripe sends: they are handled alike, and two are enough for callbacks of one order to overlap in every way.

Fairness: `FairSpec` assumes weak fairness of each handler, which the event loop drives once it has started, and strong fairness of each delivery, because Stripe repeats a notification until it is acknowledged. Strong, because a delivery in the model waits for one of finitely many handlers, which is a bound of the model: the server takes any number of requests. Nothing is assumed of the student. `Campaign`'s `FairSpec` assumes weak fairness of each request in flight and of each job: Bull hands out what is queued, and a job holds its slot for finitely many steps (`JobsEnd`) unless requests keep adding jobs, which changes the status. Nothing is assumed of the administrators. `Delivery`'s `FairSpec` assumes weak fairness of the work of each task: Bull hands out what is queued, a lock that ran out is noticed, and the event loop drives what is in flight. `LoginSessions` and `LiveSession` promise nothing that needs fairness and state none: their requests wait for nobody. `CronSpec` assumes weak fairness of the cron's steps only. `@Cron(EVERY_MINUTE)` fires as long as the process is up, and a run that has started is driven by the event loop. Nothing is assumed of clients, the clock or the cache.

## Proofs

Everything here is proved for every value of the constants that the named assumptions allow.

An abstract specification earns its place by what follows from it. Each ends with such consequences (`What follows`), which are proved of the abstract actions alone in the lemma `PromisesKept` of the implementing module's proofs and carried to the code's model by the refinement: `HandedInWhole`, `OrdersInWhole`, `SentWasMailed`, `EachMessageHasItsRow` and `RevokedIsGone`. No run states them: the runs check the refinements they come from.

Four theorems say that what has begun comes to an end: `HandlersEnd`, `JobsEnd`, `TasksEnd` and `RequestsEnd`. Each is an action property: whatever happens to a handler, a job or a request, by its own step or another's, makes it smaller (`Nearer`) in a lexicographic order over finite sets and bounded counters. They are not liveness, since a system that stops satisfies them. They are the half of a liveness argument that no fairness can give: that the loops, the retries and the recoveries of the code do not feed themselves or each other. The other half, that steps are taken, is what the fair specifications assume; the runs of `PaidEnrolled`, `SendingEnds` and `Attempted` check both together on small instances.

`AssessmentSession_proofs`:

- `TypeCorrect` and from it `TypeSafe`: `Spec => []TypeOK`. `TypeOK` alone is not inductive: `StartSession` stores under `job[w].id`, which is an id only because the request has passed `StartAttempt`. `Typing` adds what each program point knows: a request past `StartAttempt`, or one with a token, names an id, and the cron's position is one of the rows it read.
- `AttemptLimit`: `Spec => []AttemptsBounded`. The strengthening `AttemptsCounted` counts the attempts together with the requests that have passed `validateAttemptLimits` and have not saved their attempt yet: their sum stays at most `maxAttempts - 1 + Cardinality(Workers)`, because a request passes the check only while fewer than `maxAttempts` attempts exist, and then at most every worker is on its way. `Present` says that a request past `StartAttempt` works on an attempt that exists.
- `NumbersAreShared`: `Spec => []NumbersBounded`. `NumbersCounted` counts, for each number, the attempts that have it together with the requests that have reserved it. A request reserves the number after the last attempt, which no attempt has yet.

`AssessmentRows_proofs`:

- `GradesAreFew`: `Spec => []GradesBounded`, by the same counting: a request comes to the insert only while the attempt has no grade.
- `GradedAfterHandIn`: `Spec => []GradedWasHandedIn`. `GradedLate` follows the submission: a request that grades has handed in, and an expiry on the way belongs to another kind of request, so it never leads to the grading.
- `ActiveSessionsAreFew`: `Spec => []ActiveBounded`. `ActiveCounted` adds the starts under way to the active sessions; a request joins them in the step that terminates every active session.
- `HandInStands`: `Spec => HandedInUntilTime`. `Dates` says that the cache, the requests and the cron name the end that the row has, and that whatever is about to expire has ended. It needs `Unique` (one start saves one session) and that a row is never replaced by another.
- The frame lemmas `SessionRow`, `CacheRow`, `AttemptRows`, `ReadingRow` and `Turn` say what a step can do to a row, a cache entry, an attempt, a copy and a request; most steps of the invariants rest on them and not on the actions.

`AssessmentAnswers_proofs`, for a client that awaits each reply and a cache that does not fail:

- `AcksAreDurable`: `Spec => []AcksDurable`. `Acks` says that no two requests work on one session (`Alone`) and that every copy which can still be written, in the cache or in a request, has all the acknowledged answers.
- `SubmissionsAreComplete` and `CompletedIsFinal`: `SubmissionComplete`, `CompletedStaysClosed`. `SubmittedShut`: once a session is completed, either the request that submits is still on its way to clear the cache, or the cache and every request on the session are `Quiet`, which is that they would not write the row. A crash between the attempt and the cache breaks it, which is why both properties stop there.
- `AnswersAsPromised`: `Spec => AnswerSheetSpec`. The two invariants above allow a copy that has more than the row; the refinement needs more, that the answers are the same. In `SheetInv`, as long as nothing crashed, the cache entry of a session, and the copy of a request that is still to write it or hand it in, have exactly the answers of the row (`CacheSheets`, `RequestSheets`), what the cron read has no more than the row (`CronSheets`), and an attempt that is about to be handed in was not handed in before (`HandsInOnce`). Then the answers a `WriteAnswer` or `HandIn` puts down are the abstract sheet and the one new answer. Every other action maps to an acknowledgement, an expiry or a stutter.
- `HandedInWhole`: `Spec => [](Abstract!Acknowledged /\ Abstract!AsHandedIn)`, by `SheetKept`, an invariant of `AnswerSheet` alone. It is more than `SubmissionComplete`: a submitted attempt has the sheet and nothing else, at every later time.

Each action has its own step in the preservation proofs; the lemmas before them say what an action does to the counted sets. The assumptions used are those named in `AssessmentSession`: finite sets of workers and ids, natural limits.

`Checkout_proofs`:

- `CheckoutTypes`: `Spec => []TypeOK`, from the invariant `Basic`. Besides the types it says that a handler inside a callback works on an order that was placed, with its items (`HandlersOK`), that rows which are settled or named by an event were placed (`RowsOK`, `EventsOK`). Without these, `Update` could settle an order that does not exist.
- `Implements`: `Spec => EnrolmentSpec`. All actions but three leave the abstract state alone or settle an order (`Quiet`). `Create` is `Place` or a stutter. `Save` is the step with content: it writes `missing`, and the abstract step adds all items. They agree because an item that is not in `missing` and no longer in `left` was found enrolled, and enrolments stay; `HandlerOK` carries that.
- `OrdersInWhole`: `Spec => []Abstract!InWhole`. `Fulfilled` names the orders of which the courses consist; it is inductive over `Enrolment` alone because an order placed later cannot change the items of one that is settled.
- `HandlersEnd`: the points of a handler in their order and, at `enrol`, the items still to look up; `TypeOK` suffices.
- `Acknowledged`: `Spec => []AckedEnrolled`. The invariant adds `Provenance`, every course enrolled in comes from a settled order or was granted, and `WholeOrders`, if an undisturbed order has one of its courses it has all. With them the unique key cannot reject the enrolments of an undisturbed order unless they are there already, which is the one way to acknowledge an event without enrolling.

`Campaign_proofs`:

- `CampaignTypes`: `Spec => []TypeOK`, from `Basic`, which adds per job what its lists hold where it stands (`JobOK`): only a job that records knows mails to record, and a batch is no larger than `BatchSize`.
- `OneBatchLate`: `Spec => []StopsWithinBatch`. `LateOK` adds that a job with a batch in hand has sent nothing late so far. That holds because a job comes to a batch only in a step that finds the campaign being sent, which sets the count to zero (`JobStep` says this of every action); mailing the batch then makes the count at most its size, and the next batch needs the status again.
- `SendingIsDriven`: `Spec => []SendingHasJob`, which is inductive over `Basic`: each step either leaves every job and request that is to send (`SendersStay`), hands the role on (`Add`, `Launch`, `Enqueue`), or leaves a mark.
- `SentIsComplete`: `Spec => []SentComplete`. In `SentOK`, as long as the campaign was not stopped and somebody is pending, it is not marked as sent and every sending job finds it in the sending status and has all pending recipients in its lists (`Covers`), so none of them can reach the end. Steps that serve nobody are `Settled`; the steps of a sending job are treated one by one.
- `MailsAreFew`: `Spec => []MailsBounded`. `MailsOK` counts differently on the two sides of the row's change. While it says pending, every mail is owed a record by a job (`Owing`), or was lost to an exit or an error. From then on no job takes the recipient up anew, so the mails and the jobs that still hold it (`Holders`) are bounded together by `Width`, the number of jobs that may send at a time.
- `MailsAsPromised`: `Spec => MailingSpec`. `SentOK` gives `Finish` its guard. For the other two, `ServeInv` follows each recipient that a job has in its lists: unless jobs overlapped the row is pending, and what a job is about to record as sent was mailed.
- `SentWasMailed`: `Spec => [](Abstract!Honest /\ Abstract!Thorough)`. Mailing itself cannot mark as sent without a mail, and cannot finish over a pending recipient.
- `JobsEnd`: the order is attempts, stalls, then the point of the run; inside the loop over the batches the recipients left come first, because the loop goes back to its head, then the point, then the batch. It needs `AllSupplied`: the loop is at its head only with recipients left, so that every batch takes some. `Advance` says of each action that its job comes nearer and that at most a new one is added, and the exits and removals are treated apart.

`LoginSessions_proofs`:

- `LoginTypes`, `IndexIsComplete`, `TheEndIsFinal`, `NoneIsLeft`: `TypeOK`, `IndexComplete`, `EndedStaysOut`, `SweepComplete`, for any number of requests, sessions and losses. One inductive invariant carries all four. `Apart`: two logins in flight have two sessions. `Overall`: what is in the index was listed, what was told to a client was listed or its listing failed, what ended was listed. `Good(w)` speaks of one request: what `getUserSessions` has looked up and did not keep has no entry, or is marked (`ListsOK`), so that a `Prune` or `Add` drops no live session without leaving a mark; where a request stands says what it knows of its session (`PlaceOK`); a request that began after its session ended can be let in only if the session was raced and forgotten (`LateOK`); what a sweep saw and has not got in its copy is marked or gone (`SweepOK`).
- There is one lemma per action; the frame lemmas before them (`Steady`, `Own`, `Calm`) say that what a step does not touch stays good for the requests that do not move.
- `SessionsAreFew`: `SessionsBounded`. `CountInv` speaks of the logins that have read the index in order to count (`Counting`). Each found its own session, and it either found every session a client has, or those and what it found are within the limit together. What two such logins found is nested, so the acknowledgement of one leaves the statement of the other true.
- `SessionsAsPromised`: `Spec => RegisterSpec`. The inductive invariant gives the steps their guards: `Relist` may drop what `IndexComplete` of the next state excuses, and a late request is let in only as `LateOK` says. Every action must in addition change the exceptions only in the way `Exceptions` allows; most change none (`UnseenStep`), and a destruction that takes away its mark `leaving` has removed the entry or met a failed call.
- `RevokedIsGone`: `Spec => [](Abstract!Complete /\ Abstract!Final)`. It follows from `Register` by `Promised`, and says of the entries themselves what `EndedStaysOut` says of the requests let in.
- `RequestsEnd`: the sessions still to be destroyed come first, then the place of the request, where a request inside `getUserSessions` counts with the place it returns to (`Rank`), then the sessions still to be looked up. It needs the types and what the invariant says of a request's place.

`Delivery_proofs`:

- `DeliveryTypes`: `Spec => []TypeOK`. The invariant has a clause for what each point of a job knows: a job that sends has a row of its channel that nobody else has, a settled row belongs to a job that is past it.
- `RowsSayTheTruth`: `Spec => []RowsTruthful`, a settled row says what became of its message. A row is taken in the step in which its job comes to its verdict; only an error leads from a message that was taken to the catch.
- `DeletedIsStopped`: `NoneAfterDelete`. After the deletion no job passes `Load`, so each sends at most what it has in hand.
- `ColumnTellsTheTruth`: `ColumnTruthful`. `QuietInv` says what holds while no two jobs held copies at a time and nothing failed: a job's copy is the column, so writing it back changes the job's channel only.
- `FewRowsStay`: `RowsSettle`. An error leaves behind the one row its task had in hand, an exit at most the rows of the running jobs, which the slots bound (`OrphanInv`).
- `FewMessages`: `SendsBounded`. `SendsInv` counts for each channel the tasks that are meant to bring it (`Meaning`), which only an error or an exit adds to, and the messages sent together with the tasks that may still send (`Able`). An exit runs every task again, those that had sent included, so it adds as many as are meant.
- `RecordsAsPromised`: `Spec => OutboxSpec`. Of the invariant behind the column theorem this needs what also holds after errors and exits: in `HeldOK`, unless two jobs held copies at a time, one job at most holds a copy and it is the column, and the row of a job that comes to `Column` has been settled with that job's verdict. `RowInHand` says that the row is of the job's channel and nobody else's.
- `EachMessageHasItsRow`: `Spec => [](OneRowEach /\ Abstract!Claims)`. Both follow from `Outbox`: taking a message marks exactly one row (`PromisedTake`), and nothing else changes how many rows are marked; a row that is published as sent is marked or needs no provider, and what a job undoes in a column had a message when it was written.
- `TasksEnd`: attempts, recoveries, the point of the run, and at `add` the channels that have no job yet. A stalled job counts as nearer than any running one, so an exit is progress, and its recovery is paid by the count of stalls.

`LiveSession_proofs`:

- `LiveTypes`, `CountIsTrue`, `CapacityKept`, `EndReachesTheCopy`, `LiveRoomIsThere`: `TypeOK`, `CountTruthful`, `CapacityHeld`, `EndIsSeen`, `LiveHasRoom`. The argument for the count: a request that has taken its count and whose `late` is false has the number of the active participants, because everyone who changes them marks it. For the capacity, the number is followed from the row into the copy and into the requests that hold it: as long as it is not `old` it is at least the number of active participants, and who is let in read it together with the capacity it is compared with. For the room: before the first start nobody has seen the session live and nobody closes it (`NotBegun`), so only the marked steps take the room of a live session.
- Most actions change neither participants nor counts (`Plain`) and share one step; those that do have their own.

Model-checked only: `OverdueCloses`, `PaidEnrolled`, `SendingEnds` and `Attempted`, because liveness under fairness (and `ENABLED` in it) is beyond the prover; what of it needs no fairness is in `HandlersEnd`, `JobsEnd` and `TasksEnd`. Every other property of the passing runs is proved, and so are `SendingHasJob` with errors and scheduled starts, which `Campaign` checks without them, and `RowsTruthful`. No claim rests on induction over data or on a recursive definition: no module has one.

## Plan

Done: `AssessmentSession`, `Checkout`, `Campaign`, `LoginSessions`, `Delivery`, `LiveSession`, each with proofs of its types and of all its checked invariants and action properties; the abstract specifications `AnswerSheet`, `Enrolment`, `Mailing`, `Outbox` and `Register`, each with a proof that the code's model implements it.

Left, in this order: an abstract specification for `LiveSession`, and the order in which the requests and the cron of `AssessmentSession` come to their end; the rest of the grade life cycle (publication beside regrading); tag invalidation of the caches; the rate limits as functions over one key against reference definitions.

## Not modelled

`PROJECT.json` says for each component what is left out. The reasons are these.

- The larger part of the repository has no protocol between actors: it creates, reads, updates and deletes rows for one user (courses, lessons, users, teacher tools, authoring, onboarding), computes statistics and scores from rows (analytics, recommendation, gradebook), calls external models, stores files, or configures libraries. Its seeds and migrations are data. A module of these would restate single assignments.
- Forum, collaborative learning and the HTTP side of presence keep counters by read-modify-write, but no request reaches that code with a user: `JwtStrategy.validate` returns the user with an `id`, their controllers read `user.sub`. A model would have to suppose what the code does not do.
- Rate limiting: the window and the buckets are scripts that Redis evaluates atomically, each a formula over one key.
- Deployment rollback: a sequential script around shell commands that nothing races with.
- Proctoring: one read-modify-write of the session's metadata column, which no guard of the session protocol reads.
- Notifications of the services to each other (events, audit rows, mails about orders) are best effort and read by no modelled guard.
- Time: the clock of `AssessmentSession` has a few ticks; the others have no clock, and whatever expires may expire at any time.
