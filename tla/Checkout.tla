------------------------------ MODULE Checkout ------------------------------
(***************************************************************************)
(* One student buys courses: cart.service.ts, payment.service.ts and the   *)
(* controllers that the gateways and the student's browser call.           *)
(*                                                                         *)
(* A handler is a request in flight; every await between two accesses to   *)
(* the tables ends a step.  Stripe is external: it charges or declines,    *)
(* and it repeats each notification until one delivery is acknowledged,    *)
(* while an earlier delivery may still be at work.  MoMo payments are      *)
(* transfers between persons that an operator confirms by hand.            *)
(*                                                                         *)
(* Nothing looks at the status of an order before writing it, so the       *)
(* variable settled remembers which orders were ever marked as completed.  *)
(***************************************************************************)
EXTENDS Naturals, FiniteSets

CONSTANTS
    Courses,      \* courses for sale
    Orders,       \* order codes
    NoOrder,      \* what a request that names no order carries
    Handlers,     \* requests that may be in flight at the same time
    Methods,      \* payment methods the student uses
    Pages,        \* what the student does beside paying by card, see below
    SuccessKinds, \* events that announce one charge, handled alike
    DeclineKinds, \* {"payment_intent.payment_failed"}, or none
    Grantable,    \* courses with another way in (enrollment.controller.ts)
    MaxCrashes,   \* bound: how often the process dies
    MaxFaults     \* bound: orders whose callback meets a database error

ASSUME OrdersAssumption == IsFiniteSet(Orders) /\ NoOrder \notin Orders
ASSUME MethodsAssumption ==
    /\ Methods \subseteq {"stripe", "momo"}
    /\ Pages \subseteq {"cart", "courses", "return", "momo"}
ASSUME KindsAssumption ==
    /\ SuccessKinds # {}
    /\ SuccessKinds \cap DeclineKinds = {}
    /\ "none" \notin SuccessKinds \cup DeclineKinds
ASSUME GrantableAssumption == Grantable \subseteq Courses
ASSUME CheckoutBounds == MaxCrashes \in Nat /\ MaxFaults \in Nat

VARIABLES
    cart,      \* courses in the cart table
    enrolled,  \* courses in the enrollments table
    order,     \* the payments row of an order code, with its items
    charged,   \* orders Stripe has taken the money for
    events,    \* notifications Stripe keeps sending
    granted,   \* courses entered without an order
    settled,   \* orders ever marked as completed
    failed,    \* orders in whose callback a database error was swallowed
    pc, job,   \* where each handler stands and its locals
    crashes    \* how often the process has died

tables == <<cart, enrolled, order>>
outside == <<charged, events, granted, settled, failed, crashes>>
vars == <<cart, enrolled, order, charged, events, granted, settled, failed,
          pc, job, crashes>>

-----------------------------------------------------------------------------
(* Data. *)

PaymentStatus == {"pending", "completed", "failed", "pending_verification"}

Payment == [status : PaymentStatus \cup {"absent"},
            method : Methods \cup {"none"}, items : SUBSET Courses]
NoPayment == [status |-> "absent", method |-> "none", items |-> {}]

Event == [order : Orders, kind : SuccessKinds \cup DeclineKinds]
NoEvent == [order |-> NoOrder, kind |-> "none"]

\* left and missing are enrollUserInCourses' loop and its newEnrollments.
Job == [order : Orders \cup {NoOrder}, event : Event \cup {NoEvent},
        items : SUBSET Courses, left : SUBSET Courses,
        missing : SUBSET Courses]
NoJob == [order |-> NoOrder, event |-> NoEvent, items |-> {}, left |-> {},
          missing |-> {}]

PC == {"idle", "insert", "create", "update", "enrol", "clear"}

Placed(o) == order[o].status # "absent"

TypeOK ==
    /\ cart \subseteq Courses
    /\ enrolled \subseteq Courses
    /\ order \in [Orders -> Payment]
    /\ charged \subseteq Orders
    /\ events \subseteq Event
    /\ granted \subseteq Courses
    /\ settled \subseteq Orders
    /\ failed \subseteq Orders
    /\ pc \in [Handlers -> PC]
    /\ job \in [Handlers -> Job]
    /\ crashes \in Nat

Init ==
    /\ cart = {}
    /\ enrolled = {}
    /\ order = [o \in Orders |-> NoPayment]
    /\ charged = {}
    /\ events = {}
    /\ granted = {}
    /\ settled = {}
    /\ failed = {}
    /\ pc = [h \in Handlers |-> "idle"]
    /\ job = [h \in Handlers |-> NoJob]
    /\ crashes = 0

Begin(h, label, locals) ==
    /\ pc[h] = "idle"
    /\ pc' = [pc EXCEPT ![h] = label]
    /\ job' = [job EXCEPT ![h] = locals]

Finish(h) ==
    /\ pc' = [pc EXCEPT ![h] = "idle"]
    /\ job' = [job EXCEPT ![h] = NoJob]

-----------------------------------------------------------------------------
(* The cart. *)

\* addToCart up to its check of the enrolment.
AddToCart(h, c) ==
    /\ "cart" \in Pages
    /\ c \notin enrolled
    /\ Begin(h, "insert", [NoJob EXCEPT !.items = {c}])
    /\ UNCHANGED <<tables, outside>>

\* The rest of addToCart: an item already there refuses the request, by the
\* lookup or by the unique key, and the cart stays as it is.
Insert(h) ==
    /\ pc[h] = "insert"
    /\ cart' = cart \cup job[h].items
    /\ Finish(h)
    /\ UNCHANGED <<enrolled, order, outside>>

RemoveFromCart(c) ==
    /\ c \in cart
    /\ cart' = cart \ {c}
    /\ UNCHANGED <<enrolled, order, pc, job, outside>>

\* enrollUserInCourse: in without an order.
Grant(c) ==
    /\ c \in Grantable \ enrolled
    /\ enrolled' = enrolled \cup {c}
    /\ granted' = granted \cup {c}
    /\ UNCHANGED <<cart, order, charged, events, settled, failed, pc, job, crashes>>

-----------------------------------------------------------------------------
(* Orders. *)

\* createPaymentFromCart and processPayment up to the transaction.  Enrolments
\* are never taken back, so the lookups of one request are one step.
Order(h, S) ==
    /\ S \cap enrolled = {}
    /\ Begin(h, "create", [NoJob EXCEPT !.items = S])
    /\ UNCHANGED <<tables, outside>>

OrderCart(h) == cart # {} /\ Order(h, cart)

\* Nothing asks that the list of courses has a member.
OrderCourses(h) == "courses" \in Pages /\ \E S \in SUBSET Courses : Order(h, S)

\* The transaction inserts the order and its items; when the gateway gives no
\* payment page it is rolled back.
Create(h) ==
    /\ pc[h] = "create"
    /\ \/ \E o \in Orders, m \in Methods :
            /\ ~Placed(o)
            /\ order' = [order EXCEPT ![o] =
                   [status |-> "pending", method |-> m, items |-> job[h].items]]
       \/ UNCHANGED order
    /\ Finish(h)
    /\ UNCHANGED <<cart, enrolled, outside>>

-----------------------------------------------------------------------------
(* Stripe. *)

Charge(o) ==
    /\ order[o].method = "stripe"
    /\ o \notin charged
    /\ charged' = charged \cup {o}
    /\ events' = events \cup {[order |-> o, kind |-> k] : k \in SuccessKinds}
    /\ UNCHANGED <<tables, granted, settled, failed, pc, job, crashes>>

\* A card is refused; the student may try again.
Decline(o) ==
    /\ order[o].method = "stripe"
    /\ o \notin charged
    /\ DeclineKinds # {}
    /\ events' = events \cup {[order |-> o, kind |-> k] : k \in DeclineKinds}
    /\ UNCHANGED <<tables, charged, granted, settled, failed, pc, job, crashes>>

-----------------------------------------------------------------------------
(* Callbacks. *)

\* Mutant: only an order that waits for its payment is handled.
WebhookOnce(h, e) ==
    /\ order[e.order].status = "pending"
    /\ Begin(h, "update", [NoJob EXCEPT !.order = e.order, !.event = e])
    /\ UNCHANGED <<tables, outside>>

\* Mutant: the webhook answers before it works.
WebhookEarly(h, e) ==
    /\ Begin(h, "update", [NoJob EXCEPT !.order = e.order, !.event = e])
    /\ events' = events \ {e}
    /\ UNCHANGED <<tables, charged, granted, settled, failed, crashes>>

\* handleWebhook: whatever the kind of the event, its signature makes
\* verifyCallback answer true and handlePaymentCallback goes on to complete.
Webhook(h, e) ==
    /\ Begin(h, "update", [NoJob EXCEPT !.order = e.order, !.event = e])
    /\ UNCHANGED <<tables, outside>>

\* verifyMoMoPayment: an operator found the transfer.  The request may name any
\* order; nothing asks how that one is paid.
VerifyMoMo(h, o) ==
    /\ "momo" \in Pages
    /\ Placed(o)
    /\ Begin(h, "update", [NoJob EXCEPT !.order = o])
    /\ UNCHANGED <<tables, outside>>

\* stripeSuccess, of a browser that comes back from a paid checkout or reloads
\* the page: the answer of getPaymentStatus has no session_id, verifyCallback
\* is false, and handlePaymentCallback marks the order as failed.
Redirect(o) ==
    /\ "return" \in Pages
    /\ o \in charged
    /\ order' = [order EXCEPT ![o].status = "failed"]
    /\ UNCHANGED <<cart, enrolled, pc, job, outside>>

\* markMoMoPaid: the student says that the transfer was sent, of any order.
MarkMoMoPaid(o) ==
    /\ "momo" \in Pages
    /\ Placed(o)
    /\ order' = [order EXCEPT ![o].status = "pending_verification"]
    /\ UNCHANGED <<cart, enrolled, pc, job, outside>>

\* Mutant: Stripe's word for it.
PaidStatusStripe == "succeeded"

PaidStatus == "completed"

\* updatePaymentStatus(COMPLETED), then the loop over the items begins.
Update(h) ==
    LET o == job[h].order IN
    /\ pc[h] = "update"
    /\ order' = [order EXCEPT ![o].status = PaidStatus]
    /\ settled' = settled \cup {o}
    /\ pc' = [pc EXCEPT ![h] = "enrol"]
    /\ job' = [job EXCEPT ![h].left = order[o].items]
    /\ UNCHANGED <<cart, enrolled, charged, events, granted, failed, crashes>>

\* enrollUserInCourses looks an item up, and collects it when it is missing.
Lookup(h, c) ==
    /\ pc[h] = "enrol"
    /\ c \in job[h].left
    /\ job' = [job EXCEPT ![h].left = @ \ {c},
                          ![h].missing = @ \cup ({c} \ enrolled)]
    /\ UNCHANGED <<tables, outside, pc>>

\* Mutant: the enrolments are saved one by one.
SaveEach(h) ==
    /\ pc[h] = "enrol"
    /\ job[h].left = {}
    /\ \E c \in job[h].missing \ enrolled :
         /\ enrolled' = enrolled \cup {c}
         /\ job' = [job EXCEPT ![h].missing = @ \ {c}]
         /\ pc' = [pc EXCEPT ![h] = IF job[h].missing = {c} THEN "clear" ELSE @]
    /\ UNCHANGED <<cart, order, outside>>

\* The array is saved in one transaction.
Save(h) ==
    /\ pc[h] = "enrol"
    /\ job[h].left = {}
    /\ job[h].missing \cap enrolled = {}
    /\ enrolled' = enrolled \cup job[h].missing
    /\ pc' = [pc EXCEPT ![h] = "clear"]
    /\ UNCHANGED <<cart, order, job, outside>>

\* Stripe is done with an event once it gets a reply in time.
Reply(h) ==
    /\ events' = events \ {job[h].event} \/ UNCHANGED events
    /\ Finish(h)

\* The unique key (studentId, courseId) rejects the whole array; the webhook
\* logs the error and replies as ever.
Duplicate(h) ==
    /\ pc[h] = "enrol"
    /\ job[h].left = {}
    /\ job[h].missing \cap enrolled # {}
    /\ Reply(h)
    /\ UNCHANGED <<tables, charged, granted, settled, failed, crashes>>

\* clearUserCart deletes all rows of the user.
Clear(h) ==
    /\ pc[h] = "clear"
    /\ cart' = {}
    /\ Reply(h)
    /\ UNCHANGED <<enrolled, order, charged, granted, settled, failed, crashes>>

\* Any access of the callback may fail; the error is logged and the reply is
\* the same.
Fault(h) ==
    /\ pc[h] \in {"update", "enrol", "clear"}
    /\ Cardinality(failed) < MaxFaults
    /\ failed' = failed \cup {job[h].order}
    /\ Reply(h)
    /\ UNCHANGED <<tables, charged, granted, settled, crashes>>

\* The process exits: requests in flight end without a reply.
Crash ==
    /\ crashes < MaxCrashes
    /\ crashes' = crashes + 1
    /\ pc' = [h \in Handlers |-> "idle"]
    /\ job' = [h \in Handlers |-> NoJob]
    /\ UNCHANGED <<tables, charged, events, granted, settled, failed>>

-----------------------------------------------------------------------------
Handle(h) ==
    \/ Insert(h)
    \/ Create(h)
    \/ Update(h)
    \/ \E c \in Courses : Lookup(h, c)
    \/ Save(h)
    \/ Duplicate(h)
    \/ Clear(h)

Request(h) ==
    \/ \E c \in Courses : AddToCart(h, c)
    \/ OrderCart(h)
    \/ OrderCourses(h)
    \/ \E o \in Orders : VerifyMoMo(h, o)

Next ==
    \/ \E h \in Handlers :
        \/ Handle(h)
        \/ Request(h)
        \/ \E e \in events : Webhook(h, e)
        \/ Fault(h)
    \/ \E c \in Courses : RemoveFromCart(c) \/ Grant(c)
    \/ \E o \in Orders : Charge(o) \/ Decline(o) \/ Redirect(o) \/ MarkMoMoPaid(o)
    \/ Crash

Spec == Init /\ [][Next]_vars

Deliver(e) == e \in events /\ \E h \in Handlers : Webhook(h, e)

\* A handler that runs is driven by the event loop, and Stripe repeats an event
\* until it is acknowledged.  Strong fairness, because a delivery waits here for
\* one of finitely many handlers, while the server takes any number of requests.
FairSpec ==
    /\ Spec
    /\ \A h \in Handlers : WF_vars(Handle(h))
    /\ \A e \in Event : SF_vars(Deliver(e))

-----------------------------------------------------------------------------
(* Properties. *)

\* No other order and no other way in shares a course with this order, and no
\* database error cut off one of its callbacks.
Undisturbed(o) ==
    /\ o \notin failed
    /\ order[o].items \cap granted = {}
    /\ \A p \in Orders \ {o} : order[o].items \cap order[p].items = {}

Enrolls(o) == order[o].items \subseteq enrolled

\* The webhook never tells Stripe that a charged order is settled while its
\* courses are missing: either Stripe will send again, or the student is in all
\* of them.  It may not hold when something disturbs the order: then a unique
\* key or a database error rejects the enrolments and the error is swallowed.
AckedEnrolled ==
    \A o \in charged : Undisturbed(o) =>
        Enrolls(o) \/ \E e \in events : e.order = o /\ e.kind \in SuccessKinds

\* A charged order enrols its student in the end, through crashes, repeated and
\* overlapping deliveries, unless something disturbs it.
PaidEnrolled ==
    \A o \in Orders : (o \in charged) ~> (Enrolls(o) \/ ~Undisturbed(o))

\* handlePaymentCallback enrols from completed orders only, and from each in
\* all of its courses or in none.
Abstract == INSTANCE Enrolment WITH
    placed <- {o \in Orders : Placed(o)}, items <- [o \in Orders |-> order[o].items]
EnrolmentSpec == Abstract!Spec

\* stripe.service.ts:280, "Payment failed": a Stripe order that is marked as
\* completed was charged.
CompletedCharged ==
    \A o \in Orders :
        order[o].method = "stripe" /\ order[o].status = "completed" => o \in charged
=============================================================================
