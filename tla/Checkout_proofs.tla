-------------------------- MODULE Checkout_proofs --------------------------
(* Theorems about Checkout, for any number of courses, orders, requests and *)
(* kinds of event, and any bounds.                                          *)
EXTENDS Checkout, TLAPS

Callback == {"update", "enrol", "clear"}

\* What a handler knows where it stands.
HandlerOK(h) ==
    /\ pc[h] \in Callback =>
        /\ job[h].order \in Orders
        /\ Placed(job[h].order)
        /\ job[h].event = NoEvent \/ job[h].event.order = job[h].order
    /\ pc[h] = "update" => job[h].missing = {}
    /\ pc[h] \in {"enrol", "clear"} => job[h].order \in settled
    /\ pc[h] = "enrol" =>
        /\ job[h].left \cup job[h].missing \subseteq order[job[h].order].items
        /\ order[job[h].order].items
              \subseteq job[h].left \cup job[h].missing \cup enrolled
    /\ pc[h] = "clear" => Enrolls(job[h].order)

HandlersOK == \A h \in Handlers : HandlerOK(h)

\* An order has a method and courses only from the moment it is placed.
RowsOK ==
    \A o \in Orders :
        /\ ~Placed(o) => order[o] = NoPayment
        /\ o \in charged \cup settled => Placed(o)

EventsOK == \A e \in events : Placed(e.order)

\* Nothing that an action writes is taken back.
Grows ==
    /\ \A o \in Orders : Placed(o) => Placed(o)' /\ order'[o].items = order[o].items
    /\ enrolled \subseteq enrolled'
    /\ granted \subseteq granted'
    /\ settled \subseteq settled'
    /\ failed \subseteq failed'

\* No order is placed or changes its courses, and nobody is enrolled or granted
\* a course.
Still ==
    /\ \A o \in Orders : (Placed(o)' <=> Placed(o)) /\ order'[o].items = order[o].items
    /\ enrolled' = enrolled
    /\ granted' = granted

Basic == TypeOK /\ HandlersOK /\ RowsOK /\ EventsOK

-----------------------------------------------------------------------------
(* Types and what the handlers know. *)

LEMMA Nothing == NoPayment \in Payment /\ NoJob \in Job
  BY DEF NoPayment, Payment, NoJob, Job

LEMMA SetOrder ==
    ASSUME TypeOK, NEW o \in Orders, NEW st \in PaymentStatus \cup {"absent"}
    PROVE  /\ [order EXCEPT ![o].status = st] \in [Orders -> Payment]
           /\ \A p \in Orders : /\ [order EXCEPT ![o].status = st][p].items = order[p].items
                                /\ p # o => [order EXCEPT ![o].status = st][p] = order[p]
<1>1. order \in [Orders -> Payment] /\ order[o] \in Payment
  BY DEF TypeOK
<1>2. [order[o] EXCEPT !.status = st] \in Payment
  BY <1>1 DEF Payment
<1>3. [order EXCEPT ![o].status = st] = [order EXCEPT ![o] = [order[o] EXCEPT !.status = st]]
  BY <1>1
<1>. QED  BY <1>1, <1>2, <1>3 DEF Payment

\* What a handler knows stays true while it stands still.
LEMMA HandlerStable ==
    ASSUME Basic, Grows, NEW h \in Handlers, pc'[h] = pc[h], job'[h] = job[h]
    PROVE  HandlerOK(h)'
  BY DEF Basic, Grows, HandlersOK, HandlerOK, Enrolls, Callback, Placed

\* One handler moves on, and the others stay where they are.
LEMMA HandlerStep ==
    ASSUME Basic, Grows, NEW h \in Handlers, NEW l \in PC, NEW j \in Job,
           pc' = [pc EXCEPT ![h] = l], job' = [job EXCEPT ![h] = j],
           pc'[h] = l /\ job'[h] = j => HandlerOK(h)'
    PROVE  HandlersOK' /\ pc' \in [Handlers -> PC] /\ job' \in [Handlers -> Job]
<1>1. pc \in [Handlers -> PC] /\ job \in [Handlers -> Job]
  BY DEF Basic, TypeOK
<1>2. pc' \in [Handlers -> PC] /\ job' \in [Handlers -> Job]
  BY <1>1
<1>3. ASSUME NEW g \in Handlers  PROVE HandlerOK(g)'
  <2>1. CASE g = h
    BY <1>1, <2>1
  <2>2. CASE g # h
    BY <1>1, <2>2, HandlerStable
  <2>. QED  BY <2>1, <2>2
<1>. QED  BY <1>2, <1>3 DEF HandlersOK

LEMMA HandlersStay ==
    ASSUME Basic, Grows, UNCHANGED <<pc, job>>
    PROVE  HandlersOK' /\ pc' \in [Handlers -> PC] /\ job' \in [Handlers -> Job]
  BY HandlerStable DEF Basic, TypeOK, HandlersOK

\* A handler that is done knows nothing.
LEMMA Finished ==
    ASSUME Basic, Grows, NEW h \in Handlers, Finish(h)
    PROVE  HandlersOK' /\ pc' \in [Handlers -> PC] /\ job' \in [Handlers -> Job]
<1>1. "idle" \in PC /\ NoJob \in Job
  BY Nothing DEF PC
<1>2. pc'[h] = "idle" => HandlerOK(h)'
  BY DEF HandlerOK, Callback
<1>. QED  BY <1>1, <1>2, HandlerStep DEF Finish

\* Reading the tables, or changing only the cart, changes no order.
LEMMA Untouched ==
    ASSUME Basic, UNCHANGED <<enrolled, order, charged, granted, settled>>,
           events' \subseteq events, failed \subseteq failed'
    PROVE  Grows /\ Still /\ RowsOK' /\ EventsOK'
  BY DEF Basic, Grows, Still, RowsOK, Placed, EventsOK

\* A write of the status of an order that has been placed.
LEMMA StatusStep ==
    ASSUME Basic, NEW o \in Orders, Placed(o),
           NEW st \in PaymentStatus, order' = [order EXCEPT ![o].status = st],
           settled' \in {settled, settled \cup {o}},
           UNCHANGED <<enrolled, charged, events, granted, failed>>
    PROVE  Grows /\ Still /\ RowsOK' /\ EventsOK' /\ order' \in [Orders -> Payment]
<1>1. /\ order' \in [Orders -> Payment]
      /\ \A p \in Orders : order'[p].items = order[p].items
                           /\ (p # o => order'[p] = order[p])
  BY SetOrder DEF Basic
<1>2. \A p \in Orders : Placed(p)' <=> Placed(p)
  <2>1. order'[o].status = st
    BY DEF Basic, TypeOK, Payment
  <2>. QED  BY <1>1, <2>1 DEF Placed, PaymentStatus
<1>3. RowsOK'
  BY <1>1, <1>2 DEF Basic, RowsOK
<1>4. EventsOK'
  BY <1>2 DEF Basic, EventsOK, TypeOK, Event
<1>. QED  BY <1>1, <1>2, <1>3, <1>4 DEF Grows, Still

\* A reply takes away at most an event of the order that was handled.
LEMMA ReplyEvents ==
    ASSUME Basic, NEW h \in Handlers, pc[h] \in Callback, Reply(h)
    PROVE  /\ events' \subseteq events
           /\ \A e \in events \ events' : e.order = job[h].order
<1>1. job[h].event = NoEvent \/ job[h].event.order = job[h].order
  BY DEF Basic, HandlersOK, HandlerOK
<1>2. NoEvent \notin events
  BY OrdersAssumption DEF Basic, TypeOK, Event, NoEvent
<1>. QED  BY <1>1, <1>2 DEF Reply

LEMMA CreateStep ==
    ASSUME Basic, NEW h \in Handlers, Create(h)
    PROVE  Basic' /\ Grows
<1>1. job[h].items \subseteq Courses
  BY DEF Basic, TypeOK, Job
<1>2. /\ order' \in [Orders -> Payment]
      /\ Grows /\ RowsOK' /\ EventsOK'
  <2>1. CASE UNCHANGED order
    BY <2>1, Untouched DEF Create, outside, Basic, TypeOK
  <2>2. ASSUME NEW o \in Orders, NEW m \in Methods, ~Placed(o),
               order' = [order EXCEPT ![o] = [status |-> "pending", method |-> m,
                                              items |-> job[h].items]]
        PROVE  /\ order' \in [Orders -> Payment]
               /\ Grows /\ RowsOK' /\ EventsOK'
    <3>1. order \in [Orders -> Payment]
      BY DEF Basic, TypeOK
    <3>2. [status |-> "pending", method |-> m, items |-> job[h].items] \in Payment
      BY <1>1 DEF Payment, PaymentStatus
    <3>3. order' \in [Orders -> Payment]
      BY <2>2, <3>1, <3>2
    <3>4. /\ order'[o].items = job[h].items /\ order'[o].status = "pending"
          /\ \A p \in Orders \ {o} : order'[p] = order[p]
      BY <2>2, <3>1
    <3>5. UNCHANGED <<enrolled, outside>>
      BY DEF Create
    <3>6. Placed(o)' /\ \A p \in Orders \ {o} : Placed(p)' <=> Placed(p)
      BY <3>4 DEF Placed
    <3>7. Grows
      BY <2>2, <3>4, <3>5, <3>6 DEF Grows, outside
    <3>8. RowsOK'
      BY <3>4, <3>5, <3>6 DEF Basic, RowsOK, outside
    <3>9. EventsOK'
      BY <3>5, <3>6 DEF Basic, EventsOK, TypeOK, Event, outside
    <3>. QED  BY <3>3, <3>7, <3>8, <3>9
  <2>. QED  BY <2>1, <2>2 DEF Create
<1>3. HandlersOK' /\ pc' \in [Handlers -> PC] /\ job' \in [Handlers -> Job]
  BY <1>2, Finished DEF Create
<1>. QED  BY <1>2, <1>3 DEF Create, outside, Basic, TypeOK

\* The handlers that begin.
LEMMA BeginStep ==
    ASSUME Basic, NEW h \in Handlers, NEW l \in {"insert", "create", "update"},
           NEW j \in Job, Begin(h, l, j),
           l = "update" => /\ j.order \in Orders /\ Placed(j.order)
                           /\ j.event = NoEvent \/ j.event.order = j.order
                           /\ j.missing = {},
           UNCHANGED <<tables, outside>>
    PROVE  Basic' /\ Grows /\ Still
<1>1. Grows /\ Still /\ RowsOK' /\ EventsOK'
  BY Untouched DEF tables, outside
<1>2. pc'[h] = l /\ job'[h] = j => HandlerOK(h)'
  BY DEF HandlerOK, Callback, Placed, tables, outside
<1>3. HandlersOK' /\ pc' \in [Handlers -> PC] /\ job' \in [Handlers -> Job]
  BY <1>1, <1>2, HandlerStep DEF Begin, PC
<1>. QED  BY <1>1, <1>3 DEF Basic, TypeOK, tables, outside

LEMMA AddToCartStep ==
    ASSUME Basic, NEW h \in Handlers, NEW c \in Courses, AddToCart(h, c)
    PROVE  Basic' /\ Grows /\ Still
<1>1. [NoJob EXCEPT !.items = {c}] \in Job
  BY Nothing DEF Job
<1>. QED  BY <1>1, BeginStep DEF AddToCart

LEMMA OrderStep ==
    ASSUME Basic, NEW h \in Handlers, NEW S \in SUBSET Courses, Order(h, S)
    PROVE  Basic' /\ Grows /\ Still
<1>1. [NoJob EXCEPT !.items = S] \in Job /\ [NoJob EXCEPT !.items = S].items = S
  BY DEF NoJob, Job
<1>. QED  BY <1>1, BeginStep DEF Order

\* Stripe names an order that has been placed.
LEMMA MethodPlaced ==
    ASSUME Basic, NEW o \in Orders, order[o].method = "stripe"
    PROVE  Placed(o)
  BY DEF Basic, RowsOK, NoPayment

LEMMA WebhookStep ==
    ASSUME Basic, NEW h \in Handlers, NEW e \in events, Webhook(h, e)
    PROVE  Basic' /\ Grows /\ Still
<1>1. e \in Event /\ e.order \in Orders /\ Placed(e.order)
  BY DEF Basic, TypeOK, EventsOK, Event
<1>2. /\ [NoJob EXCEPT !.order = e.order, !.event = e] \in Job
      /\ [NoJob EXCEPT !.order = e.order, !.event = e].order = e.order
      /\ [NoJob EXCEPT !.order = e.order, !.event = e].event = e
      /\ [NoJob EXCEPT !.order = e.order, !.event = e].missing = {}
  BY <1>1 DEF NoJob, Job
<1>. QED  BY <1>1, <1>2, BeginStep DEF Webhook

LEMMA VerifyMoMoStep ==
    ASSUME Basic, NEW h \in Handlers, NEW o \in Orders, VerifyMoMo(h, o)
    PROVE  Basic' /\ Grows /\ Still
<1>1. /\ [NoJob EXCEPT !.order = o] \in Job
      /\ [NoJob EXCEPT !.order = o].order = o
      /\ [NoJob EXCEPT !.order = o].event = NoEvent
      /\ [NoJob EXCEPT !.order = o].missing = {}
  BY DEF NoJob, Job
<1>. QED  BY <1>1, BeginStep DEF VerifyMoMo

LEMMA UpdateStep ==
    ASSUME Basic, NEW h \in Handlers, Update(h)
    PROVE  Basic' /\ Grows /\ Still
<1> DEFINE o == job[h].order
<1> DEFINE j == [job[h] EXCEPT !.left = order[o].items]
<1>1. /\ o \in Orders /\ Placed(o)
      /\ job[h].event = NoEvent \/ job[h].event.order = o
      /\ job[h].missing = {}
  BY DEF Update, Basic, HandlersOK, HandlerOK, Callback
<1>2. job[h] \in Job /\ order[o].items \subseteq Courses
  BY <1>1 DEF Basic, TypeOK, Payment
<1>3. /\ j \in Job /\ j.left = order[o].items
      /\ j.order = o /\ j.event = job[h].event /\ j.missing = job[h].missing
  BY <1>2 DEF Job
<1>4. Grows /\ Still /\ RowsOK' /\ EventsOK' /\ order' \in [Orders -> Payment]
  BY <1>1, StatusStep DEF Update, PaidStatus, PaymentStatus
<1>5. job' = [job EXCEPT ![h] = j] /\ pc' = [pc EXCEPT ![h] = "enrol"]
  BY DEF Update, Basic, TypeOK
<1>6. o \in settled' /\ enrolled' = enrolled
  BY DEF Update
<1>7. pc'[h] = "enrol" /\ job'[h] = j => HandlerOK(h)'
  BY <1>1, <1>3, <1>4, <1>6 DEF HandlerOK, Callback, Still
<1>8. HandlersOK' /\ pc' \in [Handlers -> PC] /\ job' \in [Handlers -> Job]
  BY <1>3, <1>4, <1>5, <1>7, HandlerStep DEF PC
<1>. QED  BY <1>1, <1>4, <1>8 DEF Update, Basic, TypeOK

LEMMA LookupStep ==
    ASSUME Basic, NEW h \in Handlers, NEW c \in Courses, Lookup(h, c)
    PROVE  Basic' /\ Grows /\ Still
<1> DEFINE j == [job[h] EXCEPT !.left = @ \ {c}, !.missing = @ \cup ({c} \ enrolled)]
<1>1. job[h] \in Job
  BY DEF Basic, TypeOK
<1>2. /\ j \in Job
      /\ j.order = job[h].order /\ j.event = job[h].event
      /\ j.left = job[h].left \ {c}
      /\ j.missing = job[h].missing \cup ({c} \ enrolled)
  BY <1>1 DEF Job
<1>3. job' = [job EXCEPT ![h] = j] /\ pc' = [pc EXCEPT ![h] = "enrol"]
  BY DEF Lookup, Basic, TypeOK
<1>4. Grows /\ Still /\ RowsOK' /\ EventsOK'
  BY Untouched DEF Lookup, tables, outside
<1>5. HandlerOK(h) /\ pc[h] = "enrol" /\ c \in job[h].left /\ job[h].left \subseteq order[job[h].order].items
  BY DEF Lookup, Basic, HandlersOK, HandlerOK
<1>6. ASSUME pc'[h] = "enrol", job'[h] = j  PROVE HandlerOK(h)'
  <2> DEFINE I == order[job[h].order].items
  <2>1. /\ j.left \cup j.missing \subseteq I
        /\ I \subseteq j.left \cup j.missing \cup enrolled
    BY <1>2, <1>5 DEF HandlerOK
  <2>2. UNCHANGED <<order, enrolled, settled>>
    BY DEF Lookup, tables, outside
  <2>. QED  BY <1>2, <1>5, <1>6, <2>1, <2>2 DEF HandlerOK, Callback, Placed
<1>7. HandlersOK' /\ pc' \in [Handlers -> PC] /\ job' \in [Handlers -> Job]
  BY <1>2, <1>3, <1>4, <1>6, HandlerStep DEF PC
<1>. QED  BY <1>4, <1>7 DEF Lookup, tables, outside, Basic, TypeOK

LEMMA SaveStep ==
    ASSUME Basic, NEW h \in Handlers, Save(h)
    PROVE  /\ Basic' /\ Grows
           /\ job[h].order \in settled
           /\ enrolled' = enrolled \cup order[job[h].order].items
<1> DEFINE o == job[h].order
<1>1. HandlerOK(h) /\ pc[h] = "enrol" /\ job[h].left = {} /\ job[h] \in Job
  BY DEF Save, Basic, HandlersOK, TypeOK
<1>2. /\ o \in settled /\ o \in Orders
      /\ job[h].missing \subseteq order[o].items
      /\ order[o].items \subseteq job[h].missing \cup enrolled
      /\ order[o].items \subseteq Courses
  BY <1>1 DEF HandlerOK, Callback, Basic, TypeOK, Payment
<1>3. enrolled' = enrolled \cup order[o].items
  BY <1>2 DEF Save
<1>4. Grows /\ RowsOK' /\ EventsOK'
  BY <1>3 DEF Save, outside, Basic, Grows, RowsOK, Placed, EventsOK
<1>5. pc'[h] = "clear" /\ job'[h] = job[h] => HandlerOK(h)'
  BY <1>1, <1>2, <1>3 DEF Save, HandlerOK, Callback, Enrolls, Placed, outside
<1>6. job' = [job EXCEPT ![h] = job[h]]
  BY DEF Save, Basic, TypeOK
<1>7. HandlersOK' /\ pc' \in [Handlers -> PC] /\ job' \in [Handlers -> Job]
  BY <1>1, <1>4, <1>5, <1>6, HandlerStep DEF Save, PC
<1>. QED  BY <1>2, <1>3, <1>4, <1>7 DEF Save, outside, Basic, TypeOK

\* The handlers that end, whether they did their work or not.
LEMMA ReplyStep ==
    ASSUME Basic, NEW h \in Handlers, pc[h] \in Callback, Reply(h),
           UNCHANGED <<enrolled, order, charged, granted, settled, crashes>>,
           cart' \in {cart, {}}, failed' \in {failed, failed \cup {job[h].order}}
    PROVE  Basic' /\ Grows /\ Still
<1>1. events' \subseteq events
  BY ReplyEvents
<1>2. Grows /\ Still /\ RowsOK' /\ EventsOK'
  BY <1>1, Untouched
<1>3. HandlersOK' /\ pc' \in [Handlers -> PC] /\ job' \in [Handlers -> Job]
  BY <1>2, Finished DEF Reply
<1>4. job[h].order \in Orders
  BY DEF Basic, HandlersOK, HandlerOK
<1>. QED  BY <1>1, <1>2, <1>3, <1>4 DEF Basic, TypeOK

LEMMA InsertStep ==
    ASSUME Basic, NEW h \in Handlers, Insert(h)
    PROVE  Basic' /\ Grows /\ Still
<1>1. Grows /\ Still /\ RowsOK' /\ EventsOK'
  BY Untouched DEF Insert, outside
<1>2. HandlersOK' /\ pc' \in [Handlers -> PC] /\ job' \in [Handlers -> Job]
  BY <1>1, Finished DEF Insert
<1>. QED  BY <1>1, <1>2 DEF Insert, outside, Basic, TypeOK, Job

LEMMA CartStep ==
    ASSUME Basic, cart' \subseteq cart, UNCHANGED <<enrolled, order, pc, job, outside>>
    PROVE  Basic' /\ Grows /\ Still
<1>1. Grows /\ Still /\ RowsOK' /\ EventsOK'
  BY Untouched DEF outside
<1>. QED  BY <1>1, HandlersStay DEF outside, Basic, TypeOK

LEMMA GrantStep ==
    ASSUME Basic, NEW c \in Courses, Grant(c)
    PROVE  Basic' /\ Grows
<1>1. Grows /\ RowsOK' /\ EventsOK'
  BY DEF Grant, Basic, Grows, RowsOK, Placed, EventsOK
<1>. QED  BY <1>1, HandlersStay DEF Grant, Basic, TypeOK

\* Stripe charges or declines.
LEMMA StripeStep ==
    ASSUME Basic, NEW o \in Orders, Charge(o) \/ Decline(o)
    PROVE  Basic' /\ Grows /\ Still
<1>1. Placed(o)
  BY MethodPlaced DEF Charge, Decline
<1>2. Grows /\ Still
  BY DEF Charge, Decline, tables, Grows, Still, Placed
<1>3. RowsOK'
  BY <1>1 DEF Charge, Decline, tables, Basic, RowsOK, Placed
<1>4. EventsOK' /\ events' \subseteq Event
  BY <1>1 DEF Charge, Decline, tables, Basic, TypeOK, EventsOK, Event, Placed
<1>5. HandlersOK' /\ pc' \in [Handlers -> PC] /\ job' \in [Handlers -> Job]
  BY <1>2, HandlersStay DEF Charge, Decline
<1>. QED  BY <1>2, <1>3, <1>4, <1>5 DEF Charge, Decline, tables, Basic, TypeOK

\* The student's browser writes a status.
LEMMA BrowserStep ==
    ASSUME Basic, NEW o \in Orders, Redirect(o) \/ MarkMoMoPaid(o)
    PROVE  Basic' /\ Grows /\ Still
<1>1. Placed(o)
  BY DEF Redirect, MarkMoMoPaid, Basic, RowsOK
<1>2. Grows /\ Still /\ RowsOK' /\ EventsOK' /\ order' \in [Orders -> Payment]
  <2>1. CASE Redirect(o)
    BY <1>1, <2>1, StatusStep DEF Redirect, PaymentStatus, outside
  <2>2. CASE MarkMoMoPaid(o)
    BY <1>1, <2>2, StatusStep DEF MarkMoMoPaid, PaymentStatus, outside
  <2>. QED  BY <2>1, <2>2
<1>3. HandlersOK' /\ pc' \in [Handlers -> PC] /\ job' \in [Handlers -> Job]
  BY <1>2, HandlersStay DEF Redirect, MarkMoMoPaid
<1>. QED  BY <1>2, <1>3 DEF Redirect, MarkMoMoPaid, outside, Basic, TypeOK

LEMMA CrashStep ==
    ASSUME Basic, Crash
    PROVE  Basic' /\ Grows /\ Still
<1>1. Grows /\ Still /\ RowsOK' /\ EventsOK'
  BY Untouched DEF Crash, tables
<1>2. HandlersOK'
  BY DEF Crash, HandlersOK, HandlerOK, Callback
<1>3. pc' \in [Handlers -> PC] /\ job' \in [Handlers -> Job]
  BY Nothing DEF Crash, PC
<1>. QED  BY <1>1, <1>2, <1>3, CheckoutBounds DEF Crash, tables, Basic, TypeOK

\* The steps that reply.
LEMMA EndStep ==
    ASSUME Basic, NEW h \in Handlers, Duplicate(h) \/ Clear(h) \/ Fault(h)
    PROVE  /\ Basic' /\ Grows /\ Still
           /\ pc[h] \in Callback /\ Reply(h) /\ UNCHANGED <<order, charged>>
<1>1. pc[h] \in Callback /\ Reply(h) /\ UNCHANGED <<order, charged>>
  BY DEF Duplicate, Clear, Fault, Callback, tables
<1>. QED  BY <1>1, ReplyStep DEF Duplicate, Clear, Fault, tables

\* The steps that move no enrolment, order or event but add events.
Quiet ==
    \/ \E h \in Handlers :
        \/ Insert(h) \/ Update(h) \/ (\E c \in Courses : Lookup(h, c) \/ AddToCart(h, c))
        \/ \E S \in SUBSET Courses : Order(h, S)
        \/ \E o \in Orders : VerifyMoMo(h, o)
        \/ \E e \in events : Webhook(h, e)
    \/ \E c \in Courses : RemoveFromCart(c)
    \/ \E o \in Orders : Charge(o) \/ Decline(o) \/ Redirect(o) \/ MarkMoMoPaid(o)
    \/ Crash
    \/ UNCHANGED vars

LEMMA QuietStep ==
    ASSUME Basic, Quiet
    PROVE  Basic' /\ Grows /\ Still
<1>1. CASE UNCHANGED vars
  <2>1. cart' \subseteq cart /\ UNCHANGED <<enrolled, order, pc, job, outside>>
    BY <1>1 DEF vars, outside
  <2>. QED  BY <2>1, CartStep
<1>2. ASSUME NEW c \in Courses, RemoveFromCart(c)  PROVE Basic' /\ Grows /\ Still
  BY <1>2, CartStep DEF RemoveFromCart
<1>. QED  BY <1>1, <1>2, InsertStep, UpdateStep, LookupStep, AddToCartStep, OrderStep,
             VerifyMoMoStep, WebhookStep, StripeStep, BrowserStep, CrashStep DEF Quiet

\* The kinds of step the proofs tell apart.
LEMMA Steps ==
    ASSUME TypeOK, [Next]_vars
    PROVE  \/ Quiet
           \/ \E h \in Handlers : Create(h) \/ Save(h) \/ Duplicate(h) \/ Clear(h) \/ Fault(h)
           \/ \E c \in Courses : Grant(c)
<1>1. cart \in SUBSET Courses
  BY DEF TypeOK
<1>. QED  BY <1>1 DEF Next, Handle, Request, OrderCart, OrderCourses, Quiet

LEMMA BasicStep ==
    ASSUME Basic, [Next]_vars
    PROVE  Basic' /\ Grows
  BY Steps, QuietStep, CreateStep, SaveStep, EndStep, GrantStep DEF Basic

LEMMA BasicInit == Init => Basic
  BY Nothing DEF Init, Basic, TypeOK, HandlersOK, HandlerOK, Callback, RowsOK, EventsOK,
     NoPayment, PC

LEMMA BasicAlways == Spec => []Basic
  BY BasicInit, BasicStep, PTL DEF Spec

\* Every row, request and event is of its type.
THEOREM CheckoutTypes == Spec => []TypeOK
  BY BasicAlways, PTL DEF Basic

-----------------------------------------------------------------------------
(* Checkout implements Enrolment. *)

PlacedOrders == {o \in Orders : Placed(o)}
Items == [o \in Orders |-> order[o].items]

LEMMA QuietSettles ==
    ASSUME Quiet
    PROVE  settled' = settled \/ \E h \in Handlers : Update(h)
  BY DEF Quiet, Insert, Lookup, AddToCart, Order, VerifyMoMo, Webhook, RemoveFromCart,
         Charge, Decline, Redirect, MarkMoMoPaid, Crash, vars, tables, outside

LEMMA QuietRefines ==
    ASSUME Basic, Quiet
    PROVE  [Abstract!Next]_(Abstract!evars)
<1>1. Basic' /\ Still
  BY QuietStep
<1>2. UNCHANGED <<PlacedOrders, Items, granted, enrolled>>
  BY <1>1 DEF Still, PlacedOrders, Items
<1>3. CASE settled' = settled
  BY <1>2, <1>3 DEF Abstract!evars, PlacedOrders, Items
<1>4. ASSUME NEW h \in Handlers, Update(h)
      PROVE  Abstract!Next
  <2> DEFINE o == job[h].order
  <2>1. o \in Orders /\ Placed(o)
    BY <1>4 DEF Update, Basic, HandlersOK, HandlerOK, Callback
  <2>2. Abstract!Settle(o)
    BY <1>2, <1>4, <2>1 DEF Abstract!Settle, Update, PlacedOrders, Items
  <2>. QED  BY <2>1, <2>2 DEF Abstract!Next
<1>. QED  BY <1>3, <1>4, QuietSettles

LEMMA CreateRefines ==
    ASSUME Basic, NEW h \in Handlers, Create(h)
    PROVE  [Abstract!Next]_(Abstract!evars)
<1>1. job[h].items \in SUBSET Courses
  BY DEF Basic, TypeOK, Job
<1>2. UNCHANGED <<settled, granted, enrolled>>
  BY DEF Create, outside
<1>3. CASE UNCHANGED order
  BY <1>2, <1>3 DEF Abstract!evars, Placed
<1>4. ASSUME NEW o \in Orders, NEW m \in Methods, ~Placed(o),
             order' = [order EXCEPT ![o] = [status |-> "pending", method |-> m,
                                            items |-> job[h].items]]
      PROVE  Abstract!Next
  <2>1. o \notin PlacedOrders /\ PlacedOrders' = PlacedOrders \cup {o}
    BY <1>4 DEF Basic, TypeOK, PlacedOrders, Placed
  <2>2. Items' = [Items EXCEPT ![o] = job[h].items]
    BY <1>4 DEF Basic, TypeOK, Items
  <2>3. PICK S \in SUBSET Courses : S = job[h].items
    BY <1>1
  <2>4. Abstract!Place(o, S)
    BY <1>2, <2>1, <2>2, <2>3 DEF Abstract!Place, PlacedOrders, Items
  <2>. QED  BY <2>4 DEF Abstract!Next
<1>. QED  BY <1>3, <1>4 DEF Create

LEMMA SaveRefines ==
    ASSUME Basic, NEW h \in Handlers, Save(h)
    PROVE  Abstract!Next
<1>1. /\ job[h].order \in settled /\ job[h].order \in Orders
      /\ enrolled' = enrolled \cup Items[job[h].order]
  BY SaveStep DEF Items, Basic, TypeOK
<1>2. UNCHANGED <<PlacedOrders, Items, settled, granted>>
  BY DEF Save, outside, PlacedOrders, Placed, Items
<1>3. Abstract!Enrol(job[h].order)
  BY <1>1, <1>2 DEF Abstract!Enrol, PlacedOrders, Items
<1>. QED  BY <1>1, <1>3 DEF Abstract!Next

\* handlePaymentCallback, with whatever interrupts or repeats it, enrols from
\* completed orders only and from each completely or not at all.
THEOREM Implements == Spec => EnrolmentSpec
<1>1. Init => Abstract!Init
  BY DEF Init, Abstract!Init, NoPayment, Placed
<1>2. Basic /\ [Next]_vars => [Abstract!Next]_(Abstract!evars)
  <2> SUFFICES ASSUME Basic, [Next]_vars
               PROVE  [Abstract!Next]_(Abstract!evars)
    OBVIOUS
  <2>1. ASSUME NEW h \in Handlers, Duplicate(h) \/ Clear(h) \/ Fault(h)
        PROVE  UNCHANGED Abstract!evars
    <3>1. Still /\ settled' = settled
      BY <2>1, EndStep DEF Duplicate, Clear, Fault
    <3>. QED  BY <3>1 DEF Still, Abstract!evars
  <2>2. ASSUME NEW c \in Courses, Grant(c)
        PROVE  Abstract!Next
    <3>1. Abstract!Grant(c)
      BY <2>2 DEF Grant, Abstract!Grant, Placed
    <3>. QED  BY <3>1 DEF Abstract!Next
  <2>3. TypeOK
    BY DEF Basic
  <2>. QED  BY <2>1, <2>2, <2>3, Steps, QuietRefines, CreateRefines, SaveRefines
<1>. QED  BY <1>1, <1>2, BasicAlways, PTL DEF Spec, EnrolmentSpec, Abstract!Spec

-----------------------------------------------------------------------------
(* A charged order that nothing disturbs is enrolled before the last event is *)
(* acknowledged.                                                              *)

\* Who is enrolled was let in by a settled order or by another way.
Provenance ==
    \A c \in enrolled : c \in granted \/ \E o \in settled : c \in order[o].items

\* The courses of an undisturbed order are entered together.
WholeOrders ==
    \A o \in Orders :
        Undisturbed(o) /\ order[o].items \cap enrolled # {} => Enrolls(o)

IInv == Basic /\ Provenance /\ WholeOrders /\ AckedEnrolled

\* Disturbances do not go away.
LEMMA UndisturbedBefore ==
    ASSUME Basic, Grows, NEW o \in Orders, Placed(o), Undisturbed(o)'
    PROVE  Undisturbed(o)
  BY DEF Basic, Grows, Undisturbed, RowsOK, NoPayment

LEMMA ProvenanceStill ==
    ASSUME IInv, Basic', Grows, Still
    PROVE  Provenance' /\ WholeOrders'
<1>1. Provenance'
  BY DEF IInv, Basic, TypeOK, Grows, Still, Provenance
<1>2. ASSUME NEW o \in Orders, Undisturbed(o)', order'[o].items \cap enrolled' # {}
      PROVE  Enrolls(o)'
  <2>1. order[o].items \cap enrolled # {}
    BY <1>2 DEF Still
  <2>2. Placed(o)
    BY <2>1 DEF IInv, Basic, RowsOK, NoPayment
  <2>3. Undisturbed(o)
    BY <1>2, <2>2, UndisturbedBefore DEF IInv
  <2>. QED  BY <2>1, <2>3 DEF IInv, WholeOrders, Enrolls, Still
<1>. QED  BY <1>1, <1>2 DEF WholeOrders

\* The events that announce the charge of an order.
Announced(o) == \E e \in events : e.order = o /\ e.kind \in SuccessKinds

\* While no event goes away, nothing is acknowledged.
LEMMA AckedStays ==
    ASSUME IInv, Basic', Grows, events \subseteq events', charged' = charged
    PROVE  AckedEnrolled'
<1>1. ASSUME NEW o \in charged, Undisturbed(o)'
      PROVE  Enrolls(o)' \/ Announced(o)'
  <2>1. o \in Orders /\ Placed(o)
    BY DEF IInv, Basic, TypeOK, RowsOK
  <2>2. Enrolls(o) \/ Announced(o)
    BY <1>1, <2>1, UndisturbedBefore DEF IInv, AckedEnrolled, Announced
  <2>. QED  BY <2>1, <2>2 DEF Enrolls, Announced, Grows
<1>. QED  BY <1>1 DEF AckedEnrolled, Announced

LEMMA QuietEvents ==
    ASSUME Basic, Quiet
    PROVE  /\ events \subseteq events'
           /\ \/ charged' = charged
              \/ \E o \in Orders : Charge(o)
  BY DEF Quiet, Insert, Update, Lookup, AddToCart, Order, Begin, VerifyMoMo, Webhook, RemoveFromCart,
         Charge, Decline, Redirect, MarkMoMoPaid, Crash, vars, tables, outside

LEMMA QuietInv ==
    ASSUME IInv, Quiet
    PROVE  IInv'
<1>1. Basic' /\ Grows /\ Still
  BY QuietStep DEF IInv
<1>2. Provenance' /\ WholeOrders'
  BY <1>1, ProvenanceStill
<1>3. CASE charged' = charged
  BY <1>1, <1>2, <1>3, QuietEvents, AckedStays DEF IInv
<1>4. ASSUME NEW o \in Orders, Charge(o)
      PROVE  AckedEnrolled'
  <2>1. ASSUME NEW p \in charged', Undisturbed(p)'
        PROVE  Enrolls(p)' \/ Announced(p)'
    <3>1. CASE p = o
      <4>1. PICK k \in SuccessKinds : TRUE
        BY KindsAssumption
      <4>2. [order |-> o, kind |-> k] \in events'
        BY <1>4, <4>1 DEF Charge
      <4>. QED  BY <3>1, <4>1, <4>2 DEF Announced
    <3>2. CASE p # o
      <4>1. p \in charged /\ p \in Orders
        BY <1>4, <2>1, <3>2 DEF Charge, IInv, Basic, TypeOK
      <4>2. Placed(p)
        BY <4>1 DEF IInv, Basic, RowsOK
      <4>3. Enrolls(p) \/ Announced(p)
        BY <1>1, <2>1, <4>1, <4>2, UndisturbedBefore DEF IInv, AckedEnrolled, Announced
      <4>. QED  BY <1>4, <4>3 DEF Charge, tables, Enrolls, Announced
    <3>. QED  BY <3>1, <3>2
  <2>. QED  BY <2>1 DEF AckedEnrolled, Announced
<1>. QED  BY <1>1, <1>2, <1>3, <1>4, QuietEvents DEF IInv

LEMMA CreateInv ==
    ASSUME IInv, NEW h \in Handlers, Create(h)
    PROVE  IInv'
<1>1. Basic' /\ Grows
  BY CreateStep DEF IInv
<1>2. UNCHANGED <<enrolled, outside>>
  BY DEF Create
<1>3. AckedEnrolled'
  BY <1>1, <1>2, AckedStays DEF outside
<1>4. Provenance'
  BY <1>1, <1>2 DEF IInv, Basic, TypeOK, RowsOK, Grows, Provenance, outside
<1>5. ASSUME NEW o \in Orders, Undisturbed(o)', order'[o].items \cap enrolled' # {}
      PROVE  Enrolls(o)'
  <2>1. CASE Placed(o)
    BY <1>1, <1>2, <1>5, <2>1, UndisturbedBefore DEF IInv, WholeOrders, Grows, Enrolls
  <2>2. CASE ~Placed(o)
    <3>1. PICK c \in enrolled : c \in order'[o].items
      BY <1>2, <1>5
    <3>2. c \notin granted
      BY <1>2, <1>5, <3>1 DEF Undisturbed, outside
    <3>3. PICK p \in settled : c \in order[p].items
      BY <3>1, <3>2 DEF IInv, Provenance
    <3>4. p \in Orders /\ p # o /\ order'[p].items = order[p].items
      BY <1>1, <2>2, <3>3 DEF IInv, Basic, TypeOK, RowsOK, Grows
    <3>. QED  BY <1>5, <3>1, <3>3, <3>4 DEF Undisturbed
  <2>. QED  BY <2>1, <2>2
<1>. QED  BY <1>1, <1>3, <1>4, <1>5 DEF IInv, WholeOrders

LEMMA SaveInv ==
    ASSUME IInv, NEW h \in Handlers, Save(h)
    PROVE  IInv'
<1> DEFINE o == job[h].order
<1>1. /\ Basic' /\ Grows
      /\ o \in settled /\ o \in Orders
      /\ enrolled' = enrolled \cup order[o].items
  BY SaveStep DEF IInv, Basic, TypeOK
<1>2. UNCHANGED <<order, outside>>
  BY DEF Save
<1>3. AckedEnrolled'
  BY <1>1, <1>2, AckedStays DEF outside
<1>4. Provenance'
  BY <1>1, <1>2 DEF IInv, Provenance, outside
<1>5. ASSUME NEW p \in Orders, Undisturbed(p)', order'[p].items \cap enrolled' # {}
      PROVE  Enrolls(p)'
  <2>1. CASE p = o
    BY <1>1, <1>2, <2>1 DEF Enrolls
  <2>2. CASE p # o
    <3>1. Undisturbed(p)
      BY <1>2, <1>5 DEF Undisturbed, outside
    <3>2. order[p].items \cap order[o].items = {}
      BY <1>1, <2>2, <3>1 DEF Undisturbed
    <3>. QED  BY <1>1, <1>2, <1>5, <3>1, <3>2 DEF IInv, WholeOrders, Enrolls
  <2>. QED  BY <2>1, <2>2
<1>. QED  BY <1>1, <1>3, <1>4, <1>5 DEF IInv, WholeOrders

\* A duplicate key means that the courses are there; after a fault the order
\* counts as disturbed.
LEMMA EndKnows ==
    ASSUME IInv, NEW h \in Handlers, Duplicate(h) \/ Clear(h) \/ Fault(h),
           NEW o \in Orders, o = job[h].order, Undisturbed(o)'
    PROVE  Enrolls(o)
<1>1. /\ HandlerOK(h) /\ Placed(o)
      /\ Grows
  BY EndStep DEF IInv, Basic, HandlersOK, HandlerOK
<1>2. Undisturbed(o)
  BY <1>1 DEF Undisturbed, Duplicate, Clear, Fault, tables
<1>3. CASE Duplicate(h)
  <2>1. order[o].items \cap enrolled # {}
    BY <1>1, <1>3 DEF Duplicate, HandlerOK
  <2>. QED  BY <1>1, <1>2, <2>1 DEF IInv, WholeOrders
<1>4. CASE Clear(h)
  BY <1>1, <1>4 DEF Clear, HandlerOK
<1>5. CASE Fault(h)
  <2>1. o \in failed'
    BY <1>5 DEF Fault
  <2>. QED  BY <2>1 DEF Undisturbed
<1>. QED  BY <1>3, <1>4, <1>5

LEMMA EndInv ==
    ASSUME IInv, NEW h \in Handlers, Duplicate(h) \/ Clear(h) \/ Fault(h)
    PROVE  IInv'
<1>1. /\ Basic' /\ Grows /\ Still
      /\ UNCHANGED <<order, charged>>
      /\ \A e \in events \ events' : e.order = job[h].order
  BY EndStep, ReplyEvents DEF IInv
<1>2. Provenance' /\ WholeOrders'
  BY <1>1, ProvenanceStill
<1>3. ASSUME NEW o \in charged, Undisturbed(o)'
      PROVE  Enrolls(o)' \/ Announced(o)'
  <2>1. o \in Orders /\ Placed(o)
    BY DEF IInv, Basic, TypeOK, RowsOK
  <2>2. CASE o = job[h].order
    BY <1>1, <1>3, <2>1, <2>2, EndKnows DEF Enrolls, Still
  <2>3. CASE o # job[h].order
    <3>1. Enrolls(o) \/ Announced(o)
      BY <1>1, <1>3, <2>1, UndisturbedBefore DEF IInv, AckedEnrolled, Announced
    <3>. QED  BY <1>1, <2>3, <3>1 DEF Enrolls, Announced, Still
  <2>. QED  BY <2>2, <2>3
<1>. QED  BY <1>1, <1>2, <1>3 DEF IInv, AckedEnrolled, Announced

LEMMA GrantInv ==
    ASSUME IInv, NEW c \in Courses, Grant(c)
    PROVE  IInv'
<1>1. Basic' /\ Grows
  BY GrantStep DEF IInv
<1>2. AckedEnrolled'
  BY <1>1, AckedStays DEF Grant
<1>3. Provenance'
  BY DEF Grant, IInv, Provenance
<1>4. ASSUME NEW o \in Orders, Undisturbed(o)', order'[o].items \cap enrolled' # {}
      PROVE  Enrolls(o)'
  <2>1. Undisturbed(o) /\ c \notin order[o].items
    BY <1>4 DEF Grant, Undisturbed
  <2>. QED  BY <1>4, <2>1 DEF Grant, IInv, WholeOrders, Enrolls
<1>. QED  BY <1>1, <1>2, <1>3, <1>4 DEF IInv, WholeOrders

LEMMA IInvInit == Init => IInv
<1> SUFFICES ASSUME Init  PROVE Provenance /\ WholeOrders /\ AckedEnrolled
  BY BasicInit DEF IInv
<1>. QED  BY DEF Init, Provenance, WholeOrders, AckedEnrolled

LEMMA IInvStep == IInv /\ [Next]_vars => IInv'
<1> SUFFICES ASSUME IInv, [Next]_vars  PROVE IInv'
  OBVIOUS
<1>1. TypeOK
  BY DEF IInv, Basic
<1>. QED  BY <1>1, Steps, QuietInv, CreateInv, SaveInv, EndInv, GrantInv

\* handleWebhook never acknowledges the last event of a charged order whose
\* courses are missing, unless another order, another way in or a database
\* error disturbed it.
THEOREM Acknowledged == Spec => []AckedEnrolled
<1>1. IInv => AckedEnrolled
  BY DEF IInv
<1>. QED  BY <1>1, IInvInit, IInvStep, PTL DEF Spec

-----------------------------------------------------------------------------
(* What follows from the promises of Enrolment.                              *)

Fulfilled ==
    /\ settled \subseteq PlacedOrders
    /\ \E S \in SUBSET settled : enrolled = granted \cup UNION {Items[o] : o \in S}

LEMMA SameItems ==
    ASSUME NEW S, NEW f, NEW g, \A o \in S : f[o] = g[o]
    PROVE  UNION {f[o] : o \in S} = UNION {g[o] : o \in S}
  OBVIOUS

LEMMA MoreItems ==
    ASSUME NEW S, NEW f, NEW o
    PROVE  UNION {f[p] : p \in S \cup {o}} = f[o] \cup UNION {f[p] : p \in S}
  OBVIOUS

LEMMA FulfilledStep ==
    ASSUME Fulfilled, [Abstract!Next]_(Abstract!evars)
    PROVE  Fulfilled'
<1>1. PICK S \in SUBSET settled : enrolled = granted \cup UNION {Items[o] : o \in S}
  BY DEF Fulfilled
<1>2. ASSUME NEW o \in Orders, NEW T, Abstract!Place(o, T)
      PROVE  Fulfilled'
  <2>1. /\ o \notin PlacedOrders /\ PlacedOrders' = PlacedOrders \cup {o}
        /\ Items' = [Items EXCEPT ![o] = T]
        /\ UNCHANGED <<settled, granted, enrolled>>
    BY <1>2 DEF Abstract!Place, PlacedOrders, Items
  <2>2. o \notin settled
    BY <2>1 DEF Fulfilled
  <2>3. \A p \in settled : p \in Orders /\ Items'[p] = Items[p]
    BY <2>1, <2>2 DEF Fulfilled, PlacedOrders, Items
  <2>4. UNION {Items'[p] : p \in S} = UNION {Items[p] : p \in S}
    BY <1>1, <2>3, SameItems
  <2>5. enrolled' = granted' \cup UNION {Items'[p] : p \in S}
    BY <1>1, <2>1, <2>4
  <2>. QED  BY <1>1, <2>1, <2>5 DEF Fulfilled
<1>3. ASSUME NEW o \in Orders, Abstract!Settle(o)
      PROVE  Fulfilled'
  <2>1. /\ o \in PlacedOrders /\ settled' = settled \cup {o}
        /\ UNCHANGED <<PlacedOrders, Items, granted, enrolled>>
    BY <1>3 DEF Abstract!Settle, PlacedOrders, Items
  <2>. QED  BY <1>1, <2>1 DEF Fulfilled
<1>4. ASSUME NEW o \in Orders, Abstract!Enrol(o)
      PROVE  Fulfilled'
  <2>1. /\ o \in settled /\ enrolled' = enrolled \cup Items[o]
        /\ UNCHANGED <<PlacedOrders, Items, granted, settled>>
    BY <1>4 DEF Abstract!Enrol, PlacedOrders, Items
  <2>2. enrolled' = granted \cup UNION {Items[p] : p \in S \cup {o}}
    BY <1>1, <2>1, MoreItems
  <2>3. enrolled' = granted' \cup UNION {Items'[p] : p \in S \cup {o}}
    BY <2>1, <2>2
  <2>4. S \cup {o} \in SUBSET settled'
    BY <1>1, <2>1
  <2>5. settled' \subseteq PlacedOrders'
    BY <2>1 DEF Fulfilled
  <2>. QED  BY <2>3, <2>4, <2>5 DEF Fulfilled
<1>5. ASSUME NEW c \in Courses, Abstract!Grant(c)
      PROVE  Fulfilled'
  <2>1. /\ granted' = granted \cup {c} /\ enrolled' = enrolled \cup {c}
        /\ UNCHANGED <<PlacedOrders, Items, settled>>
    BY <1>5 DEF Abstract!Grant, PlacedOrders, Items
  <2>2. enrolled' = granted' \cup UNION {Items[p] : p \in S}
    BY <1>1, <2>1
  <2>. QED  BY <1>1, <2>1, <2>2 DEF Fulfilled
<1>6. CASE UNCHANGED Abstract!evars
  <2>1. UNCHANGED <<PlacedOrders, Items, settled, granted, enrolled>>
    BY <1>6 DEF Abstract!evars, PlacedOrders, Items
  <2>. QED  BY <1>1, <2>1 DEF Fulfilled
<1>. QED  BY <1>2, <1>3, <1>4, <1>5, <1>6 DEF Abstract!Next

\* Whoever keeps the promises of Enrolment never fulfils an order in part.
LEMMA PromisesKept == EnrolmentSpec => []Abstract!InWhole
<1>1. Abstract!Init => Fulfilled
  <2>. SUFFICES ASSUME enrolled = {}, granted = {}, settled = {}
                PROVE  Fulfilled
    BY DEF Abstract!Init
  <2>1. UNION {Items[o] : o \in {}} = {}
    OBVIOUS
  <2>. QED  BY <2>1 DEF Fulfilled
<1>2. Fulfilled => Abstract!InWhole
  BY DEF Fulfilled, Items, Abstract!InWhole
<1>. QED  BY <1>1, <1>2, FulfilledStep, PTL DEF EnrolmentSpec, Abstract!Spec

\* The student's courses are those granted without an order and all the courses of
\* some completed orders: whichever callbacks overlap or are cut off, no order is
\* enrolled in part.
THEOREM OrdersInWhole == Spec => []Abstract!InWhole
  BY Implements, PromisesKept, PTL
-----------------------------------------------------------------------------
(* No handler goes on for ever.                                              *)

\* The steps a handler may still have before it, but for the items to look up.
Place == [idle |-> 0, clear |-> 1, insert |-> 1, create |-> 1, enrol |-> 2, update |-> 3]

\* The handler is at a later place, or has one item less to look up.
Nearer(h) ==
    \/ Place[pc'[h]] < Place[pc[h]]
    \/ /\ pc'[h] = pc[h]
       /\ job'[h].left \subseteq job[h].left /\ job'[h].left # job[h].left

\* A step of the handler, or one that changes what it holds.
Moves(h) == Handle(h) \/ Fault(h) \/ pc'[h] # pc[h] \/ job'[h] # job[h]

LEMMA FinishNears ==
    ASSUME TypeOK, NEW h \in Handlers, Finish(h), pc[h] # "idle"
    PROVE  Nearer(h)
<1>1. pc'[h] = "idle" /\ pc[h] \in PC
  BY DEF TypeOK, Finish
<1>. QED  BY <1>1 DEF Nearer, Place, PC

LEMMA HandlerNears ==
    ASSUME TypeOK, NEW h \in Handlers, Handle(h) \/ Fault(h)
    PROVE  Nearer(h)
<1>1. pc \in [Handlers -> PC] /\ job \in [Handlers -> Job]
  BY DEF TypeOK
<1>2. CASE Update(h) \/ Save(h)
  <2>1. \/ pc[h] = "update" /\ pc'[h] = "enrol"
        \/ pc[h] = "enrol" /\ pc'[h] = "clear"
    BY <1>1, <1>2 DEF Update, Save
  <2>. QED  BY <2>1 DEF Nearer, Place
<1>3. ASSUME NEW c \in Courses, Lookup(h, c)
      PROVE  Nearer(h)
  <2>1. pc' = pc /\ c \in job[h].left /\ job'[h].left = job[h].left \ {c}
    BY <1>1, <1>3 DEF Lookup, Job
  <2>. QED  BY <2>1 DEF Nearer
<1>4. CASE Insert(h) \/ Create(h) \/ Duplicate(h) \/ Clear(h) \/ Fault(h)
  BY <1>4, FinishNears DEF Insert, Create, Duplicate, Clear, Fault, Reply
<1>. QED  BY <1>2, <1>3, <1>4 DEF Handle

\* Once it has begun, whatever happens to a request or a callback brings it nearer to
\* its end: no other handler, repeated event or error sends it back, and the loop over
\* the items, of which an order has finitely many, looks each up once.
THEOREM HandlersEnd ==
    Spec => [][\A h \in Handlers :
                 pc[h] # "idle" /\ Moves(h) => Nearer(h)]_vars
<1>1. ASSUME TypeOK, [Next]_vars, NEW h \in Handlers, pc[h] # "idle",
             ~(Handle(h) \/ Fault(h)), pc'[h] # pc[h] \/ job'[h] # job[h]
      PROVE  Nearer(h)
  <2>1. pc \in [Handlers -> PC] /\ job \in [Handlers -> Job] /\ pc[h] \in PC
    BY <1>1 DEF TypeOK
  <2>2. CASE Crash
    <3>1. pc'[h] = "idle"
      BY <2>2 DEF Crash
    <3>. QED  BY <1>1, <2>1, <3>1 DEF Nearer, Place, PC
  <2>3. ASSUME NEW i \in Handlers, Handle(i) \/ Fault(i)
        PROVE  FALSE
    <3>1. i # h
      BY <1>1, <2>3
    <3>2. CASE Insert(i) \/ Create(i) \/ Duplicate(i) \/ Clear(i) \/ Fault(i)
      BY <1>1, <2>1, <3>1, <3>2 DEF Insert, Create, Duplicate, Clear, Fault, Reply, Finish
    <3>3. CASE Update(i) \/ Save(i) \/ \E c \in Courses : Lookup(i, c)
      BY <1>1, <2>1, <3>1, <3>3 DEF Update, Save, Lookup
    <3>. QED  BY <2>3, <3>2, <3>3 DEF Handle
  <2>4. ASSUME NEW i \in Handlers, NEW label, NEW locals, Begin(i, label, locals)
        PROVE  FALSE
    <3>1. i # h
      BY <1>1, <2>4 DEF Begin
    <3>. QED  BY <1>1, <2>1, <2>4, <3>1 DEF Begin
  <2>5. CASE pc' = pc /\ job' = job
    BY <1>1, <2>5
  <2>6. ASSUME NEW i \in Handlers, Request(i) \/ \E e \in events : Webhook(i, e)
        PROVE  FALSE
    BY <2>4, <2>6 DEF Request, Webhook, AddToCart, OrderCart, OrderCourses, Order, VerifyMoMo
  <2>7. CASE \/ \E c \in Courses : RemoveFromCart(c) \/ Grant(c)
             \/ \E o \in Orders : Charge(o) \/ Decline(o) \/ Redirect(o) \/ MarkMoMoPaid(o)
             \/ UNCHANGED vars
    BY <2>5, <2>7 DEF RemoveFromCart, Grant, Charge, Decline, Redirect, MarkMoMoPaid, vars
  <2>. QED  BY <1>1, <2>2, <2>3, <2>6, <2>7 DEF Next
<1>2. TypeOK /\ [Next]_vars =>
        [\A h \in Handlers :
           pc[h] # "idle" /\ Moves(h) => Nearer(h)]_vars
  BY <1>1, HandlerNears DEF Moves
<1>. QED  BY <1>2, CheckoutTypes, PTL DEF Spec
=============================================================================
