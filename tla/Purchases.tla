----------------------------- MODULE Purchases -----------------------------
(***************************************************************************)
(* Product sales on the app's own Stripe account: checkout creation and    *)
(* the webhook fulfilment of src/services/product.service.ts, dispatched   *)
(* by handleStripeWebhookEvent of src/api/routes/billing/index.ts.         *)
(*                                                                         *)
(* A sale is one checkout of one organization; it stands for its session,  *)
(* its subscription (mode "subscription") or its payment intent (mode      *)
(* "payment"), all UNIQUE in `purchases`, so a sale has one row at most.   *)
(* Stripe is external: it tells of a payment, of each change of a          *)
(* subscription and of a refund, at least once, in any order, in parallel; *)
(* an answer other than 200 brings the event again.                        *)
(***************************************************************************)
EXTENDS Naturals, FiniteSets

CONSTANTS
    Sale,               \* checkouts
    Worker,             \* webhook requests that can be in progress at once
    None,
    MaxChanges,         \* bound: status changes of a subscription
    MaxRepeats          \* bound: events told again although handled

VARIABLES
    oneByOne,   \* Stripe tells events in order, the next after a 200
    mode,       \* mode[s]: the product's checkout mode
    checkout,   \* checkout[s]: how far the sale's checkout is
    customer,   \* organizations.stripe_customer_id: the sale that created it
    customers,  \* customers created at Stripe for the organization
    stripe,     \* stripe[s]: status of the subscription, changes so far
    pending,    \* events Stripe still has to tell
    acked,      \* events answered with 200
    row,        \* row[s]: the purchases row
    worker,     \* worker[w]: the request it handles and its next statement
    repeats

setting == <<oneByOne, mode>>
vars == <<oneByOne, mode, checkout, customer, customers, stripe, pending, acked, row, worker, repeats>>
sales == <<oneByOne, mode, checkout, customer, customers, stripe>>

Status == {"active", "past_due", "canceled"} \* of mapStripeSubscriptionStatus
Subscription == {s \in Sale : mode[s] = "subscription"}
NoRow == [there |-> FALSE, status |-> "none", session |-> FALSE]
Idle == [event |-> None, at |-> "idle"]

Event == [kind : {"checkout", "refund"}, sale : Sale, status : {"none"}, n : {0}]
           \cup [kind : {"subscription"}, sale : Subscription, status : Status, n : 1 .. MaxChanges]

TypeOK ==
    /\ oneByOne \in BOOLEAN /\ mode \in [Sale -> {"payment", "subscription"}]
    /\ checkout \in [Sale -> {"none", "create", "save", "session", "open", "paid", "refunded"}]
    /\ customer \in Sale \cup {None} /\ customers \in Nat
    /\ stripe \in [Sale -> [status : Status \cup {"none"}, changes : 0 .. MaxChanges]]
    /\ pending \subseteq Event /\ acked \subseteq Event
    /\ row \in [Sale -> [there : BOOLEAN, status : Status \cup {"none", "refunded"}, session : BOOLEAN]]
    /\ \A s \in Sale : row[s].there <=> row[s].status # "none"
    /\ worker \in [Worker -> {Idle} \cup [event : Event, at : {"read", "fill", "insert", "update", "refund"}]]
    /\ repeats \in 0 .. MaxRepeats

Init ==
    /\ oneByOne \in BOOLEAN /\ mode \in [Sale -> {"payment", "subscription"}]
    /\ checkout = [s \in Sale |-> "none"] /\ customer = None /\ customers = 0
    /\ stripe = [s \in Sale |-> [status |-> "none", changes |-> 0]]
    /\ pending = {} /\ acked = {}
    /\ row = [s \in Sale |-> NoRow]
    /\ worker = [w \in Worker |-> Idle]
    /\ repeats = 0

-----------------------------------------------------------------------------
(* createProductCheckout and ensureStripeCustomer. *)

\* The read of ensureStripeCustomer: an organization with a customer reuses it.
CreateProductCheckout(s) ==
    /\ checkout[s] = "none"
    /\ checkout' = [checkout EXCEPT ![s] = IF customer = None THEN "create" ELSE "session"]
    /\ UNCHANGED <<setting, customer, customers, stripe, pending, acked, row, worker, repeats>>

CreateCustomer(s) ==
    /\ checkout[s] = "create"
    /\ customers' = customers + 1
    /\ checkout' = [checkout EXCEPT ![s] = "save"]
    /\ UNCHANGED <<setting, customer, stripe, pending, acked, row, worker, repeats>>

SaveCustomer(s) ==
    /\ checkout[s] = "save"
    /\ customer' = s
    /\ checkout' = [checkout EXCEPT ![s] = "session"]
    /\ UNCHANGED <<setting, customers, stripe, pending, acked, row, worker, repeats>>

CreateSession(s) ==
    /\ checkout[s] = "session"
    /\ checkout' = [checkout EXCEPT ![s] = "open"]
    /\ UNCHANGED <<setting, customer, customers, stripe, pending, acked, row, worker, repeats>>

-----------------------------------------------------------------------------
(* Stripe (external). *)

Checkout(s) == [kind |-> "checkout", sale |-> s, status |-> "none", n |-> 0]
Refund(s) == [kind |-> "refund", sale |-> s, status |-> "none", n |-> 0]
Change(s, status, n) == [kind |-> "subscription", sale |-> s, status |-> status, n |-> n]

Pay(s) ==
    /\ checkout[s] = "open"
    /\ checkout' = [checkout EXCEPT ![s] = "paid"]
    /\ pending' = pending \cup {Checkout(s)}
    /\ UNCHANGED <<setting, customer, customers, stripe, acked, row, worker, repeats>>

\* The subscription starts, from the payment on, or changes.
SubscriptionChanges(s, status) ==
    /\ s \in Subscription /\ checkout[s] = "paid"
    /\ stripe[s].changes < MaxChanges /\ status # stripe[s].status
    /\ stripe' = [stripe EXCEPT ![s] = [status |-> status, changes |-> @.changes + 1]]
    /\ pending' = pending \cup {Change(s, status, stripe[s].changes + 1)}
    /\ UNCHANGED <<setting, checkout, customer, customers, acked, row, worker, repeats>>

\* The operator refunds a one-time payment.
RefundCharge(s) ==
    /\ s \notin Subscription /\ checkout[s] = "paid"
    /\ checkout' = [checkout EXCEPT ![s] = "refunded"]
    /\ pending' = pending \cup {Refund(s)}
    /\ UNCHANGED <<setting, customer, customers, stripe, acked, row, worker, repeats>>

\* Nothing older about the sale is still to be told or being handled.
InTurn(e) ==
    LET told == {worker[w].event : w \in {v \in Worker : worker[v] # Idle}}
        Older(f) == f.sale = e.sale /\ f # e /\ (f.n < e.n \/ (e.kind = "refund" /\ f.kind = "checkout"))
    IN e \notin told /\ \A f \in pending \cup told : ~Older(f)

-----------------------------------------------------------------------------
(* The webhook. *)

\* The first statement of the handler of an event.
FirstStep(e) ==
    CASE e.kind = "subscription" -> "update"
      [] e.kind = "refund"       -> "refund"
      [] e.kind = "checkout"     -> IF e.sale \in Subscription THEN "read" ELSE "insert"

\* handleStripeWebhookEvent is called with a verified event.
Deliver(w, e) ==
    /\ worker[w] = Idle /\ e \in pending
    /\ oneByOne => InTurn(e)
    /\ worker' = [worker EXCEPT ![w] = [event |-> e, at |-> FirstStep(e)]]
    /\ UNCHANGED <<sales, pending, acked, row, repeats>>

GoTo(w, step) ==
    /\ worker' = [worker EXCEPT ![w].at = step]
    /\ UNCHANGED <<sales, pending, acked, repeats>>

\* 200: Stripe forgets the event, or has not heard and will tell it again.
Answer(w) ==
    /\ worker' = [worker EXCEPT ![w] = Idle]
    /\ acked' = acked \cup {worker[w].event}
    /\ \/ pending' = pending \ {worker[w].event} /\ UNCHANGED repeats
       \/ repeats < MaxRepeats /\ repeats' = repeats + 1 /\ UNCHANGED pending
    /\ UNCHANGED sales

\* The handler throws, 500: the event stays pending.
Throw(w) ==
    /\ worker' = [worker EXCEPT ![w] = Idle]
    /\ UNCHANGED <<sales, pending, acked, repeats>>

At(w, kind, step) == worker[w] # Idle /\ worker[w].event.kind = kind /\ worker[w].at = step

\* recordProductPurchase looks for a row a subscription event has created.
CheckoutReads(w) ==
    LET s == worker[w].event.sale IN
    /\ At(w, "checkout", "read")
    /\ UNCHANGED row
    /\ \/ row[s].there /\ row[s].session /\ Answer(w)
       \/ row[s].there /\ ~row[s].session /\ GoTo(w, "fill")
       \/ ~row[s].there /\ GoTo(w, "insert")

\* Mutant of Filled: the late checkout activates the purchase.
FilledActive(r) == [r EXCEPT !.session = TRUE, !.status = "active"]

\* The columns the checkout completes an existing row with.
Filled(r) == [r EXCEPT !.session = TRUE]

CheckoutFills(w) ==
    /\ At(w, "checkout", "fill")
    /\ row' = [row EXCEPT ![worker[w].event.sale] = Filled(@)]
    /\ Answer(w)

\* Mutant of SubscriptionConflict: an insert that gives way to any row.
NoConflict(r) == FALSE

\* The insert gives way to a row with this session only: one that a
\* subscription event has put there meanwhile makes it throw.
SubscriptionConflict(r) == r.there /\ ~r.session

CheckoutInserts(w) ==
    LET s == worker[w].event.sale IN
    /\ At(w, "checkout", "insert")
    /\ \/ row[s].there /\ ~SubscriptionConflict(row[s]) /\ UNCHANGED row /\ Answer(w)
       \/ SubscriptionConflict(row[s]) /\ UNCHANGED row /\ Throw(w)
       \/ /\ ~row[s].there
          /\ row' = [row EXCEPT ![s] = [there |-> TRUE, status |-> "active", session |-> TRUE]]
          /\ Answer(w)

\* Mutant of Updated: a canceled purchase stays canceled.
UpdatedUnlessCanceled(r, e) == IF r.status = "canceled" THEN r ELSE [r EXCEPT !.status = e.status]

\* The row after a subscription event: the reported status, whatever it was.
Updated(r, e) == [r EXCEPT !.status = e.status]

\* applyProductSubscriptionEvent updates the row of the subscription ...
SubscriptionUpdates(w) ==
    LET e == worker[w].event IN
    /\ At(w, "subscription", "update")
    /\ \/ row[e.sale].there /\ row' = [row EXCEPT ![e.sale] = Updated(@, e)] /\ Answer(w)
       \/ ~row[e.sale].there /\ UNCHANGED row /\ GoTo(w, "insert")

\* Mutants of Created: the status is left out; the row is always created active.
CreatedBlank(e) == [there |-> TRUE, status |-> "none", session |-> FALSE]
CreatedActive(e) == [there |-> TRUE, status |-> "active", session |-> FALSE]

\* The row a subscription event that came first creates.
Created(e) == [there |-> TRUE, status |-> e.status, session |-> FALSE]

\* ... or creates it, giving way to one that is there by now.
SubscriptionInserts(w) ==
    LET e == worker[w].event IN
    /\ At(w, "subscription", "insert")
    /\ row' = IF row[e.sale].there THEN row ELSE [row EXCEPT ![e.sale] = Created(e)]
    /\ Answer(w)

\* markPurchaseRefunded: no row with the payment intent, no change.
RefundUpdates(w) ==
    LET s == worker[w].event.sale IN
    /\ At(w, "refund", "refund")
    /\ row' = IF row[s].there THEN [row EXCEPT ![s].status = "refunded"] ELSE row
    /\ Answer(w)

\* A statement fails or the process dies.
RequestFails(w) ==
    /\ worker[w] # Idle /\ repeats < MaxRepeats /\ repeats' = repeats + 1
    /\ worker' = [worker EXCEPT ![w] = Idle]
    /\ UNCHANGED <<sales, pending, acked, row>>

-----------------------------------------------------------------------------
Handle(w) ==
    \/ CheckoutReads(w) \/ CheckoutFills(w) \/ CheckoutInserts(w)
    \/ SubscriptionUpdates(w) \/ SubscriptionInserts(w) \/ RefundUpdates(w)

Next ==
    \/ \E s \in Sale : \/ CreateProductCheckout(s) \/ CreateCustomer(s) \/ SaveCustomer(s)
                       \/ CreateSession(s) \/ Pay(s) \/ RefundCharge(s)
                       \/ \E status \in Status : SubscriptionChanges(s, status)
    \/ \E w \in Worker : Handle(w) \/ RequestFails(w) \/ \E e \in pending : Deliver(w, e)

Spec == Init /\ [][Next]_vars

\* Requests end, and Stripe tells a checkout until it is answered.
FairSpec ==
    /\ Spec
    /\ \A w \in Worker : WF_vars(Handle(w))
    /\ \A s \in Sale : SF_vars(\E w \in Worker : Deliver(w, Checkout(s)))

-----------------------------------------------------------------------------
(* Properties. *)

\* "[A] subscription row pre-created by an out-of-order subscription event is
\* completed in place": whatever order and however often events arrive, a
\* checkout event never changes the status an existing row has, so a late one
\* does not revive a subscription that ended.
StatusStands ==
    \A w \in Worker, s \in Sale :
        (worker[w] # Idle /\ worker[w].event = Checkout(s) /\ worker'[w] = Idle /\ row[s].there)
           => row'[s].status = row[s].status
CheckoutRevivesNothing == [][StatusStands]_vars

\* A checkout that was paid is recorded in the end: also when its insert loses
\* against a subscription event, which only the retry of the 500 repairs.
PaymentsAreRecorded == \A s \in Sale : checkout[s] = "paid" ~> row[s].there /\ row[s].session

\* When Stripe tells each event after the previous one was answered, repeats
\* included, the row says what Stripe says once everything has been told.
AgreesInOrder ==
    (oneByOne /\ pending = {} /\ \A w \in Worker : worker[w] = Idle) =>
        \A s \in Sale : /\ stripe[s].changes > 0 => row[s].status = stripe[s].status
                        /\ checkout[s] = "refunded" => row[s].status = "refunded"

\* The organization is entitled by what Stripe reported only: a row that was
\* never reported active or past due, and not paid, entitles to nothing.
EntitlementIsEarned ==
    \A s \in Sale : row[s].status \in {"active", "past_due"} =>
        \/ checkout[s] \in {"paid", "refunded"} /\ row[s].session
        \/ \E e \in Event : /\ e.sale = s /\ e.status = row[s].status
                            /\ e.n <= stripe[s].changes /\ e \in acked

-----------------------------------------------------------------------------
(* What the repository says and the code does not do: stated here, refuted  *)
(* by TLC in the instances the README names under "Divergences".            *)

\* "Apply a subscription created/updated/deleted event to the matching purchase
\* row. If no row exists yet [...] the row is created": the only change a
\* subscription ever had, once answered with 200, is in the row.
EventIsApplied ==
    \A s \in Subscription : stripe[s].changes = 1 /\ Change(s, stripe[s].status, 1) \in acked =>
        row[s].status = stripe[s].status

\* "Mark the purchase paid by `paymentIntentId` as refunded": once the refund is
\* answered with 200, the purchase is not live.
RefundSticks == \A s \in Sale : Refund(s) \in acked => row[s].status # "active"

\* "Reuse or create the org's Stripe customer [...] so an org never ends up with
\* duplicate customers."
OneCustomer == customers <= 1
=============================================================================
