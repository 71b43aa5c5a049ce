-------------------------------- MODULE Billing --------------------------------
(***************************************************************************)
(* What the two Stripe connectors keep about one organization, in tables   *)
(* of their own:                                                           *)
(*  - integrations/payments/stripe-connector.ts: the row of                *)
(*    billing_subscriptions, its status moved by Stripe's events, which    *)
(*    come through routes/integrations/stripe.ts or through                *)
(*    core/webhooks/webhook-handler.ts, late, twice or out of order.       *)
(*  - integrations/stripe/connector.ts: the count of failed payments that  *)
(*    suspends the organization at the third.                              *)
(***************************************************************************)
EXTENDS Integers, FiniteSets

CONSTANTS
  Subscriptions, \* bound: calls of createSubscription, each with a customer and a subscription
  Events,        \* bound: Stripe's events, numbers in the order they happen
  Payments,      \* bound: handlers of failed and paid invoices at a time
  SuspendAt,     \* the failed attempt that suspends (3)
  MaxBillingFailures, \* bound: calls of Stripe or of the database that fail
  None

BillingOK == /\ Events \subseteq Nat /\ SuspendAt \in Nat \ {0}
             /\ MaxBillingFailures \in Nat
             /\ None \notin Nat /\ None \notin Subscriptions \cup {"active", "past_due"}
             /\ None \notin [subscription : Subscriptions, status : {"active", "past_due"}]
             /\ None \notin [of : Subscriptions, says : {"active", "past_due"}, acknowledged : BOOLEAN]

VARIABLES
  creation,   \* what each createSubscription has done
  standing,   \* Stripe's own status of each subscription
  event,      \* Stripe's events: their subscription, what they say, whether answered with 200
  delivery,   \* the handler of each event: what it awaits
  stored,        \* billing_subscriptions: subscription and status
  begun,      \* history: the latest event of each subscription with a delivery begun
  astray,     \* history: events of a subscription came early, late, again or at once
  retryCount, \* payment_failures.retry_count; None without a row
  inWindow,     \* the row is less than 30 days old
  suspended,  \* organizations.status
  payment,    \* what each handler awaits, and the count it has read
  streak,     \* history: failures handled since an invoice was paid, up to SuspendAt
  handled,    \* history: failures handled, up to SuspendAt
  blurred,    \* history: two handlers overlapped, or the row was too old to count
  billingFailures

stripeVars  == <<creation, standing, event, delivery, stored, begun, astray>>
paymentVars == <<retryCount, inWindow, suspended, payment, streak, handled, blurred>>
billingVars == <<stripeVars, paymentVars, billingFailures>>

BillingInit ==
  /\ creation = [s \in Subscriptions |-> "none"]
  /\ standing = [s \in Subscriptions |-> None]
  /\ event = [e \in Events |-> None]
  /\ delivery = [e \in Events |-> "idle"]
  /\ stored = None
  /\ begun = [s \in Subscriptions |-> 0] /\ astray = FALSE
  /\ retryCount = None /\ inWindow = FALSE /\ suspended = FALSE
  /\ payment = [p \in Payments |-> [at |-> "idle", count |-> 0]]
  /\ streak = 0 /\ handled = 0 /\ blurred = FALSE
  /\ billingFailures = 0

CallFails == billingFailures < MaxBillingFailures /\ billingFailures' = billingFailures + 1

-----------------------------------------------------------------------------
(* createSubscription: two calls of Stripe, then the upsert *)

Create(s, from, to) == creation[s] = from /\ creation' = [creation EXCEPT ![s] = to]

\* POST /v1/customers
CreateCustomer(s) ==
  /\ Create(s, "none", "customer")
  /\ UNCHANGED <<standing, event, delivery, stored, begun, astray, paymentVars, billingFailures>>

\* POST /v1/subscriptions: from now on Stripe sends events about it.
CreateInStripe(s) ==
  /\ Create(s, "customer", "subscribed")
  /\ standing' = [standing EXCEPT ![s] = "active"]
  /\ UNCHANGED <<event, delivery, stored, begun, astray, paymentVars, billingFailures>>

\* INSERT ... ON CONFLICT (org_id) DO UPDATE, with the status Stripe answered.
StoreSubscription(s) ==
  /\ Create(s, "subscribed", "stored")
  /\ stored' = [subscription |-> s, status |-> "active"]
  /\ UNCHANGED <<standing, event, delivery, begun, astray, paymentVars, billingFailures>>

\* The caller gets the error; what Stripe has made stays there, and the row when only its
\* acknowledgement is lost.
CreateFails(s) ==
  /\ creation[s] \in {"none", "customer", "subscribed"}
  /\ \/ stored' = stored
     \/ creation[s] = "subscribed" /\ stored' = [subscription |-> s, status |-> "active"]
  /\ Create(s, creation[s], "failed")
  /\ CallFails
  /\ UNCHANGED <<standing, event, delivery, begun, astray, paymentVars>>

-----------------------------------------------------------------------------
(* Stripe's events *)

\* External: an invoice of the subscription is paid, or its payment fails.
StripeEvent(e, s, status) ==
  /\ event[e] = None /\ \A d \in Events : d < e => event[d] # None
  /\ standing[s] # None
  /\ event' = [event EXCEPT ![e] = [of |-> s, says |-> status, acknowledged |-> FALSE]]
  /\ standing' = [standing EXCEPT ![s] = status]
  /\ UNCHANGED <<creation, delivery, stored, begun, astray, paymentVars, billingFailures>>

\* The POST arrives and is verified. No delivery is told from an earlier one: the key of
\* webhook-handler.ts is event.object.id, and a Stripe event's `object` is the word "event".
Receive(e) ==
  LET s == event[e].of
      overlaps == \E d \in Events \ {e} : event[d] # None /\ event[d].of = s /\ delivery[d] # "idle"
  IN /\ event[e] # None /\ delivery[e] = "idle"
     /\ delivery' = [delivery EXCEPT ![e] = event[e].says]
     /\ begun' = [begun EXCEPT ![s] = IF e > @ THEN e ELSE @]
     /\ astray' = (astray \/ begun[s] > e \/ overlaps \/ creation[s] # "stored")
     /\ UNCHANGED <<creation, standing, event, stored, paymentVars, billingFailures>>

SetStatus(s, status) ==
  stored' = IF stored # None /\ stored.subscription = s THEN [stored EXCEPT !.status = status] ELSE stored

Answer(e) == /\ delivery' = [delivery EXCEPT ![e] = "idle"]
             /\ event' = [event EXCEPT ![e].acknowledged = TRUE]

\* handleInvoicePaid: one UPDATE by subscription.
InvoicePaid(e) ==
  /\ delivery[e] = "active"
  /\ SetStatus(event[e].of, "active")
  /\ Answer(e)
  /\ UNCHANGED <<creation, standing, begun, astray, paymentVars, billingFailures>>

\* handlePaymentFailed: the SELECT by customer; no row, nothing more.
FindFailed(e) ==
  /\ delivery[e] = "past_due"
  /\ IF stored # None /\ stored.subscription = event[e].of
       THEN delivery' = [delivery EXCEPT ![e] = "update"] /\ UNCHANGED event
       ELSE Answer(e)
  /\ UNCHANGED <<creation, standing, stored, begun, astray, paymentVars, billingFailures>>

\* ... then the UPDATE.
PaymentFailed(e) ==
  /\ delivery[e] = "update"
  /\ SetStatus(event[e].of, "past_due")
  /\ Answer(e)
  /\ UNCHANGED <<creation, standing, begun, astray, paymentVars, billingFailures>>

AcknowledgeAnyway(e) ==
  /\ delivery[e] # "idle"
  /\ Answer(e)
  /\ CallFails
  /\ UNCHANGED <<creation, standing, stored, begun, astray, paymentVars>>

\* The database does not answer, the UPDATE with or without effect: 400 or 500, and Stripe will
\* send the event again.
DeliveryFails(e) ==
  /\ delivery[e] # "idle"
  /\ \/ stored' = stored
     \/ delivery[e] \in {"active", "update"} /\ SetStatus(event[e].of, event[e].says)
  /\ delivery' = [delivery EXCEPT ![e] = "idle"]
  /\ CallFails
  /\ UNCHANGED <<creation, standing, event, begun, astray, paymentVars>>

-----------------------------------------------------------------------------
(* The count of failed payments *)

\* The histories count as far as they are told apart.
OneMore(n) == IF n < SuspendAt THEN n + 1 ELSE n

\* The count a handler sees: 0 without a row of the last 30 days.
CountRead == IF retryCount = None \/ ~inWindow THEN 0 ELSE retryCount

\* handlePaymentFailed: the SELECT.
ReadFailures(p) ==
  /\ payment[p].at = "idle"
  /\ payment' = [payment EXCEPT ![p] = [at |-> "failed", count |-> CountRead + 1]]
  /\ blurred' = (blurred \/ (retryCount # None /\ ~inWindow)
                         \/ \E q \in Payments : payment[q].at # "idle")
  /\ UNCHANGED <<retryCount, inWindow, suspended, streak, handled, stripeVars, billingFailures>>

CountFailureLate(p) ==
  /\ payment[p].at = "failed"
  /\ IF payment[p].count > SuspendAt
       THEN suspended' = TRUE /\ UNCHANGED <<retryCount, inWindow>>
       ELSE /\ retryCount' = payment[p].count
            /\ inWindow' = IF retryCount = None THEN TRUE ELSE inWindow
            /\ UNCHANGED suspended
  /\ streak' = OneMore(streak) /\ handled' = OneMore(handled)
  /\ payment' = [payment EXCEPT ![p].at = "idle"]
  /\ UNCHANGED <<blurred, stripeVars, billingFailures>>

\* The third suspends and leaves the count; others are stored, in a row that keeps the
\* created_at of the first.
CountFailure(p) ==
  /\ payment[p].at = "failed"
  /\ IF payment[p].count >= SuspendAt
       THEN suspended' = TRUE /\ UNCHANGED <<retryCount, inWindow>>
       ELSE /\ retryCount' = payment[p].count
            /\ inWindow' = IF retryCount = None THEN TRUE ELSE inWindow
            /\ UNCHANGED suspended
  /\ streak' = OneMore(streak) /\ handled' = OneMore(handled)
  /\ payment' = [payment EXCEPT ![p].at = "idle"]
  /\ UNCHANGED <<blurred, stripeVars, billingFailures>>

\* onInvoicePaid, once it has found the organization: the UPDATE.
ResetFailures ==
  /\ retryCount' = IF retryCount = None THEN None ELSE 0
  /\ streak' = 0
  /\ blurred' = (blurred \/ \E q \in Payments : payment[q].at # "idle")
  /\ UNCHANGED <<inWindow, suspended, payment, handled, stripeVars, billingFailures>>

\* The UPDATE or INSERT fails: the error goes to the caller. One that had effect is CountFailure:
\* the handler ends there either way.
PaymentCallFails(p) ==
  /\ payment[p].at = "failed"
  /\ payment' = [payment EXCEPT ![p].at = "idle"]
  /\ CallFails
  /\ UNCHANGED <<retryCount, inWindow, suspended, streak, handled, blurred, stripeVars>>

ThirtyDaysPass ==
  /\ inWindow /\ inWindow' = FALSE
  /\ UNCHANGED <<retryCount, suspended, payment, streak, handled, blurred, stripeVars, billingFailures>>

StripeNext ==
  \/ \E s \in Subscriptions :
       CreateCustomer(s) \/ CreateInStripe(s) \/ StoreSubscription(s) \/ CreateFails(s)
  \/ \E e \in Events :
       \/ \E s \in Subscriptions, status \in {"active", "past_due"} : StripeEvent(e, s, status)
       \/ Receive(e) \/ InvoicePaid(e) \/ FindFailed(e) \/ PaymentFailed(e) \/ DeliveryFails(e)

PaymentNext ==
  \/ \E p \in Payments : ReadFailures(p) \/ CountFailure(p) \/ PaymentCallFails(p)
  \/ ResetFailures \/ ThirtyDaysPass

-----------------------------------------------------------------------------
(* Properties *)

BillingTypeOK ==
  /\ \A e \in Events : event[e] = None \/ event[e].of \in Subscriptions
  /\ \A e \in Events : delivery[e] \in {"idle", "active", "past_due", "update"}
  /\ stored = None \/ stored \in [subscription : Subscriptions, status : {"active", "past_due"}]
  /\ retryCount = None \/ retryCount \in 0..SuspendAt - 1
  /\ suspended \in BOOLEAN /\ inWindow \in BOOLEAN /\ billingFailures \in 0..MaxBillingFailures

\* Once Stripe's last event about the stored subscription is answered, the row says what Stripe
\* says, if the events came in order, one at a time, and not before the row: neither way in
\* compares an event with what the row already knows.
StatusFollowsStripe ==
  ~astray /\ stored # None /\ (\A e \in Events : event[e] # None => event[e].acknowledged /\ delivery[e] = "idle")
    => stored.status = standing[stored.subscription]

\* An organization is suspended for SuspendAt failures in a row at the latest when they are handled one at
\* a time within 30 days of the first one recorded, and never for fewer in all.
SuspendedForFailures ==
  /\ suspended => handled >= SuspendAt
  /\ streak >= SuspendAt /\ ~blurred => suspended
=============================================================================
