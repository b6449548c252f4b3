----------------------------- MODULE StripeAdapter -----------------------------
(***************************************************************************)
(* StripeBillingProvider (packages/billing/src/providers/stripe.ts): what  *)
(* a webhook and a retrieved subscription become.                          *)
(*                                                                         *)
(* An event is normalized from the subscription that is retrieved while    *)
(* the webhook is handled, so the subscription is an argument of its own:  *)
(* one event id has as many normal forms as states the subscription is     *)
(* retrieved in.  A set of normal forms or snapshots is empty when the     *)
(* adapter throws; then nothing was written.                               *)
(***************************************************************************)
EXTENDS ProviderEvents, ProviderReconciliation

CONSTANT Stripe  \* how the deployment configured the adapter

ASSUME StripeAssumption ==
  Stripe \in [ production : BOOLEAN, secretKey : BOOLEAN, webhookSecret : BOOLEAN,
               priceId : BOOLEAN ]

-------------------------------------------------------------------------------
(***************************************************************************)
(* A subscription as Stripe shows it, and its snapshot.                    *)
(***************************************************************************)

StatusOrder ==
  << "incomplete", "trialing", "active", "past_due", "unpaid", "paused", "canceled",
     "incomplete_expired" >>

StripeStatuses == { StatusOrder[i] : i \in DOMAIN StatusOrder }

Times == (Nat \ { Never }) \cup { Undefined }

\* `invoice' is the latest one: paid, open with or without an attempt to
\* collect it, or none; `price' whether the one item is the configured plan.
StripeSubscription ==
  [ status : StripeStatuses, livemode : BOOLEAN, price : { "plan", "other" },
    end : Times, cancelAtPeriodEnd : BOOLEAN,
    invoice : { "paid", "attempted", "unattempted", "none" },
    canceledAt : Times, endedAt : Times, created : Times ]

NormalizedStatus(status) ==
  CASE status \in { "incomplete", "trialing" } -> "INCOMPLETE"
    [] status = "active"                       -> "ACTIVE"
    [] status = "past_due"                     -> "PAST_DUE"
    [] status \in { "unpaid", "paused" }       -> "SUSPENDED"
    [] status = "canceled"                     -> "CANCELLED"
    [] status = "incomplete_expired"           -> "EXPIRED"

LatestPayment(invoice) ==
  CASE invoice = "paid"        -> "SUCCEEDED"
    [] invoice = "attempted"   -> "FAILED"
    [] invoice = "unattempted" -> "PENDING"
    [] invoice = "none"        -> "UNKNOWN"

\* Nothing but a cancellation or the end moves it from the creation.
UpdatedAt(subscription) ==
  Given(subscription.canceledAt, Given(subscription.endedAt, subscription.created))

\* The string `status:canceled_at:end' as a number, for times below the base.
VersionBase == 10

StateVersion(subscription) ==
  LET ordinal == CHOOSE i \in DOMAIN StatusOrder : StatusOrder[i] = subscription.status
  IN  ordinal * VersionBase * VersionBase
        + Given(subscription.canceledAt, 0) * VersionBase
        + Given(subscription.end, 0)

\* It is of this deployment's environment and has the one supported item.
Supported(subscription) ==
  /\ Stripe.secretKey
  /\ subscription.livemode = Stripe.production
  /\ Stripe.priceId
  /\ subscription.price = "plan"

StripeSnapshot(subscription) ==
  [ status            |-> NormalizedStatus(subscription.status),
    payment           |-> LatestPayment(subscription.invoice),
    cancelAtPeriodEnd |-> subscription.cancelAtPeriodEnd,
    end               |-> subscription.end,
    updatedAt         |-> UpdatedAt(subscription),
    stateVersion      |-> StateVersion(subscription) ]

\* retrieveSubscription: what it answers, if it does not throw.
RetrieveSubscription(subscription) ==
  { StripeSnapshot(s) : s \in { t \in { subscription } : Supported(t) } }

-------------------------------------------------------------------------------
(***************************************************************************)
(* A webhook, and the events it may become.                                *)
(***************************************************************************)

InvoiceEvents ==
  { "invoice.paid", "invoice.payment_succeeded", "invoice.payment_failed",
    "invoice.payment_action_required" }

SubscriptionEvents ==
  { "customer.subscription.created", "customer.subscription.updated",
    "customer.subscription.deleted", "customer.subscription.paused",
    "customer.subscription.resumed" }

DisputeEvents == { "charge.dispute.created", "charge.dispute.closed" }

SupportedEventTypes ==
  { "checkout.session.completed", "charge.refunded" }
    \cup InvoiceEvents \cup SubscriptionEvents \cup DisputeEvents

\* `linked' says whether the session, invoice or charge leads to a
\* subscription, for a charge by its payment intent and its invoice;
\* `reference' whether the session carries client_reference_id; `cycle'
\* whether the invoice was billed for a new cycle or a threshold; `amount' how
\* what it collected compares with the plan snapshot of the purchase;
\* `refunded' whether the charge is refunded in full; `won' the dispute's end.
Webhook ==
  [ id : EventIds, hash : Nat, type : STRING, created : Nat \ { Never },
    signed : BOOLEAN, livemode : BOOLEAN, linked : BOOLEAN, reference : BOOLEAN,
    cycle : BOOLEAN, amount : { "match", "mismatch" }, refunded : BOOLEAN, won : BOOLEAN ]

\* The signature is that of the raw body, and the event is one for here.
Genuine(w) ==
  /\ Stripe.secretKey
  /\ w.signed
  /\ Stripe.webhookSecret
  /\ w.type \in SupportedEventTypes
  /\ w.livemode = Stripe.production

\* The fields of the event the webhook becomes.  What a won dispute's handler
\* retrieves later is only looked at there.
BaseEvent(w, type) ==
  [ id |-> w.id, hash |-> w.hash, type |-> type, at |-> w.created, checkout |-> FALSE,
    end |-> Undefined, amount |-> "absent", fullRefund |-> FALSE,
    retrievedStatus |-> "ACTIVE", retrievedPayment |-> "SUCCEEDED" ]

EndingAt(n, end) == [ n EXCEPT !.end = end ]

RefundOf(w) == [ BaseEvent(w, "refunded") EXCEPT !.fullRefund = w.refunded ]

\* A dispute is resolved only when it is closed and won.
Won(w) == w.type = "charge.dispute.closed" /\ w.won

ResolvedBy(w, s) ==
  [ BaseEvent(w, "dispute_resolved") EXCEPT
      !.end = s.end, !.retrievedStatus = s.status, !.retrievedPayment = s.payment ]

\* The completed checkout is pending whatever the subscription is by now.
CheckoutOf(w) == [ BaseEvent(w, "pending") EXCEPT !.checkout = w.reference ]

AwaitsPayment(w, s) ==
  /\ s.payment # "SUCCEEDED"
  /\ w.type \notin { "invoice.paid", "invoice.payment_succeeded" }

\* An amount is known only from the webhook's own invoice.
PaymentOf(w, s) ==
  LET type == IF w.type \in InvoiceEvents /\ w.cycle THEN "renewed" ELSE "activated"
  IN  [ BaseEvent(w, type) EXCEPT
          !.end = s.end,
          !.amount = IF w.type \in InvoiceEvents THEN w.amount ELSE "absent" ]

EndOf(w, subscription) ==
  LET type == IF \/ subscription.endedAt # Undefined
                 \/ w.type = "customer.subscription.deleted"
                THEN "expired" ELSE "cancelled"
  IN  EndingAt(BaseEvent(w, type), Given(subscription.endedAt, w.created))

\* #normalizedSubscriptionEvent, on the subscription and its snapshot.
ChangeOf(w, subscription, s) ==
  CASE s.cancelAtPeriodEnd /\ s.status = "ACTIVE" /\ s.end # Undefined ->
         { EndingAt(BaseEvent(w, "cancel_scheduled"), s.end) }
    [] s.status = "INCOMPLETE" \/ (s.status = "ACTIVE" /\ AwaitsPayment(w, s)) ->
         { BaseEvent(w, "pending") }
    [] s.status = "ACTIVE" ->
         IF s.end = Undefined THEN {} ELSE { PaymentOf(w, s) }
    [] s.status \in { "PAST_DUE", "SUSPENDED" } ->
         { BaseEvent(w, "payment_failed") }
    [] s.status = "EXPIRED" ->
         { EndingAt(BaseEvent(w, "expired"), w.created) }
    [] OTHER ->
         { EndOf(w, subscription) }

\* verifyAndParseWebhook, when the subscription is retrieved as given.  A
\* charge is resolved through its invoice.  A won dispute is delivered here only
\* if its handler's retrieval answers: otherwise that handler changes nothing.
StripeEvents(w, subscription) ==
  IF ~(Genuine(w) /\ w.linked) THEN {}
  ELSE CASE w.type = "charge.refunded" -> { RefundOf(w) }
         [] w.type \in DisputeEvents /\ ~Won(w) -> { BaseEvent(w, "disputed") }
         [] w.type \in DisputeEvents /\ Won(w) ->
              { ResolvedBy(w, s) : s \in RetrieveSubscription(subscription) }
         [] w.type = "checkout.session.completed" ->
              { CheckoutOf(w) : s \in RetrieveSubscription(subscription) }
         [] OTHER ->
              UNION { ChangeOf(w, subscription, s) : s \in RetrieveSubscription(subscription) }
===============================================================================
