------------------------------- MODULE MCBilling -------------------------------
(***************************************************************************)
(* Instances of Billing for TLC: the webhooks and callbacks of a scenario, *)
(* put through the adapters.  Time 1 is when the checkout was created.     *)
(***************************************************************************)
EXTENDS Billing, StripeAdapter, PaytrAdapter, TLC

StripeTestMode ==
  [ production |-> FALSE, secretKey |-> TRUE, webhookSecret |-> TRUE, priceId |-> TRUE ]

PaytrTestMode == [ production |-> FALSE, credentials |-> TRUE ]

-------------------------------------------------------------------------------
\* What Stripe sends, and the subscription it shows.

Hook(id, type, at) ==
  [ id |-> id, hash |-> 1, type |-> type, created |-> at, signed |-> TRUE,
    livemode |-> FALSE, linked |-> TRUE, reference |-> TRUE, cycle |-> FALSE,
    amount |-> "match", refunded |-> FALSE, won |-> FALSE ]

Paid(end) ==
  [ status |-> "active", livemode |-> FALSE, price |-> "plan", end |-> end,
    cancelAtPeriodEnd |-> FALSE, invoice |-> "paid", canceledAt |-> Undefined,
    endedAt |-> Undefined, created |-> 1 ]

Unsettled(subscription) == [ subscription EXCEPT !.invoice = "unattempted" ]

PastDue(end) == [ Paid(end) EXCEPT !.status = "past_due", !.invoice = "attempted" ]

Cancelling(end, at) ==
  [ Paid(end) EXCEPT !.cancelAtPeriodEnd = TRUE, !.canceledAt = at ]

\* `ended_at' is nullable.
Canceled(end, at) == [ Paid(end) EXCEPT !.status = "canceled", !.canceledAt = at ]

Ended(end, at) == [ Canceled(end, at) EXCEPT !.endedAt = at ]

\* A test-mode deployment takes no live subscription, and no other plan's.
Foreign == { [ Paid(4) EXCEPT !.livemode = TRUE ], [ Paid(4) EXCEPT !.price = "other" ] }

\* What webhooks become, each when its subscription is retrieved in any of the
\* states given with it.
Received(sent) ==
  UNION { UNION { StripeEvents(s.hook, seenAs) : seenAs \in s.retrieved } : s \in sent }

Sent(hook, retrieved) == [ hook |-> hook, retrieved |-> retrieved ]

Completed == Hook("completed", "checkout.session.completed", 1)

\* The purchase itself.  The completed checkout binds; the invoice pays, and
\* may be delivered so late that the subscription is failing; an update is
\* retrieved as active, settled or not, as failing, or as ending with its
\* period.
PurchaseEvents ==
  Received(
    { Sent(Completed, { Paid(4) }),
      Sent(Hook("invoice", "invoice.paid", 2), { Paid(4), PastDue(4) } \cup Foreign),
      Sent(Hook("updated", "customer.subscription.updated", 2),
           { Paid(4), PastDue(4), Cancelling(4, 2), Unsettled(Paid(4)) } \cup Foreign) })

\* The later life of a paid subscription: renewals and failures, an invoice of
\* another amount, and money that comes back.  A failed invoice has collected
\* nothing; when it is delivered late, the subscription is active again.
LifeEvents ==
  LET cycle == [ Hook("cycle", "invoice.paid", 2) EXCEPT !.cycle = TRUE ]
      short == [ Hook("short", "invoice.paid", 1) EXCEPT !.amount = "mismatch" ]
      late  == [ Hook("failed", "invoice.payment_failed", 2) EXCEPT !.amount = "mismatch" ]
      full  == [ Hook("full", "charge.refunded", 3) EXCEPT !.refunded = TRUE ]
      won   == [ Hook("closed", "charge.dispute.closed", 2) EXCEPT !.won = TRUE ]
  IN
  Received(
    { Sent(Completed, { Paid(2) }),
      Sent(Hook("invoice", "invoice.paid", 1), { Paid(2) }),
      Sent(short, { Paid(2) }),
      Sent(cycle, { Paid(3) }),
      Sent(late, { PastDue(2), Paid(3) }),
      Sent(Hook("updated", "customer.subscription.updated", 2), { Cancelling(3, 2), Paid(3) }),
      Sent(Hook("ended", "customer.subscription.updated", 2), { Canceled(2, 2) }),
      Sent(Hook("deleted", "customer.subscription.deleted", 3), { Ended(3, 3) }),
      Sent(Hook("part", "charge.refunded", 2), { Paid(3) }),
      Sent(full, { Paid(3) }),
      Sent(Hook("disputed", "charge.dispute.created", 2), { Paid(3) }),
      Sent(won, { Paid(3), PastDue(2) }),
      Sent([ won EXCEPT !.signed = FALSE ], { Paid(3) }) })

\* A paid purchase, for reconciliation.  Until the subscription is cancelled
\* what is retrieved is dated by its creation, before the invoice.
PaidEvents ==
  Received({ Sent(Completed, { Paid(3) }),
             Sent(Hook("invoice", "invoice.paid", 2), { Paid(3) }) })

AnswersGiven ==
  UNION { RetrieveSubscription(s) :
            s \in { Paid(3), Unsettled(Paid(3)), PastDue(3), Cancelling(3, 2), Canceled(3, 2) }
                   \cup Foreign }

-------------------------------------------------------------------------------
\* PayTR: one order, called back as paid or as failed, at any time.

CalledBack(status, body) ==
  [ order |-> "order", body |-> body, status |-> status, hashValid |-> TRUE,
    fieldsOnce |-> TRUE, test |-> TRUE, amount |-> "match", total |-> TRUE ]

OrderEvents ==
  LET success == CalledBack("success", 1)
      sent    == { success, CalledBack("failed", 2),
                   [ success EXCEPT !.hashValid = FALSE ], [ success EXCEPT !.total = FALSE ] }
  IN  UNION { PaytrEvents(c, receivedAt) : c \in sent, receivedAt \in 1 .. 3 }

-------------------------------------------------------------------------------
\* What the configurations substitute.  TLC computes the sets above once, and
\* what is substituted for a constant at every use.
Purchase     == PurchaseEvents
Life         == LifeEvents
PaidPurchase == PaidEvents
Answers      == AnswersGiven
Order        == OrderEvents

Ids(events) == { n.id : n \in events }

PurchaseIdSet == Ids(PurchaseEvents)
LifeIdSet     == Ids(LifeEvents)
PaidIdSet     == Ids(PaidEvents)
OrderIdSet    == Ids(OrderEvents)

PurchaseIds == PurchaseIdSet
LifeIds     == LifeIdSet
PaidIds     == PaidIdSet
OrderIds    == OrderIdSet

RequestSymmetry == Permutations(Deliveries)
ReconcilerSymmetry == Permutations(Reconcilers)
===============================================================================
