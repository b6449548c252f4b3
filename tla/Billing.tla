-------------------------------- MODULE Billing --------------------------------
(***************************************************************************)
(* One guild's purchase, from the checkout the customer is sent to until   *)
(* premium ends: webhook deliveries, authoritative reconciliations, the    *)
(* checkout request, the status poll, the worker's jobs and the staff      *)
(* form, all working on the same rows.  The composition of ProviderEvents, *)
(* ProviderReconciliation and CheckoutJobs.                                *)
(***************************************************************************)
EXTENDS ProviderEvents, ProviderReconciliation, CheckoutJobs

vars == << storeVars, deliveryVars, reconcilerVars, jobVars >>

Init == StoreInit /\ DeliveriesInit /\ ReconcilersInit /\ JobsInit

Next ==
  \/ \E d \in Deliveries : DeliveryNext(d) /\ UNCHANGED << reconcilerVars, jobVars >>
  \/ \E r \in Reconcilers : ReconcilerNext(r) /\ UNCHANGED << deliveryVars, jobVars >>
  \/ JobsNext /\ UNCHANGED << deliveryVars, reconcilerVars >>

Spec == Init /\ [][Next]_vars

(***************************************************************************)
(* Fairness.  A request whose process is up keeps running (Node's event    *)
(* loop), time passes, and the queue delivers a due job to the worker,     *)
(* which finishes it.  Nothing makes a customer pay, a provider deliver or *)
(* a process crash.                                                        *)
(***************************************************************************)
RequestsRun ==
  \A d \in Deliveries : WF_vars(DeliveryStep(d) /\ UNCHANGED << reconcilerVars, jobVars >>)

ExpiryStep ==
  \/ \E expectedAt \in expiryJobs : ExpiryStart(expectedAt) \/ ExpiryObsolete(expectedAt)
  \/ ExpiryApply
  \/ ExpiryFails

FairSpec ==
  /\ Spec
  /\ RequestsRun
  /\ WF_vars(Tick /\ UNCHANGED << deliveryVars, reconcilerVars >>)
  /\ WF_vars(ExpiryStep /\ UNCHANGED << deliveryVars, reconcilerVars >>)

-------------------------------------------------------------------------------
(***************************************************************************)
(* Invariants.                                                             *)
(***************************************************************************)

\* Every row and every local variable of a handler has its type.
TypeOK == StoreTypeOK /\ DeliveriesTypeOK /\ ReconcilersTypeOK /\ JobsTypeOK

\* Active entitlements are those of the row as it stands, with the row's own
\* end date: no writer that bypasses applyState (a failed checkout, the
\* cleanup job, the binding transaction) leaves premium behind on a row that
\* no longer earns it.
EntitlementBacked ==
  entitlement.status = "ACTIVE" =>
    \/ /\ sub.status \in { "ACTIVE", "CANCELLED" }
       /\ sub.payment = "SUCCEEDED"
       /\ entitlement.endsAt = sub.periodEnd
    \/ /\ sub.status = "GRACE_PERIOD"
       /\ entitlement.endsAt = sub.graceEnd

\* A provider event that confirms a payment of the purchased plan.
ConfirmsPayment(n) ==
  \/ n.type \in { "activated", "renewed" } /\ n.amount # "mismatch"
  \/ n.type = "dispute_resolved" /\ DisputeWon(n)

ConfirmedByEvent(a) ==
  \E n \in Normalized : a.event = n.id /\ a.to = "ACTIVE" /\ ConfirmsPayment(n)

\* The provider was asked, and answered that the latest invoice is paid.
ConfirmedByProvider(a) == a.source = "reconciliation" /\ a.payment = "SUCCEEDED"

PaymentConfirmed == \E a \in audit : ConfirmedByEvent(a) \/ ConfirmedByProvider(a)

\* Premium is active only on a purchase whose payment was confirmed by an
\* applied provider event or by a retrieved subscription: no redirect, poll,
\* job, staff action or other event turns it on (docs/threat-model.md, security
\* invariant 8).
PremiumWasPaid == entitlement.status = "ACTIVE" => PaymentConfirmed

AppliedEvents == { a.event : a \in audit }

\* A ledger row says PROCESSED only when the event's effect was committed.
ProcessedWasApplied ==
  \A e \in EventIds :
    ledger[e] = "PROCESSED" =>
      e \in AppliedEvents \/ payments[e] = "PARTIALLY_REFUNDED"

\* The reconciliation audit trail is a history: one row per version, and of
\* two consecutive versions the later starts from the status the earlier
\* produced.  A lost update, two handlers applying on the same read, breaks it.
AuditIsHistory ==
  \A a, b \in audit :
    /\ a.version <= sub.version
    /\ a.version = b.version => a = b
    /\ a.version + 1 = b.version => a.to = b.from

(***************************************************************************)
(* Action properties.                                                      *)
(***************************************************************************)

\* Older provider state never overwrites newer provider state, whatever the
\* order in which deliveries finish (docs/stripe.md).
NoStaleOverwrite == [][sub'.providerAt >= sub.providerAt]_vars

\* The next status is computed from the row a handler loaded before several
\* awaits; when it is applied, the row is still in the status the handler
\* decided on.  The version check of applyState gives this only because every
\* writer of the status bumps the version, those outside applyState too.
DecidedOnCurrentStatus ==
  [][ /\ \A d \in Deliveries :
           pc[d] = "apply" /\ pc'[d] = "checkout" => seen[d].status = sub.status
      /\ \A r \in Reconcilers :
           Decided(r) /\ Idle(r)' /\ audit' # audit
             => reconciling[r].status = sub.status ]_vars

\* Reconciling again and again does not prolong the grace period of a
\* subscription whose state at the provider has not changed, although each
\* reconciliation computes the end of the grace period from its own present.
GraceIsNotProlonged ==
  [][ /\ sub.status = "GRACE_PERIOD"
      /\ sub'.status = "GRACE_PERIOD"
      /\ sub.stateVersion # Unretrieved
      /\ sub'.stateVersion = sub.stateVersion
      => sub'.graceEnd = sub.graceEnd ]_vars

\* The worker ends a purchase only when the period it is in has run out, also
\* when another delivery extends the period between the worker's read and its
\* transaction.
ExpiryRespectsRenewal ==
  [][ \A a \in audit' \ audit :
        a.source = "worker" => sub.periodEnd <= clock ]_vars

\* The promised life cycle is implemented.
Lifecycle == INSTANCE SubscriptionLifecycle
  WITH status  <- sub.status,
       paid    <- PaymentConfirmed,
       premium <- entitlement.status = "ACTIVE"

ImplementsLifecycle == Lifecycle!LifecycleSpec

(***************************************************************************)
(* Promises that hold on restricted instances only.                        *)
(***************************************************************************)

\* One provider event changes the subscription at most once
\* (docs/stripe.md: events are deduplicated).
AppliedAtMostOnce ==
  \A a, b \in audit : a.event = b.event /\ a.event # Undefined => a = b

\* An event that was answered with success, and that no request is handling,
\* has been reconciled (docs/paytr.md: reconcile, then reply OK).
AcknowledgedMeansReconciled ==
  \A e \in acked :
    \/ ledger[e] = "PROCESSED"
    \/ \E d \in Deliveries : pc[d] # "idle" /\ handling[d].id = e

(***************************************************************************)
(* Liveness.                                                               *)
(***************************************************************************)

\* While no process crashes, an event does not stay in processing.
EventSettles ==
  \A e \in EventIds :
    ledger[e] = "PROCESSING" ~> ledger[e] \in { "PROCESSED", "FAILED" }

\* When no call is lost, a paid PayTR purchase, which nothing renews, ends.
PaidPeriodEnds == sub.status = "ACTIVE" ~> sub.status # "ACTIVE"
===============================================================================
