---------------------------- MODULE ProviderEvents ----------------------------
(***************************************************************************)
(* Webhook ingestion: BillingProviderEventService.ingestWebhook and        *)
(* #process (packages/billing/src/provider-events.ts).                     *)
(*                                                                         *)
(* A delivery is one HTTP request that is being handled.  It awaits a      *)
(* database or network call between any two of its steps, so the steps of  *)
(* different deliveries, of the worker and of the dashboard interleave     *)
(* freely.  Providers deliver at least once, in any order, and any number  *)
(* of deliveries of one event may be in flight.                            *)
(*                                                                         *)
(* The adapters normalize a webhook before it reaches the ledger.  Stripe  *)
(* events are normalized from the subscription as it is retrieved at each  *)
(* delivery, and PayTR callbacks from the instant of receipt, so one event *)
(* id may have several normal forms: Normalized is the set of those that   *)
(* occur.  `hash' identifies the raw body.                                 *)
(***************************************************************************)
EXTENDS BillingStore

CONSTANTS
  Normalized,     \* the normalized provider events that may be delivered
  Deliveries,     \* requests that can be in flight at the same time
  MaxDeliveries,  \* bound on the number of deliveries
  MaxCrashes      \* bound on the number of process crashes

VARIABLES
  pc,        \* the step each delivery is about to take
  handling,  \* the normalized event it carries
  seen,      \* the status and version of the subscription it loaded
  received,  \* how many deliveries have arrived
  acked,     \* the events some delivery of which was answered with success
  crashes    \* how many processes have crashed

deliveryVars == << pc, handling, seen, received, acked, crashes >>

EventTypes ==
  { "pending", "activated", "renewed", "payment_failed", "grace_started",
    "cancel_scheduled", "cancelled", "expired", "refunded", "disputed",
    "dispute_resolved" }

\* `checkout' says whether the event names the internal checkout session;
\* `end' is its periodEnd, effectiveAt or gracePeriodEndsAt; `amount' how its
\* amount and currency compare with the plan snapshot; `retrieved' is what the
\* provider answers when a won dispute makes the handler retrieve the
\* subscription.
NormalizedEvent ==
  [ id : EventIds, hash : Nat, type : EventTypes, at : Nat \ { Never }, checkout : BOOLEAN,
    end : (Nat \ { Never }) \cup { Undefined },
    amount : { "match", "mismatch", "absent" }, fullRefund : BOOLEAN,
    retrievedStatus : Statuses, retrievedPayment : PaymentStatuses ]

\* The event types whose contract makes the field held by `end' mandatory.
EndRequired == { "activated", "renewed", "grace_started", "cancel_scheduled",
                 "cancelled", "expired" }

ASSUME EventsAssumption ==
  /\ \A n \in Normalized : n \in NormalizedEvent
  /\ \A n \in Normalized : n.type \in EndRequired => n.end # Undefined
  /\ Undefined \notin Normalized
  /\ Undefined \notin [ status : Statuses, version : Nat ]

ASSUME BoundsAssumption ==
  /\ MaxDeliveries \in Nat
  /\ MaxCrashes \in Nat

Steps == { "idle", "mark", "bind", "load", "apply", "checkout", "enqueue", "fail" }

Snapshot == [ status : Statuses, version : Nat ]

DeliveriesTypeOK ==
  /\ pc \in [ Deliveries -> Steps ]
  /\ handling \in [ Deliveries -> Normalized \cup { Undefined } ]
  /\ seen \in [ Deliveries -> Snapshot \cup { Undefined } ]
  /\ received \in Nat
  /\ acked \in SUBSET EventIds
  /\ crashes \in Nat
  /\ \A d \in Deliveries : pc[d] # "idle" => handling[d] \in Normalized
  /\ \A d \in Deliveries :
       pc[d] \in { "apply", "checkout", "enqueue" } => seen[d] \in Snapshot

DeliveriesInit ==
  /\ pc = [ d \in Deliveries |-> "idle" ]
  /\ handling = [ d \in Deliveries |-> Undefined ]
  /\ seen = [ d \in Deliveries |-> Undefined ]
  /\ received = 0
  /\ acked = {}
  /\ crashes = 0

-------------------------------------------------------------------------------
(***************************************************************************)
(* What an event asks of the subscription (the switch of #process).        *)
(***************************************************************************)

DisputeWon(n) == n.retrievedStatus = "ACTIVE" /\ n.retrievedPayment = "SUCCEEDED"

StatusAfterFailedPayment(current) ==
  IF current \in Unpaid THEN "INCOMPLETE"
  ELSE IF GraceDays > 0 THEN "GRACE_PERIOD" ELSE "SUSPENDED"

NextStatus(n, current) ==
  CASE n.type = "pending"          -> IF current = "PENDING" THEN "INCOMPLETE" ELSE current
    [] n.type = "activated"        -> "ACTIVE"
    [] n.type = "renewed"          -> "ACTIVE"
    [] n.type = "payment_failed"   -> StatusAfterFailedPayment(current)
    [] n.type = "grace_started"    -> "GRACE_PERIOD"
    [] n.type = "cancel_scheduled" -> "CANCELLED"
    [] n.type = "cancelled"        -> "CANCELLED"
    [] n.type = "expired"          -> "EXPIRED"
    [] n.type = "refunded"         -> "REFUNDED"
    [] n.type = "disputed"         -> "DISPUTED"
    [] n.type = "dispute_resolved" -> IF DisputeWon(n) THEN "ACTIVE" ELSE "SUSPENDED"

PaymentStatus(n) ==
  CASE n.type = "pending"                           -> "PENDING"
    [] n.type \in { "activated", "renewed" }        -> "SUCCEEDED"
    [] n.type \in { "payment_failed", "grace_started" } -> "FAILED"
    [] n.type = "refunded"                          -> "REFUNDED"
    [] n.type = "disputed"                          -> "DISPUTED"
    [] n.type = "dispute_resolved"                  -> n.retrievedPayment
    [] OTHER                                        -> Undefined

PeriodEnd(n) ==
  CASE n.type \in { "activated", "renewed", "cancel_scheduled", "cancelled",
                    "expired", "dispute_resolved" } -> n.end
    [] n.type = "refunded"                          -> n.at
    [] OTHER                                        -> Undefined

GraceEnd(n, next) ==
  CASE n.type \in { "activated", "renewed" }                     -> Never
    [] n.type = "payment_failed" /\ next = "GRACE_PERIOD"        -> n.at + GraceDays
    [] n.type = "grace_started"                                  -> n.end
    [] OTHER                                                     -> Undefined

\* The status of the PaymentTransaction row the event upserts, if it does.
Transaction(n) ==
  CASE n.type \in { "activated", "renewed" } ->
         IF n.amount = "absent" THEN Undefined ELSE "SUCCEEDED"
    [] n.type = "refunded"         -> "REFUNDED"
    [] n.type = "disputed"         -> "DISPUTED"
    [] n.type = "dispute_resolved" -> "REVERSED"
    [] OTHER                       -> Undefined

EventUpdate(n, loaded) ==
  LET next == NextStatus(n, loaded.status) IN
  [ source |-> "webhook", event |-> n.id, expected |-> loaded.version,
    status |-> next, payment |-> PaymentStatus(n), periodEnd |-> PeriodEnd(n),
    graceEnd |-> GraceEnd(n, next), providerAt |-> n.at,
    stateVersion |-> Unretrieved, transaction |-> Transaction(n), now |-> n.at ]

\* (mutant) the collected amount is not compared with the plan snapshot
AnyAmount(n) == TRUE

AmountMatches(n) == n.type \in { "activated", "renewed" } => n.amount # "mismatch"

PartialRefund(n) == n.type = "refunded" /\ ~n.fullRefund

-------------------------------------------------------------------------------
(***************************************************************************)
(* ingestWebhook: the ledger row is created, or found.                     *)
(***************************************************************************)

\* No provider event names a checkout the customer has not been sent to, and
\* the URL or token is returned only after the provider session was stored.
\* PayTR callbacks are dated by their receipt.
Deliverable(n) ==
  /\ checkout.session
  /\ IF Provider = "PAYTR" THEN n.at = clock ELSE n.at <= clock

Arrives(d, n) ==
  /\ pc[d] = "idle"
  /\ received < MaxDeliveries
  /\ Deliverable(n)
  /\ received' = received + 1

SameBody(n) == payloadHash[n.id] = n.hash

StartHandling(d, n) ==
  /\ pc' = [ pc EXCEPT ![d] = "mark" ]
  /\ handling' = [ handling EXCEPT ![d] = n ]
  /\ UNCHANGED << seen, acked, crashes >>

RecordEvent(d, n) ==
  /\ Arrives(d, n)
  /\ ledger[n.id] = "NONE"
  /\ ledger' = [ ledger EXCEPT ![n.id] = "RECEIVED" ]
  /\ payloadHash' = [ payloadHash EXCEPT ![n.id] = n.hash ]
  /\ StartHandling(d, n)
  /\ UNCHANGED << clock, sub, checkout, reconciled, payments, jobQueue >>

\* (mutant) a processed event is processed again
RetriesSettled(n) == ledger[n.id] \in { "RECEIVED", "FAILED", "PROCESSED" }

\* Processing has not begun, or has failed.
Retryable(n) == ledger[n.id] \in { "RECEIVED", "FAILED" }

Redeliver(d, n) ==
  /\ Arrives(d, n)
  /\ Retryable(n)
  /\ SameBody(n)
  /\ StartHandling(d, n)
  /\ UNCHANGED storeVars

\* Processing is done, or somebody else is at it.
NothingToDo(n) == ledger[n.id] \in { "PROCESSED", "PROCESSING" }

\* The request is answered with success at once.
AcknowledgeDuplicate(d, n) ==
  /\ Arrives(d, n)
  /\ NothingToDo(n)
  /\ SameBody(n)
  /\ acked' = acked \cup { n.id }
  /\ UNCHANGED storeVars
  /\ UNCHANGED << pc, handling, seen, crashes >>

\* The event id is known with another body: answer an error at once.
RefuseReplay(d, n) ==
  /\ Arrives(d, n)
  /\ ledger[n.id] # "NONE"
  /\ ~SameBody(n)
  /\ UNCHANGED storeVars
  /\ UNCHANGED << pc, handling, seen, acked, crashes >>

-------------------------------------------------------------------------------
(***************************************************************************)
(* #process and #bindAndLoadSubscription.                                  *)
(***************************************************************************)

GoTo(d, step) ==
  /\ pc' = [ pc EXCEPT ![d] = step ]
  /\ UNCHANGED << handling, received, acked, crashes >>

Release(d) ==
  /\ pc' = [ pc EXCEPT ![d] = "idle" ]
  /\ handling' = [ handling EXCEPT ![d] = Undefined ]
  /\ seen' = [ seen EXCEPT ![d] = Undefined ]
  /\ UNCHANGED received

\* The request ends with a 2xx answer.
Succeed(d) ==
  /\ Release(d)
  /\ acked' = acked \cup { handling[d].id }
  /\ UNCHANGED crashes

\* (mutant) the event is marked as processed before it is
MarkProcessedEarly(d) ==
  /\ pc[d] = "mark"
  /\ ledger' = [ ledger EXCEPT ![handling[d].id] = "PROCESSED" ]
  /\ GoTo(d, "bind")
  /\ UNCHANGED << clock, sub, checkout, reconciled, payloadHash, payments,
                  jobQueue, seen >>

MarkProcessing(d) ==
  /\ pc[d] = "mark"
  /\ ledger' = [ ledger EXCEPT ![handling[d].id] = "PROCESSING" ]
  /\ GoTo(d, "bind")
  /\ UNCHANGED << clock, sub, checkout, reconciled, payloadHash, payments,
                  jobQueue, seen >>

LoadedRow == [ status |-> sub.status, version |-> sub.version ]

BindingValid(n) == checkout.session /\ n.at <= CheckoutExpiresAt

\* The transaction that stores providerSubscriptionId; it leaves the version.
BindCheckout(d) ==
  /\ pc[d] = "bind"
  /\ handling[d].checkout
  /\ IF BindingValid(handling[d])
       THEN /\ sub' = [ sub EXCEPT !.bound = TRUE ]
            /\ GoTo(d, "load")
       ELSE /\ GoTo(d, "fail")
            /\ UNCHANGED sub
  /\ UNCHANGED << clock, checkout, reconciled, eventRows, jobQueue, seen >>

LoadBound(d) ==
  /\ pc[d] = "load"
  /\ seen' = [ seen EXCEPT ![d] = LoadedRow ]
  /\ GoTo(d, "apply")
  /\ UNCHANGED storeVars

\* An event without a checkout id is matched by providerSubscriptionId.
LoadByProviderId(d) ==
  /\ pc[d] = "bind"
  /\ ~handling[d].checkout
  /\ IF sub.bound
       THEN /\ seen' = [ seen EXCEPT ![d] = LoadedRow ]
            /\ GoTo(d, "apply")
       ELSE /\ GoTo(d, "fail")
            /\ UNCHANGED seen
  /\ UNCHANGED storeVars

RecordPartialRefund(d) ==
  /\ pc[d] = "apply"
  /\ PartialRefund(handling[d])
  /\ payments' = [ payments EXCEPT ![handling[d].id] = "PARTIALLY_REFUNDED" ]
  /\ ledger' = [ ledger EXCEPT ![handling[d].id] = "PROCESSED" ]
  /\ Succeed(d)
  /\ UNCHANGED << clock, sub, checkout, reconciled, payloadHash, jobQueue >>

Apply(d) ==
  /\ pc[d] = "apply"
  /\ ~PartialRefund(handling[d])
  /\ AmountMatches(handling[d])
  /\ ApplyState(EventUpdate(handling[d], seen[d]))
  /\ GoTo(d, "checkout")
  /\ UNCHANGED << clock, checkout, payloadHash, jobQueue, seen >>

\* The amount check or applyState throws.
Reject(d) ==
  /\ pc[d] = "apply"
  /\ ~PartialRefund(handling[d])
  /\ ~( AmountMatches(handling[d]) /\ CanApply(EventUpdate(handling[d], seen[d])) )
  /\ GoTo(d, "fail")
  /\ UNCHANGED storeVars
  /\ UNCHANGED seen

CheckoutAfter(n, loaded) ==
  IF NextStatus(n, loaded.status) = "ACTIVE"
    THEN IF checkout.state = "PROVIDER_PENDING" THEN CheckoutMovedTo("COMPLETED") ELSE checkout
    ELSE IF /\ n.type = "payment_failed"
            /\ loaded.status \in Unpaid
            /\ checkout.state \in OpenCheckout
           THEN CheckoutMovedTo("FAILED")
           ELSE checkout

UpdateCheckout(d) ==
  /\ pc[d] = "checkout"
  /\ checkout' = CheckoutAfter(handling[d], seen[d])
  /\ GoTo(d, "enqueue")
  /\ UNCHANGED << clock, sub, reconciled, eventRows, jobQueue, seen >>

\* (mutant) the first period is forgotten
SchedulesRenewedExpiry(n) == n.type \in { "renewed", "cancel_scheduled" }

SchedulesExpiry(n) == n.type \in { "activated", "renewed", "cancel_scheduled" }

\* An enqueue error is swallowed.
Enqueue(d) ==
  /\ pc[d] = "enqueue"
  /\ \/ /\ SchedulesExpiry(handling[d])
        /\ EnqueueExpiry(handling[d].end)
     \/ /\ SchedulesExpiry(handling[d]) => Faults
        /\ UNCHANGED expiryJobs
  /\ Succeed(d)
  /\ UNCHANGED << clock, sub, checkout, reconciled, eventRows, expiryDone >>

\* Any awaited call inside ingestWebhook's try block may throw; at "checkout"
\* this is also the reconciliation that committed and whose answer was lost.
Fault(d) ==
  /\ Faults
  /\ pc[d] \in { "mark", "bind", "load", "apply", "checkout" }
  /\ GoTo(d, "fail")
  /\ UNCHANGED storeVars
  /\ UNCHANGED seen

\* (mutant) the failure is answered and not recorded
FailSilently(d) ==
  /\ pc[d] = "fail"
  /\ Release(d)
  /\ UNCHANGED storeVars
  /\ UNCHANGED << acked, crashes >>

\* The catch block; the request ends with an error answer.
RecordFailure(d) ==
  /\ pc[d] = "fail"
  /\ ledger' = [ ledger EXCEPT ![handling[d].id] = "FAILED" ]
  /\ Release(d)
  /\ UNCHANGED << clock, sub, checkout, reconciled, payloadHash, payments,
                  jobQueue, acked, crashes >>

\* The API process dies, or the catch block cannot reach the database either.
Crash(d) ==
  /\ pc[d] # "idle"
  /\ crashes < MaxCrashes
  /\ crashes' = crashes + 1
  /\ Release(d)
  /\ UNCHANGED storeVars
  /\ UNCHANGED acked

\* The steps the event loop keeps taking while the process is up.
DeliveryStep(d) ==
  \/ MarkProcessing(d)
  \/ BindCheckout(d)
  \/ LoadBound(d)
  \/ LoadByProviderId(d)
  \/ RecordPartialRefund(d)
  \/ Apply(d)
  \/ Reject(d)
  \/ UpdateCheckout(d)
  \/ Enqueue(d)
  \/ RecordFailure(d)

Arrival(d) ==
  \E n \in Normalized :
    \/ RecordEvent(d, n)
    \/ Redeliver(d, n)
    \/ AcknowledgeDuplicate(d, n)
    \/ RefuseReplay(d, n)

DeliveryNext(d) == Arrival(d) \/ DeliveryStep(d) \/ Fault(d) \/ Crash(d)
===============================================================================
