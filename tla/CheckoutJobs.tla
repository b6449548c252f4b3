----------------------------- MODULE CheckoutJobs -----------------------------
(***************************************************************************)
(* Everything else that writes the rows of one purchase:                   *)
(*                                                                         *)
(*   - the tail of CheckoutService.createCheckout, after its transaction   *)
(*     created the rows (packages/billing/src/checkout.ts);                *)
(*   - the checkout status poll of the dashboard (same file);              *)
(*   - the worker's cleanup of expired checkouts and its expire-entitlement *)
(*     job for PayTR (apps/worker/src/index.ts);                           *)
(*   - the staff suspension form (apps/web/app/actions/billing-admin.ts);  *)
(*   - the passage of time.                                                *)
(*                                                                         *)
(* Each of them reads a row, awaits, and writes.  Where the write depends  *)
(* on what was read, reading and writing are separate steps.               *)
(***************************************************************************)
EXTENDS BillingStore

CONSTANTS
  MaxClock,      \* bound on time
  MaxForms,      \* bound on the suspension forms staff open
  MaxExpiryRuns  \* bound on the runs of expire-entitlement jobs

VARIABLES
  creating,   \* createCheckout awaits the payment provider
  polling,    \* the status poll decided to write EXPIRED and has not yet
  cleanup,    \* what the cleanup job read, while it runs
  expiry,     \* what the running expire-entitlement job read
  expiryRuns, \* how often such a job went as far as reading a matching row
  form,       \* expectedVersion of an open suspension form, or Undefined
  forms       \* how many such forms were opened

webVars    == << creating, polling >>
expiryVars == << expiry, expiryRuns >>
staffVars  == << form, forms >>

jobVars == << webVars, cleanup, expiryVars, staffVars >>

CleanupRead == [ checkoutVersion : Nat, status : Statuses, version : Nat ]
ExpiryRead  == [ expectedAt : Nat, version : Nat ]

JobsTypeOK ==
  /\ creating \in BOOLEAN
  /\ polling \in BOOLEAN
  /\ cleanup \in CleanupRead \cup { Undefined }
  /\ expiry \in ExpiryRead \cup { Undefined }
  /\ expiryRuns \in Nat
  /\ form \in Nat \cup { Undefined }
  /\ forms \in Nat

JobsInit ==
  /\ creating = TRUE
  /\ polling = FALSE
  /\ cleanup = Undefined
  /\ expiry = Undefined
  /\ expiryRuns = 0
  /\ form = Undefined
  /\ forms = 0

CheckoutExpired == CheckoutExpiresAt <= clock

-------------------------------------------------------------------------------
\* createCheckout, once the provider has answered.

StoreProviderSession ==
  /\ creating
  /\ creating' = FALSE
  /\ checkout' = [ state |-> "PROVIDER_PENDING", version |-> checkout.version + 1,
                   session |-> TRUE ]
  /\ UNCHANGED << clock, sub, reconciled, eventRows, jobQueue, polling, cleanup,
                  expiryVars, staffVars >>

\* The catch block writes both rows without looking at either.
ProviderFailed ==
  /\ creating
  /\ creating' = FALSE
  /\ checkout' = CheckoutMovedTo("FAILED")
  /\ sub' = SubscriptionMovedTo("CANCELLED")
  /\ UNCHANGED << clock, reconciled, eventRows, jobQueue, polling, cleanup,
                  expiryVars, staffVars >>

\* The web process dies before it could store or undo anything.
CreateDies ==
  /\ creating
  /\ creating' = FALSE
  /\ UNCHANGED storeVars
  /\ UNCHANGED << polling, cleanup, expiryVars, staffVars >>

-------------------------------------------------------------------------------
\* getCheckoutStatus.  Only a customer who was sent to the provider polls.

PollRead ==
  /\ ~polling
  /\ checkout.session
  /\ CheckoutExpired
  /\ checkout.state \in OpenCheckout
  /\ polling' = TRUE
  /\ UNCHANGED storeVars
  /\ UNCHANGED << creating, cleanup, expiryVars, staffVars >>

PollWrite ==
  /\ polling
  /\ polling' = FALSE
  /\ checkout' = CheckoutMovedTo("EXPIRED")
  /\ UNCHANGED << clock, sub, reconciled, eventRows, jobQueue, creating, cleanup,
                  expiryVars, staffVars >>

-------------------------------------------------------------------------------
\* billing.cleanup-expired-checkouts: the list is read outside the transaction.

CleanupList ==
  /\ cleanup = Undefined
  /\ CheckoutExpired
  /\ checkout.state \in OpenCheckout
  /\ cleanup' = [ checkoutVersion |-> checkout.version,
                  status |-> sub.status, version |-> sub.version ]
  /\ UNCHANGED storeVars
  /\ UNCHANGED << webVars, expiryVars, staffVars >>

\* The updateMany conditions of the transaction.
CleanupOwnsCheckout ==
  /\ checkout.version = cleanup.checkoutVersion
  /\ checkout.state \in OpenCheckout

\* (mutant) the cleanup trusts what it read before the transaction
CleanupReadUnpaid == cleanup.status \in Unpaid

CleanupOwnsSubscription ==
  /\ cleanup.status \in Unpaid
  /\ sub.version = cleanup.version
  /\ sub.status \in Unpaid

CleanupExpires ==
  /\ cleanup # Undefined
  /\ CleanupOwnsCheckout
  /\ checkout' = CheckoutMovedTo("EXPIRED")
  /\ sub' = IF CleanupOwnsSubscription THEN SubscriptionMovedTo("EXPIRED") ELSE sub
  /\ cleanup' = Undefined
  /\ UNCHANGED << clock, reconciled, eventRows, jobQueue, webVars, expiryVars,
                  staffVars >>

\* The checkout changed meanwhile, or the worker died.
CleanupGivesUp ==
  /\ cleanup # Undefined
  /\ ~CleanupOwnsCheckout \/ Faults
  /\ cleanup' = Undefined
  /\ UNCHANGED storeVars
  /\ UNCHANGED << webVars, expiryVars, staffVars >>

-------------------------------------------------------------------------------
\* billing.expire-entitlement for a PayTR purchase.  The job is delayed until
\* its expectedAt.  (For Stripe the job retrieves provider state instead.)

PeriodStillEnds(expectedAt) == sub.periodEnd = expectedAt

ExpiryStart(expectedAt) ==
  /\ Provider = "PAYTR"
  /\ expiry = Undefined
  /\ expectedAt \in expiryJobs
  /\ expectedAt <= clock
  /\ expiryRuns < MaxExpiryRuns
  /\ PeriodStillEnds(expectedAt)
  /\ expiryRuns' = expiryRuns + 1
  /\ expiry' = [ expectedAt |-> expectedAt, version |-> sub.version ]
  /\ UNCHANGED storeVars
  /\ UNCHANGED << webVars, cleanup, staffVars >>

\* The period was extended or cut meanwhile: the job has nothing to do.
ExpiryObsolete(expectedAt) ==
  /\ Provider = "PAYTR"
  /\ expiry = Undefined
  /\ expectedAt \in expiryJobs
  /\ expectedAt <= clock
  /\ ~PeriodStillEnds(expectedAt)
  /\ Finish(expectedAt)
  /\ UNCHANGED << clock, sub, checkout, reconciled, eventRows, jobVars >>

ExpiryUpdate ==
  [ source |-> "worker", event |-> Undefined, expected |-> expiry.version,
    status |-> "EXPIRED", payment |-> Undefined, periodEnd |-> expiry.expectedAt,
    graceEnd |-> Undefined, providerAt |-> Undefined, stateVersion |-> Undefined,
    transaction |-> Undefined, now |-> clock ]

\* The job record is completed after the transaction; a worker that dies in
\* between leaves the job to be run again.
ExpiryApply ==
  /\ expiry # Undefined
  /\ ApplyState(ExpiryUpdate)
  /\ \/ Finish(expiry.expectedAt)
     \/ Faults /\ UNCHANGED jobQueue
  /\ expiry' = Undefined
  /\ UNCHANGED << clock, checkout, payloadHash, webVars, cleanup, expiryRuns,
                  staffVars >>

\* applyState throws, or the worker dies: the queue runs the job again, or,
\* once its attempts are exhausted, does not.
ExpiryFails ==
  /\ expiry # Undefined
  /\ ~CanApply(ExpiryUpdate) \/ Faults
  /\ expiry' = Undefined
  /\ \/ UNCHANGED jobQueue
     \/ Faults /\ Finish(expiry.expectedAt)
  /\ UNCHANGED << clock, sub, checkout, reconciled, eventRows, webVars, cleanup,
                  expiryRuns, staffVars >>

-------------------------------------------------------------------------------
\* adminSuspendSubscriptionAction.  The form carries the version that was on
\* the page; the action checks the status and calls applyState, whose version
\* check subsumes anything that happens between the two.

Suspendable == { "ACTIVE", "PAST_DUE", "GRACE_PERIOD" }

\* The page offers the form on a suspendable subscription only.
OpenForm ==
  /\ form = Undefined
  /\ forms < MaxForms
  /\ sub.status \in Suspendable
  /\ form' = sub.version
  /\ forms' = forms + 1
  /\ UNCHANGED storeVars
  /\ UNCHANGED << webVars, cleanup, expiryVars >>

SuspendUpdate ==
  [ source |-> "admin", event |-> Undefined, expected |-> form,
    status |-> "SUSPENDED", payment |-> Undefined, periodEnd |-> Undefined,
    graceEnd |-> Undefined, providerAt |-> Undefined, stateVersion |-> Undefined,
    transaction |-> Undefined, now |-> clock ]

Suspend ==
  /\ form # Undefined
  /\ sub.status \in Suspendable
  /\ ApplyState(SuspendUpdate)
  /\ form' = Undefined
  /\ UNCHANGED << clock, checkout, payloadHash, jobQueue, webVars, cleanup,
                  expiryVars, forms >>

\* The form was closed, or its submission is refused.
CloseForm ==
  /\ form # Undefined
  /\ form' = Undefined
  /\ UNCHANGED storeVars
  /\ UNCHANGED << webVars, cleanup, expiryVars, forms >>

-------------------------------------------------------------------------------
\* The provider answers createCheckout well within one unit of time.
Tick ==
  /\ ~creating
  /\ clock < MaxClock
  /\ clock' = clock + 1
  /\ UNCHANGED << sub, checkout, reconciled, eventRows, jobQueue >>
  /\ UNCHANGED jobVars

WorkerNext ==
  \/ CleanupList
  \/ CleanupExpires
  \/ CleanupGivesUp
  \/ \E expectedAt \in expiryJobs : ExpiryStart(expectedAt) \/ ExpiryObsolete(expectedAt)
  \/ ExpiryApply
  \/ ExpiryFails

JobsNext ==
  \/ StoreProviderSession
  \/ ProviderFailed
  \/ CreateDies
  \/ PollRead
  \/ PollWrite
  \/ OpenForm
  \/ Suspend
  \/ CloseForm
  \/ WorkerNext
  \/ Tick
===============================================================================
