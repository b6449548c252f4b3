----------------------------- MODULE BillingStore -----------------------------
(***************************************************************************)
(* The rows that one guild's purchase lives in, and the transaction that   *)
(* reconciles them.                                                        *)
(*                                                                         *)
(* One GuildSubscription row, its CheckoutSession, the GuildEntitlement    *)
(* rows it owns (they are always written together, so they are one         *)
(* record), the BillingProviderEvent ledger, the PaymentTransaction rows   *)
(* (one per provider event, the idempotency key), the reconciliation audit *)
(* trail, and the delayed billing.expire-entitlement jobs.                 *)
(*                                                                         *)
(* SubscriptionReconciliationService.applyState                            *)
(* (packages/billing/src/reconciliation.ts) is one database transaction    *)
(* whose UPDATE is guarded by the row version, so it is one atomic step.   *)
(***************************************************************************)
EXTENDS SubscriptionStates, FiniteSets

CONSTANTS
  EventIds,           \* providerEventId values
  Provider,           \* "STRIPE" or "PAYTR"
  CheckoutExpiresAt,  \* CheckoutSession.expiresAt
  GraceDays,          \* config.billing.gracePeriodDays, in clock units
  Faults,             \* whether database, provider and queue calls may fail
  Undefined           \* a field the caller left out (TypeScript's undefined)

ASSUME StoreAssumption ==
  /\ Provider \in { "STRIPE", "PAYTR" }
  /\ CheckoutExpiresAt \in Nat
  /\ CheckoutExpiresAt > 1  \* the checkout is created at time 1
  /\ GraceDays \in Nat
  /\ Faults \in BOOLEAN
  /\ Undefined \notin Nat \cup Statuses \cup PaymentStatuses \cup EventIds

VARIABLES
  clock,               \* wall-clock time, in the coarse units of the model
  sub,                 \* the GuildSubscription row
  checkout,            \* its CheckoutSession row
  entitlement,         \* its GuildEntitlement rows
  entitlementVersion,  \* Guild.billingEntitlementVersion
  ledger,              \* BillingProviderEvent.processingStatus, by event id
  payloadHash,         \* BillingProviderEvent.payloadHash, by event id
  payments,            \* PaymentTransaction.status, by idempotency key
  audit,               \* billing.subscription.state-reconciled audit rows
  expiryJobs,          \* expectedAt of expire-entitlement jobs still in the queue
  expiryDone           \* expectedAt of those that have left it

reconciled == << entitlement, entitlementVersion, audit >>  \* only applyState writes them
eventRows  == << ledger, payloadHash, payments >>
jobQueue   == << expiryJobs, expiryDone >>

storeVars == << clock, sub, checkout, reconciled, eventRows, jobQueue >>

-------------------------------------------------------------------------------
\* Rows.

CheckoutStates == { "CREATED", "PROVIDER_PENDING", "COMPLETED", "EXPIRED", "FAILED" }
OpenCheckout   == { "CREATED", "PROVIDER_PENDING" }
LedgerStates   == { "NONE", "RECEIVED", "PROCESSING", "PROCESSED", "FAILED" }
Sources        == { "webhook", "worker", "admin", "reconciliation" }

\* providerStateVersion, when it is NULL or was written by a provider event,
\* whose version is never that of a retrieved subscription.
Unretrieved == 0

SubscriptionRow ==
  [ status : Statuses, version : Nat, payment : PaymentStatuses,
    periodEnd : Nat, graceEnd : Nat, providerAt : Nat, stateVersion : Nat,
    bound : BOOLEAN ]

CheckoutRow == [ state : CheckoutStates, version : Nat, session : BOOLEAN ]

EntitlementRow == [ status : { "NONE", "ACTIVE", "REVOKED" }, endsAt : Nat ]

AuditRow ==
  [ source : Sources, event : EventIds \cup { Undefined }, from : Statuses,
    to : Statuses, version : Nat, payment : PaymentStatuses ]

StoreTypeOK ==
  /\ clock \in Nat
  /\ sub \in SubscriptionRow
  /\ checkout \in CheckoutRow
  /\ entitlement \in EntitlementRow
  /\ entitlementVersion \in Nat
  /\ ledger \in [ EventIds -> LedgerStates ]
  /\ payloadHash \in [ EventIds -> Nat ]
  /\ payments \in [ EventIds -> PaymentStatuses \cup { "NONE" } ]
  /\ audit \in SUBSET AuditRow
  /\ expiryJobs \in SUBSET Nat
  /\ expiryDone \in SUBSET Nat

\* The rows as the transaction of createCheckout leaves them, with the column
\* defaults of the Prisma schema, and nothing received yet.
NewSubscription ==
  [ status |-> "PENDING", version |-> 1, payment |-> "PENDING",
    periodEnd |-> Never, graceEnd |-> Never, providerAt |-> Never,
    stateVersion |-> Unretrieved, bound |-> FALSE ]

StoreInit ==
  /\ clock = 1
  /\ sub = NewSubscription
  /\ checkout = [ state |-> "CREATED", version |-> 1, session |-> FALSE ]
  /\ entitlement = [ status |-> "NONE", endsAt |-> Never ]
  /\ entitlementVersion = 1
  /\ ledger = [ e \in EventIds |-> "NONE" ]
  /\ payloadHash = [ e \in EventIds |-> 0 ]
  /\ payments = [ e \in EventIds |-> "NONE" ]
  /\ audit = {}
  /\ expiryJobs = {}
  /\ expiryDone = {}

-------------------------------------------------------------------------------
\* Writes outside applyState set the status of a row and increment its version.

Bumped(row) == [ row EXCEPT !.version = @ + 1 ]

CheckoutMovedTo(state) == Bumped([ checkout EXCEPT !.state = state ])

SubscriptionMovedTo(status) == Bumped([ sub EXCEPT !.status = status ])

-------------------------------------------------------------------------------
(***************************************************************************)
(* applyState.  An update u is a SubscriptionStateUpdate: the source and   *)
(* event it comes from, the version its caller read, the next status, the  *)
(* columns it sets (or leaves out), and the instant `now' at which the     *)
(* grant is evaluated.  Only a provider event brings a payment.            *)
(***************************************************************************)

StateUpdate ==
  { u \in [ source : Sources, event : EventIds \cup { Undefined }, expected : Nat,
            status : Statuses, payment : PaymentStatuses \cup { Undefined },
            periodEnd : Nat \cup { Undefined }, graceEnd : Nat \cup { Undefined },
            providerAt : Nat \cup { Undefined }, stateVersion : Nat \cup { Undefined },
            transaction : PaymentStatuses \cup { Undefined }, now : Nat ] :
      u.event = Undefined => u.transaction = Undefined }

\* (mutant) no optimistic concurrency control
AnyVersion(u) == TRUE

VersionMatches(u) == sub.version = u.expected

\* (mutant) the order of provider events is not looked at
AnyOrder(u) == TRUE

NotOlder(u) ==
  u.providerAt # Undefined /\ sub.providerAt # Never => u.providerAt >= sub.providerAt

GraceIsBounded(u) ==
  u.status = "GRACE_PERIOD" => u.graceEnd \notin { Undefined, Never }

\* (mutant) the transition table is not consulted
CanApplyAnyStatus(u) == VersionMatches(u) /\ NotOlder(u) /\ GraceIsBounded(u)

CanApply(u) ==
  /\ VersionMatches(u)
  /\ NotOlder(u)
  /\ CanTransition(sub.status, u.status)
  /\ GraceIsBounded(u)

Given(value, old) == IF value = Undefined THEN old ELSE value

\* (mutant) the increment is forgotten
SameVersion == sub.version

NextVersion == sub.version + 1

UpdatedRow(u) ==
  [ status       |-> u.status,
    version      |-> NextVersion,
    payment      |-> Given(u.payment, sub.payment),
    periodEnd    |-> Given(u.periodEnd, sub.periodEnd),
    graceEnd     |-> Given(u.graceEnd, sub.graceEnd),
    providerAt   |-> Given(u.providerAt, sub.providerAt),
    stateVersion |-> Given(u.stateVersion, sub.stateVersion),
    bound        |-> sub.bound ]

\* (mutant) entitlements are granted and never revoked
NeverRevoked(row, now) ==
  IF GrantsPremium(row, now)
    THEN [ status |-> "ACTIVE", endsAt |-> GrantEnd(row, now) ]
    ELSE entitlement

\* Grant what the updated row earns at `now'; otherwise revoke what exists.
Reissued(row, now) ==
  IF GrantsPremium(row, now)
    THEN [ status |-> "ACTIVE", endsAt |-> GrantEnd(row, now) ]
    ELSE IF entitlement.status = "NONE"
           THEN entitlement
           ELSE [ status |-> "REVOKED", endsAt |-> now ]

AuditOf(u, row) ==
  [ source |-> u.source, event |-> u.event, from |-> sub.status,
    to |-> row.status, version |-> row.version, payment |-> row.payment ]

MarkedProcessed(u) ==
  IF u.event = Undefined THEN ledger ELSE [ ledger EXCEPT ![u.event] = "PROCESSED" ]

\* (mutant) a payment is recorded also when the event has none
RecordedAnyPayment(u) == [ payments EXCEPT ![u.event] = u.transaction ]

RecordedPayment(u) ==
  IF u.transaction = Undefined
    THEN payments
    ELSE [ payments EXCEPT ![u.event] = u.transaction ]

ApplyState(u) ==
  /\ CanApply(u)
  /\ sub' = UpdatedRow(u)
  /\ entitlement' = Reissued(UpdatedRow(u), u.now)
  /\ entitlementVersion' = entitlementVersion + 1
  /\ audit' = audit \cup { AuditOf(u, UpdatedRow(u)) }
  /\ ledger' = MarkedProcessed(u)
  /\ payments' = RecordedPayment(u)

-------------------------------------------------------------------------------
\* enqueueBilling: the identity of the job is its instant, and one whose identity
\* is in the queue, or was, is not added again.
EnqueueExpiry(expectedAt) == expiryJobs' = expiryJobs \cup ({ expectedAt } \ expiryDone)

\* An expire-entitlement job that has been run, or given up, leaves the queue,
\* and its identity is not queued again.
Finish(expectedAt) ==
  /\ expiryJobs' = expiryJobs \ { expectedAt }
  /\ expiryDone' = expiryDone \cup { expectedAt }
===============================================================================
