----------------------------- MODULE BillingProofs -----------------------------
(***************************************************************************)
(* What holds of every instance of Billing: any set of provider events,    *)
(* any number of concurrent deliveries, any bounds.                        *)
(***************************************************************************)
EXTENDS Billing, TLAPS

-------------------------------------------------------------------------------
(***************************************************************************)
(* Updates.                                                                *)
(***************************************************************************)

\* A provider event asks for a well-formed update, whatever row was loaded:
\* every event type of #process is assigned a status and only known columns.
LEMMA EventUpdateType ==
  ASSUME NEW n \in Normalized, NEW loaded \in Snapshot
  PROVE  EventUpdate(n, loaded) \in StateUpdate
<1>1. n \in NormalizedEvent
  BY EventsAssumption
<1>2. NextStatus(n, loaded.status) \in Statuses
  BY <1>1 DEF NormalizedEvent, EventTypes, NextStatus, Statuses, Snapshot,
              StatusAfterFailedPayment
<1>3. PaymentStatus(n) \in PaymentStatuses \cup { Undefined }
  BY <1>1 DEF NormalizedEvent, EventTypes, PaymentStatus, PaymentStatuses
<1>4. PeriodEnd(n) \in Nat \cup { Undefined }
  BY <1>1 DEF NormalizedEvent, EventTypes, PeriodEnd
<1>5. ASSUME NEW next \in Statuses
      PROVE  GraceEnd(n, next) \in Nat \cup { Undefined }
  BY <1>1, StoreAssumption DEF NormalizedEvent, EventTypes, GraceEnd, Never
<1>6. Transaction(n) \in PaymentStatuses \cup { Undefined }
  BY <1>1 DEF NormalizedEvent, EventTypes, Transaction, PaymentStatuses
<1>7. n.id \in EventIds /\ n.at \in Nat /\ loaded.version \in Nat
  BY <1>1 DEF NormalizedEvent, Snapshot
<1>8. n.id # Undefined
  BY <1>7, StoreAssumption
<1>9. QED
  BY <1>2, <1>3, <1>4, <1>5, <1>6, <1>7, <1>8
     DEF EventUpdate, StateUpdate, Sources, Unretrieved

\* So does a retrieved subscription.
LEMMA SnapshotUpdateType ==
  ASSUME NEW s \in Snapshots, NEW expected \in Nat, clock \in Nat
  PROVE  SnapshotUpdate(s, expected) \in StateUpdate
<1>1. s \in ProviderSnapshot
  BY SnapshotsAssumption
<1>2. SnapshotStatus(s) \in Statuses
  BY <1>1 DEF ProviderSnapshot, ProviderStatuses, SnapshotStatus, Statuses
<1>3. s.payment \in PaymentStatuses
  BY <1>1 DEF ProviderSnapshot, InvoiceStatuses, PaymentStatuses
<1>4. Given(s.end, Never) \in Nat /\ Given(s.updatedAt, clock) \in Nat
  BY <1>1 DEF ProviderSnapshot, Given, Never
<1>5. (IF SnapshotStatus(s) = "GRACE_PERIOD" THEN clock + GraceDays ELSE Never) \in Nat
  BY StoreAssumption DEF Never
<1>6. s.stateVersion \in Nat
  BY <1>1 DEF ProviderSnapshot
<1>7. QED
  BY <1>2, <1>3, <1>4, <1>5, <1>6 DEF SnapshotUpdate, StateUpdate, Sources

\* The reconciliation transaction keeps the rows it writes well-formed.
LEMMA ApplyStateType ==
  ASSUME StoreTypeOK, NEW u \in StateUpdate, ApplyState(u)
  PROVE  /\ sub' \in SubscriptionRow
         /\ entitlement' \in EntitlementRow
         /\ entitlementVersion' \in Nat
         /\ audit' \in SUBSET AuditRow
         /\ ledger' \in [ EventIds -> LedgerStates ]
         /\ payments' \in [ EventIds -> PaymentStatuses \cup { "NONE" } ]
<1> DEFINE row == UpdatedRow(u)
<1>1. row \in SubscriptionRow
  BY DEF StoreTypeOK, StateUpdate, UpdatedRow, SubscriptionRow, Given, NextVersion
<1>2. Reissued(row, u.now) \in EntitlementRow
  BY <1>1 DEF StoreTypeOK, StateUpdate, Reissued, EntitlementRow, SubscriptionRow, GrantEnd
<1>3. AuditOf(u, row) \in AuditRow
  BY <1>1 DEF StoreTypeOK, StateUpdate, AuditOf, AuditRow, SubscriptionRow
<1>4. MarkedProcessed(u) \in [ EventIds -> LedgerStates ]
  BY DEF StoreTypeOK, StateUpdate, MarkedProcessed, LedgerStates
<1>5. RecordedPayment(u) \in [ EventIds -> PaymentStatuses \cup { "NONE" } ]
  BY DEF StoreTypeOK, StateUpdate, RecordedPayment
<1>6. entitlementVersion + 1 \in Nat
  BY DEF StoreTypeOK
<1>7. QED
  BY <1>1, <1>2, <1>3, <1>4, <1>5, <1>6 DEF ApplyState, StoreTypeOK

\* A write outside applyState sets one column and increments the version.
LEMMA CheckoutMovedToType ==
  ASSUME checkout \in CheckoutRow, NEW state \in CheckoutStates
  PROVE  /\ CheckoutMovedTo(state) \in CheckoutRow
         /\ CheckoutMovedTo(state).state = state
         /\ CheckoutMovedTo(state).session = checkout.session
<1> DEFINE row == [ checkout EXCEPT !.state = state ]
<1>1. row \in CheckoutRow /\ row.state = state /\ row.session = checkout.session
  BY DEF CheckoutRow
<1>2. ASSUME NEW r \in CheckoutRow
      PROVE  Bumped(r) \in CheckoutRow /\ Bumped(r).state = r.state
             /\ Bumped(r).session = r.session
  BY DEF Bumped, CheckoutRow
<1>3. QED
  BY <1>1, <1>2 DEF CheckoutMovedTo

LEMMA SubscriptionMovedToType ==
  ASSUME sub \in SubscriptionRow, NEW status \in Statuses
  PROVE  LET row == SubscriptionMovedTo(status)
         IN  /\ row \in SubscriptionRow
             /\ row.status = status
             /\ row.version = sub.version + 1
             /\ row.payment = sub.payment
             /\ row.periodEnd = sub.periodEnd
             /\ row.graceEnd = sub.graceEnd
             /\ row.providerAt = sub.providerAt
             /\ row.stateVersion = sub.stateVersion
             /\ row.bound = sub.bound
<1> DEFINE moved == [ sub EXCEPT !.status = status ]
<1>1. /\ moved \in SubscriptionRow
      /\ moved.status = status /\ moved.version = sub.version
      /\ moved.payment = sub.payment /\ moved.periodEnd = sub.periodEnd
      /\ moved.graceEnd = sub.graceEnd /\ moved.providerAt = sub.providerAt
      /\ moved.stateVersion = sub.stateVersion /\ moved.bound = sub.bound
  BY DEF SubscriptionRow
<1>2. ASSUME NEW r \in SubscriptionRow
      PROVE  /\ Bumped(r) \in SubscriptionRow
             /\ Bumped(r).status = r.status /\ Bumped(r).version = r.version + 1
             /\ Bumped(r).payment = r.payment /\ Bumped(r).periodEnd = r.periodEnd
             /\ Bumped(r).graceEnd = r.graceEnd /\ Bumped(r).providerAt = r.providerAt
             /\ Bumped(r).stateVersion = r.stateVersion /\ Bumped(r).bound = r.bound
  BY DEF Bumped, SubscriptionRow
<1>3. QED
  BY <1>1, <1>2 DEF SubscriptionMovedTo

-------------------------------------------------------------------------------
(***************************************************************************)
(* Types.                                                                  *)
(***************************************************************************)

\* Where a delivery goes next: the step is one of the steps, and a delivery
\* that has a row in its hands keeps it.
LEMMA GoToType ==
  ASSUME DeliveriesTypeOK, NEW d \in Deliveries, NEW step \in Steps \ { "idle" },
         pc[d] # "idle", GoTo(d, step),
         \/ /\ step \notin { "apply", "checkout", "enqueue" }
            /\ UNCHANGED seen
         \/ /\ pc[d] \in { "apply", "checkout", "enqueue" }
            /\ UNCHANGED seen
         \/ \E row \in Snapshot : seen' = [ seen EXCEPT ![d] = row ]
  PROVE  DeliveriesTypeOK'
BY DEF DeliveriesTypeOK, GoTo, Steps

\* A delivery that ends leaves nothing behind.
LEMMA ReleaseType ==
  ASSUME DeliveriesTypeOK, NEW d \in Deliveries, Release(d),
         acked' \in SUBSET EventIds, crashes' \in Nat
  PROVE  DeliveriesTypeOK'
BY DEF DeliveriesTypeOK, Release, Steps

\* A delivery that arrives carries one of the events.
LEMMA ArrivalType ==
  ASSUME DeliveriesTypeOK, NEW d \in Deliveries, NEW n \in Normalized,
         Arrives(d, n),
         \/ StartHandling(d, n)
         \/ /\ UNCHANGED << pc, handling, seen, crashes >>
            /\ acked' \in SUBSET EventIds
  PROVE  DeliveriesTypeOK'
BY DEF DeliveriesTypeOK, Arrives, StartHandling, Steps

\* Steps of a delivery keep every row well-formed.
LEMMA DeliveryStepType ==
  ASSUME TypeOK, NEW d \in Deliveries, DeliveryStep(d)
  PROVE  StoreTypeOK' /\ DeliveriesTypeOK'
<1>1. StoreTypeOK /\ DeliveriesTypeOK
  BY DEF TypeOK
<1>2. pc[d] # "idle" => handling[d] \in NormalizedEvent
  BY <1>1, EventsAssumption DEF DeliveriesTypeOK
<1>3. LoadedRow \in Snapshot
  BY <1>1 DEF StoreTypeOK, SubscriptionRow, LoadedRow, Snapshot
<1>4. CASE MarkProcessing(d)
  <2>1. StoreTypeOK'
    BY <1>1, <1>2, <1>4 DEF MarkProcessing, StoreTypeOK, LedgerStates, NormalizedEvent,
       reconciled, jobQueue
  <2>2. DeliveriesTypeOK'
    BY <1>1, <1>4, GoToType DEF MarkProcessing, Steps
  <2>3. QED
    BY <2>1, <2>2
<1>5. CASE BindCheckout(d)
  <2>1. StoreTypeOK'
    BY <1>1, <1>5 DEF BindCheckout, StoreTypeOK, SubscriptionRow,
       reconciled, eventRows, jobQueue
  <2>2. DeliveriesTypeOK'
    BY <1>1, <1>5, GoToType DEF BindCheckout, Steps
  <2>3. QED
    BY <2>1, <2>2
<1>6. CASE LoadBound(d)
  BY <1>1, <1>3, <1>6, GoToType DEF LoadBound, Steps, StoreTypeOK, storeVars,
     reconciled, eventRows, jobQueue
<1>7. CASE LoadByProviderId(d)
  BY <1>1, <1>3, <1>7, GoToType DEF LoadByProviderId, Steps, StoreTypeOK, storeVars,
     reconciled, eventRows, jobQueue
<1>8. CASE RecordPartialRefund(d)
  <2>1. StoreTypeOK'
    BY <1>1, <1>2, <1>8 DEF RecordPartialRefund, StoreTypeOK, LedgerStates,
       PaymentStatuses, NormalizedEvent, reconciled, jobQueue
  <2>2. DeliveriesTypeOK'
    BY <1>1, <1>2, <1>8, ReleaseType
       DEF RecordPartialRefund, Succeed, DeliveriesTypeOK, NormalizedEvent
  <2>3. QED
    BY <2>1, <2>2
<1>9. CASE Apply(d)
  <2>1. EventUpdate(handling[d], seen[d]) \in StateUpdate
    BY <1>1, <1>9, EventUpdateType DEF Apply, DeliveriesTypeOK
  <2>2. StoreTypeOK'
    BY <1>1, <1>9, <2>1, ApplyStateType DEF Apply, StoreTypeOK, jobQueue
  <2>3. DeliveriesTypeOK'
    BY <1>1, <1>9, GoToType DEF Apply, Steps
  <2>4. QED
    BY <2>2, <2>3
<1>10. CASE Reject(d)
  BY <1>1, <1>10, GoToType DEF Reject, Steps, StoreTypeOK, storeVars,
     reconciled, eventRows, jobQueue
<1>11. CASE UpdateCheckout(d)
  <2>1. checkout' \in CheckoutRow
    <3>1. checkout \in CheckoutRow
      BY <1>1 DEF StoreTypeOK
    <3>2. QED
      BY <1>11, <3>1, CheckoutMovedToType DEF UpdateCheckout, CheckoutAfter, CheckoutStates
  <2>2. StoreTypeOK'
    BY <1>1, <1>11, <2>1 DEF UpdateCheckout, StoreTypeOK, reconciled, eventRows, jobQueue
  <2>3. DeliveriesTypeOK'
    BY <1>1, <1>11, GoToType DEF UpdateCheckout, Steps
  <2>4. QED
    BY <2>2, <2>3
<1>12. CASE Enqueue(d)
  <2>1. SchedulesExpiry(handling[d]) => handling[d].end \in Nat
    BY <1>1, <1>2, <1>12, EventsAssumption
       DEF Enqueue, SchedulesExpiry, DeliveriesTypeOK, EndRequired, NormalizedEvent
  <2>2. StoreTypeOK'
    BY <1>1, <1>12, <2>1 DEF Enqueue, EnqueueExpiry, StoreTypeOK, reconciled, eventRows
  <2>3. DeliveriesTypeOK'
    BY <1>1, <1>2, <1>12, ReleaseType
       DEF Enqueue, Succeed, DeliveriesTypeOK, NormalizedEvent
  <2>4. QED
    BY <2>2, <2>3
<1>13. CASE RecordFailure(d)
  <2>1. StoreTypeOK'
    BY <1>1, <1>2, <1>13 DEF RecordFailure, StoreTypeOK, LedgerStates, NormalizedEvent,
       reconciled, jobQueue
  <2>2. DeliveriesTypeOK'
    BY <1>1, <1>13, ReleaseType DEF RecordFailure, DeliveriesTypeOK
  <2>3. QED
    BY <2>1, <2>2
<1>14. QED
  BY <1>4, <1>5, <1>6, <1>7, <1>8, <1>9, <1>10, <1>11, <1>12, <1>13 DEF DeliveryStep

\* So do arrivals, faults and crashes.
LEMMA DeliveryType ==
  ASSUME TypeOK, NEW d \in Deliveries, DeliveryNext(d)
  PROVE  StoreTypeOK' /\ DeliveriesTypeOK'
<1>1. StoreTypeOK /\ DeliveriesTypeOK
  BY DEF TypeOK
<1>2. CASE Arrival(d)
  <2>1. PICK n \in Normalized :
          \/ RecordEvent(d, n)
          \/ Redeliver(d, n)
          \/ AcknowledgeDuplicate(d, n)
          \/ RefuseReplay(d, n)
    BY <1>2 DEF Arrival
  <2>2. n \in NormalizedEvent
    BY EventsAssumption
  <2>3. CASE RecordEvent(d, n)
    <3>1. StoreTypeOK'
      BY <1>1, <2>2, <2>3 DEF RecordEvent, StoreTypeOK, LedgerStates, NormalizedEvent,
         reconciled, jobQueue
    <3>2. DeliveriesTypeOK'
      BY <1>1, <2>3, ArrivalType DEF RecordEvent
    <3>3. QED
      BY <3>1, <3>2
  <2>4. CASE Redeliver(d, n)
    BY <1>1, <2>4, ArrivalType DEF Redeliver, StoreTypeOK, storeVars,
       reconciled, eventRows, jobQueue
  <2>5. CASE AcknowledgeDuplicate(d, n)
    <3>1. acked' \in SUBSET EventIds
      BY <1>1, <2>2, <2>5 DEF AcknowledgeDuplicate, DeliveriesTypeOK, NormalizedEvent
    <3>2. QED
      BY <1>1, <2>5, <3>1, ArrivalType DEF AcknowledgeDuplicate, StoreTypeOK, storeVars,
         reconciled, eventRows, jobQueue
  <2>6. CASE RefuseReplay(d, n)
    <3>1. acked' \in SUBSET EventIds
      BY <1>1, <2>6 DEF RefuseReplay, DeliveriesTypeOK
    <3>2. QED
      BY <1>1, <2>6, <3>1, ArrivalType DEF RefuseReplay, StoreTypeOK, storeVars,
         reconciled, eventRows, jobQueue
  <2>7. QED
    BY <2>1, <2>3, <2>4, <2>5, <2>6
<1>3. CASE DeliveryStep(d)
  BY <1>3, DeliveryStepType
<1>4. CASE Fault(d)
  <2>1. StoreTypeOK'
    BY <1>1, <1>4 DEF Fault, StoreTypeOK, storeVars, reconciled, eventRows, jobQueue
  <2>2. DeliveriesTypeOK'
    BY <1>1, <1>4, GoToType DEF Fault, Steps
  <2>3. QED
    BY <2>1, <2>2
<1>5. CASE Crash(d)
  <2>1. StoreTypeOK'
    BY <1>1, <1>5 DEF Crash, StoreTypeOK, storeVars, reconciled, eventRows, jobQueue
  <2>2. DeliveriesTypeOK'
    BY <1>1, <1>5, ReleaseType DEF Crash, DeliveriesTypeOK
  <2>3. QED
    BY <2>1, <2>2
<1>6. QED
  BY <1>2, <1>3, <1>4, <1>5 DEF DeliveryNext

\* The updates of the worker and of staff are well-formed too.
LEMMA ExpiryUpdateType ==
  ASSUME TypeOK, expiry # Undefined
  PROVE  ExpiryUpdate \in StateUpdate
BY DEF TypeOK, StoreTypeOK, JobsTypeOK, ExpiryRead, ExpiryUpdate, StateUpdate, Sources,
   Statuses

LEMMA SuspendUpdateType ==
  ASSUME TypeOK, form # Undefined
  PROVE  SuspendUpdate \in StateUpdate
BY DEF TypeOK, StoreTypeOK, JobsTypeOK, SuspendUpdate, StateUpdate, Sources, Statuses

\* Steps of a reconciliation.
LEMMA ReconcilerType ==
  ASSUME TypeOK, NEW r \in Reconcilers, ReconcilerNext(r)
  PROVE  StoreTypeOK' /\ ReconcilersTypeOK'
<1> USE DEF TypeOK, ReconcilersTypeOK, reconciled, eventRows, jobQueue
<1>1. ~Idle(r) => reconciling[r] \in Reconciliation
  BY DEF Idle
<1>2. ASSUME Returns(r)
      PROVE  ReconcilersTypeOK'
  BY <1>2 DEF Returns
<1>3. ASSUME JobFails(r) \/ JobDone(r), ~Idle(r)
      PROVE  expiryJobs' \in SUBSET Nat /\ expiryDone' \in SUBSET Nat
  <2>1. reconciling[r].due \in Nat \cup { Undefined }
    BY <1>1, <1>3 DEF Reconciliation
  <2>2. expiryJobs \in SUBSET Nat /\ expiryDone \in SUBSET Nat
    BY DEF StoreTypeOK
  <2>3. CASE UNCHANGED jobQueue
    BY <2>2, <2>3
  <2>4. CASE reconciling[r].due # Undefined /\ Finish(reconciling[r].due)
    BY <2>1, <2>2, <2>4 DEF Finish
  <2>5. QED
    BY <1>3, <2>3, <2>4 DEF JobFails, JobDone
<1>4. ASSUME NEW due \in expiryJobs \cup { Undefined }, ReconcileStart(r, due)
      PROVE  StoreTypeOK' /\ ReconcilersTypeOK'
  <2> DEFINE new == [ status |-> sub.status, version |-> sub.version,
                      stateVersion |-> sub.stateVersion, due |-> due,
                      update |-> Undefined ]
  <2>1. new \in Reconciliation
    BY DEF StoreTypeOK, SubscriptionRow, Reconciliation
  <2>2. ReconcilersTypeOK'
    BY <1>4, <2>1 DEF ReconcileStart
  <2>3. QED
    BY <1>4, <2>2 DEF ReconcileStart, StoreTypeOK, storeVars
<1>5. ASSUME NEW s \in Snapshots, Retrieve(r, s)
      PROVE  StoreTypeOK' /\ ReconcilersTypeOK'
  <2> DEFINE old == reconciling[r]
             new == [ status |-> old.status, version |-> old.version,
                      stateVersion |-> old.stateVersion, due |-> old.due,
                      update |-> SnapshotUpdate(s, old.version) ]
  <2>1. old \in Reconciliation
    BY <1>1, <1>5 DEF Retrieve, Awaits
  <2>2. SnapshotUpdate(s, old.version) \in StateUpdate
    BY <2>1, SnapshotUpdateType DEF Reconciliation, StoreTypeOK
  <2>3. new \in Reconciliation
    BY <2>1, <2>2 DEF Reconciliation
  <2>4. ReconcilersTypeOK'
    BY <1>5, <2>3 DEF Retrieve
  <2>5. QED
    BY <1>5, <2>4 DEF Retrieve, StoreTypeOK, storeVars
<1>6. ASSUME NEW s \in Snapshots, NothingChanged(r, s) \/ ReconcileAmbiguous(r, s)
      PROVE  StoreTypeOK' /\ ReconcilersTypeOK'
  BY <1>2, <1>3, <1>6 DEF NothingChanged, ReconcileAmbiguous, Awaits, StoreTypeOK
<1>7. CASE ReconcileApply(r)
  <2>1. reconciling[r].update \in StateUpdate
    BY <1>1, <1>7 DEF ReconcileApply, Decided, Reconciliation
  <2>2. expiryJobs' \in SUBSET Nat /\ expiryDone' \in SUBSET Nat
    BY <1>3, <1>7 DEF ReconcileApply, Decided, JobFails
  <2>3. QED
    BY <1>2, <1>7, <2>1, <2>2, ApplyStateType DEF ReconcileApply, StoreTypeOK
<1>8. CASE ReconcileRefused(r) \/ ReconcileFails(r)
  BY <1>2, <1>3, <1>8 DEF ReconcileRefused, ReconcileFails, Decided, StoreTypeOK
<1>9. QED
  BY <1>4, <1>5, <1>6, <1>7, <1>8 DEF ReconcilerNext

\* Steps of the checkout request, the poll, the worker, staff and time.
LEMMA JobsType ==
  ASSUME TypeOK, JobsNext
  PROVE  StoreTypeOK' /\ JobsTypeOK'
<1> USE DEF TypeOK, reconciled, eventRows, jobQueue, webVars, expiryVars, staffVars
<1>1. CASE StoreProviderSession
  <2>1. checkout' \in CheckoutRow
    BY <1>1 DEF StoreProviderSession, StoreTypeOK, CheckoutRow, CheckoutStates
  <2>2. QED
    BY <1>1, <2>1 DEF StoreProviderSession, StoreTypeOK, JobsTypeOK
<1>2. CASE ProviderFailed
  BY <1>2, CheckoutMovedToType, SubscriptionMovedToType
     DEF ProviderFailed, StoreTypeOK, JobsTypeOK, CheckoutStates, Statuses
<1>3. CASE CreateDies
  BY <1>3 DEF CreateDies, StoreTypeOK, JobsTypeOK, storeVars
<1>4. CASE PollRead
  BY <1>4 DEF PollRead, StoreTypeOK, JobsTypeOK, storeVars
<1>5. CASE PollWrite
  BY <1>5, CheckoutMovedToType DEF PollWrite, StoreTypeOK, JobsTypeOK, CheckoutStates
<1>6. CASE OpenForm
  BY <1>6 DEF OpenForm, StoreTypeOK, JobsTypeOK, storeVars, SubscriptionRow
<1>7. CASE Suspend
  BY <1>7, ApplyStateType, SuspendUpdateType DEF Suspend, StoreTypeOK, JobsTypeOK
<1>8. CASE CloseForm
  BY <1>8 DEF CloseForm, StoreTypeOK, JobsTypeOK, storeVars
<1>9. CASE WorkerNext
  <2>1. CASE CleanupList
    BY <2>1 DEF CleanupList, StoreTypeOK, JobsTypeOK, storeVars, CleanupRead,
       CheckoutRow, SubscriptionRow
  <2>2. CASE CleanupExpires
    BY <2>2, CheckoutMovedToType, SubscriptionMovedToType
       DEF CleanupExpires, StoreTypeOK, JobsTypeOK, CheckoutStates, Statuses
  <2>3. CASE CleanupGivesUp
    BY <2>3 DEF CleanupGivesUp, StoreTypeOK, JobsTypeOK, storeVars
  <2>4. ASSUME NEW expectedAt \in expiryJobs, ExpiryStart(expectedAt)
        PROVE  StoreTypeOK' /\ JobsTypeOK'
    <3>1. expiry' \in ExpiryRead
      BY <2>4 DEF ExpiryStart, StoreTypeOK, SubscriptionRow, ExpiryRead
    <3>2. QED
      BY <2>4, <3>1 DEF ExpiryStart, StoreTypeOK, JobsTypeOK, storeVars
  <2>5. ASSUME NEW expectedAt \in expiryJobs, ExpiryObsolete(expectedAt)
        PROVE  StoreTypeOK' /\ JobsTypeOK'
    BY <2>5 DEF ExpiryObsolete, Finish, StoreTypeOK, JobsTypeOK, jobVars
  <2>6. CASE ExpiryApply
    BY <2>6, ApplyStateType, ExpiryUpdateType
       DEF ExpiryApply, Finish, StoreTypeOK, JobsTypeOK, ExpiryRead
  <2>7. CASE ExpiryFails
    BY <2>7 DEF ExpiryFails, Finish, StoreTypeOK, JobsTypeOK, ExpiryRead
  <2>8. QED
    BY <1>9, <2>1, <2>2, <2>3, <2>4, <2>5, <2>6, <2>7 DEF WorkerNext
<1>10. CASE Tick
  BY <1>10 DEF Tick, StoreTypeOK, JobsTypeOK, jobVars
<1>11. QED
  BY <1>1, <1>2, <1>3, <1>4, <1>5, <1>6, <1>7, <1>8, <1>9, <1>10 DEF JobsNext

LEMMA TypeInit == Init => TypeOK
<1> SUFFICES ASSUME Init PROVE TypeOK
  OBVIOUS
<1>1. NewSubscription \in SubscriptionRow
  BY DEF NewSubscription, SubscriptionRow, Statuses, PaymentStatuses, Never, Unretrieved
<1>2. StoreTypeOK
  BY <1>1 DEF Init, StoreInit, StoreTypeOK, CheckoutRow, CheckoutStates, EntitlementRow,
     LedgerStates, Never
<1>3. DeliveriesTypeOK
  BY DEF Init, DeliveriesInit, DeliveriesTypeOK, Steps
<1>4. ReconcilersTypeOK
  BY DEF Init, ReconcilersInit, ReconcilersTypeOK
<1>5. JobsTypeOK
  BY DEF Init, JobsInit, JobsTypeOK
<1>6. QED
  BY <1>2, <1>3, <1>4, <1>5 DEF TypeOK

LEMMA TypeStep == TypeOK /\ [Next]_vars => TypeOK'
<1>1. SUFFICES ASSUME TypeOK, [Next]_vars
               PROVE  TypeOK'
  OBVIOUS
<1>2. ASSUME NEW d \in Deliveries, DeliveryNext(d), UNCHANGED << reconcilerVars, jobVars >>
      PROVE  TypeOK'
  BY <1>1, <1>2, DeliveryType
     DEF TypeOK, JobsTypeOK, jobVars, webVars, expiryVars, staffVars,
         ReconcilersTypeOK, reconcilerVars
<1>3. ASSUME NEW r \in Reconcilers, ReconcilerNext(r), UNCHANGED << deliveryVars, jobVars >>
      PROVE  TypeOK'
  BY <1>1, <1>3, ReconcilerType
     DEF TypeOK, JobsTypeOK, jobVars, webVars, expiryVars, staffVars,
         DeliveriesTypeOK, deliveryVars
<1>4. CASE JobsNext /\ UNCHANGED << deliveryVars, reconcilerVars >>
  BY <1>1, <1>4, JobsType
     DEF TypeOK, DeliveriesTypeOK, deliveryVars, ReconcilersTypeOK, reconcilerVars
<1>5. CASE UNCHANGED vars
  BY <1>1, <1>5 DEF vars, TypeOK, StoreTypeOK, DeliveriesTypeOK, ReconcilersTypeOK, JobsTypeOK,
     storeVars, deliveryVars, reconcilerVars, jobVars, webVars, expiryVars, staffVars,
     reconciled, eventRows, jobQueue
<1>6. QED
  BY <1>1, <1>2, <1>3, <1>4, <1>5 DEF Next

\* Type correctness: in every reachable state of every instance the rows hold
\* values of their columns and the handlers' local state is well-formed.
THEOREM TypeCorrect == Spec => []TypeOK
BY TypeInit, TypeStep, PTL DEF Spec

-------------------------------------------------------------------------------
(***************************************************************************)
(* Who writes the subscription.  The invariants below are about `sub',     *)
(* `entitlement' and `audit'; this lemma reduces the twenty-odd actions of *)
(* Next to the six kinds of steps that touch them.                         *)
(***************************************************************************)

\* The columns the invariants look at, and what follows from them, stay.
Quiet ==
  /\ sub'.status = sub.status
  /\ sub'.version = sub.version
  /\ sub'.payment = sub.payment
  /\ sub'.periodEnd = sub.periodEnd
  /\ sub'.graceEnd = sub.graceEnd
  /\ sub'.providerAt = sub.providerAt
  /\ sub'.stateVersion = sub.stateVersion
  /\ UNCHANGED << entitlement, audit >>

CleanupExpiresSubscription == CleanupExpires /\ CleanupOwnsSubscription

LEMMA Writers ==
  ASSUME TypeOK, [Next]_vars
  PROVE  \/ Quiet
         \/ \E d \in Deliveries : Apply(d)
         \/ \E r \in Reconcilers : ReconcileApply(r)
         \/ ExpiryApply
         \/ Suspend
         \/ ProviderFailed
         \/ CleanupExpiresSubscription
<1> USE DEF Quiet, reconciled
<1>1. ASSUME NEW d \in Deliveries, DeliveryNext(d), ~Apply(d)
      PROVE  Quiet
  <2>1. CASE Arrival(d)
    BY <2>1 DEF Arrival, RecordEvent, Redeliver, AcknowledgeDuplicate, RefuseReplay, storeVars
  <2>2. CASE BindCheckout(d)
    BY <2>2 DEF BindCheckout, TypeOK, StoreTypeOK, SubscriptionRow
  <2>3. CASE Fault(d) \/ Crash(d)
    BY <2>3 DEF Fault, Crash, storeVars
  <2>4. CASE DeliveryStep(d) /\ ~BindCheckout(d)
    BY <1>1, <2>4 DEF DeliveryStep, MarkProcessing, LoadBound, LoadByProviderId,
       RecordPartialRefund, Reject, UpdateCheckout, Enqueue, RecordFailure, storeVars
  <2>5. QED
    BY <1>1, <2>1, <2>2, <2>3, <2>4 DEF DeliveryNext
<1>2. ASSUME JobsNext, ~ExpiryApply, ~Suspend, ~ProviderFailed, ~CleanupExpiresSubscription
      PROVE  Quiet
  <2>1. CASE WorkerNext
    BY <1>2, <2>1 DEF WorkerNext, CleanupList, CleanupExpires, CleanupExpiresSubscription,
       CleanupGivesUp, ExpiryStart, ExpiryObsolete, ExpiryFails, storeVars
  <2>2. CASE ~WorkerNext
    BY <1>2, <2>2 DEF JobsNext, StoreProviderSession, CreateDies, PollRead, PollWrite,
       OpenForm, CloseForm, Tick, storeVars
  <2>3. QED
    BY <2>1, <2>2
<1>3. ASSUME NEW r \in Reconcilers, ReconcilerNext(r), ~ReconcileApply(r)
      PROVE  Quiet
  BY <1>3 DEF ReconcilerNext, ReconcileStart, Retrieve, NothingChanged, ReconcileAmbiguous,
     ReconcileRefused, ReconcileFails, storeVars
<1>4. CASE UNCHANGED vars
  BY <1>4 DEF vars, storeVars
<1>5. QED
  BY <1>1, <1>2, <1>3, <1>4 DEF Next

\* What applyState does to the row, column by column.
LEMMA ApplyStateEffect ==
  ASSUME TypeOK, NEW u \in StateUpdate, ApplyState(u)
  PROVE  /\ u.expected = sub.version
         /\ CanTransition(sub.status, u.status)
         /\ sub'.status = u.status
         /\ sub'.version = sub.version + 1
         /\ sub'.payment = Given(u.payment, sub.payment)
         /\ sub'.periodEnd = Given(u.periodEnd, sub.periodEnd)
         /\ sub'.graceEnd = Given(u.graceEnd, sub.graceEnd)
         /\ sub'.providerAt >= sub.providerAt
         /\ sub'.stateVersion = Given(u.stateVersion, sub.stateVersion)
         /\ sub'.bound = sub.bound
         /\ entitlement' = Reissued(sub', u.now)
         /\ audit' = audit \cup { AuditOf(u, sub') }
<1>1. sub' = UpdatedRow(u) /\ CanApply(u)
  BY DEF ApplyState
<1>2. sub'.providerAt >= sub.providerAt
  BY <1>1 DEF UpdatedRow, CanApply, NotOlder, Given, StateUpdate, TypeOK, StoreTypeOK,
     SubscriptionRow, Never
<1>3. QED
  BY <1>1, <1>2 DEF ApplyState, UpdatedRow, NextVersion, CanApply, VersionMatches

\* Every transaction of applyState comes with a well-formed update.
LEMMA UpdatesTyped ==
  ASSUME TypeOK
  PROVE  /\ \A d \in Deliveries :
              Apply(d) => EventUpdate(handling[d], seen[d]) \in StateUpdate
         /\ \A r \in Reconcilers :
              ReconcileApply(r) => reconciling[r].update \in StateUpdate
         /\ ExpiryApply => ExpiryUpdate \in StateUpdate
         /\ Suspend => SuspendUpdate \in StateUpdate
<1>1. ASSUME NEW r \in Reconcilers, ReconcileApply(r)
      PROVE  reconciling[r].update \in StateUpdate
  <2>1. reconciling[r] \in Reconciliation
    BY <1>1 DEF TypeOK, ReconcilersTypeOK, ReconcileApply, Decided, Idle
  <2>2. QED
    BY <1>1, <2>1 DEF ReconcileApply, Decided, Reconciliation
<1>2. QED
  BY <1>1, EventUpdateType, ExpiryUpdateType, SuspendUpdateType
     DEF TypeOK, DeliveriesTypeOK, Apply, ExpiryApply, Suspend

\* The steps that write the subscription, when only what an update may be
\* matters and not who makes it.
LEMMA SubscriptionWrites ==
  ASSUME TypeOK, [Next]_vars
  PROVE  \/ Quiet
         \/ \E u \in StateUpdate : ApplyState(u)
         \/ ProviderFailed
         \/ CleanupExpiresSubscription
<1>1. ASSUME NEW d \in Deliveries, Apply(d)
      PROVE  \E u \in StateUpdate : ApplyState(u)
  BY <1>1, UpdatesTyped DEF Apply
<1>2. ASSUME NEW r \in Reconcilers, ReconcileApply(r)
      PROVE  \E u \in StateUpdate : ApplyState(u)
  BY <1>2, UpdatesTyped DEF ReconcileApply
<1>3. ASSUME ExpiryApply \/ Suspend
      PROVE  \E u \in StateUpdate : ApplyState(u)
  BY <1>3, UpdatesTyped DEF ExpiryApply, Suspend
<1>4. QED
  BY <1>1, <1>2, <1>3, Writers

\* What the two writers outside applyState do.
LEMMA OtherWrites ==
  ASSUME TypeOK, ProviderFailed \/ CleanupExpiresSubscription
  PROVE  /\ sub'.version = sub.version + 1
         /\ sub'.payment = sub.payment
         /\ sub'.providerAt = sub.providerAt
         /\ sub'.bound = sub.bound
         /\ UNCHANGED << entitlement, audit >>
         /\ ProviderFailed => creating /\ sub'.status = "CANCELLED"
         /\ CleanupExpiresSubscription =>
              cleanup # Undefined /\ sub.status \in Unpaid /\ sub'.status = "EXPIRED"
BY SubscriptionMovedToType
   DEF ProviderFailed, CleanupExpiresSubscription, CleanupExpires, CleanupOwnsSubscription,
       reconciled, TypeOK, StoreTypeOK, Statuses

-------------------------------------------------------------------------------
\* Older provider state never overwrites newer provider state.  The guard of
\* applyState is the only writer of the column; the binding transaction, the
\* failed checkout and the cleanup leave it alone.
THEOREM ProviderTimeGrows == Spec => NoStaleOverwrite
<1>1. TypeOK /\ [Next]_vars => [sub'.providerAt >= sub.providerAt]_vars
  <2> SUFFICES ASSUME TypeOK, [Next]_vars
               PROVE  sub'.providerAt >= sub.providerAt
    OBVIOUS
  <2>1. sub.providerAt \in Nat
    BY DEF TypeOK, StoreTypeOK, SubscriptionRow
  <2>2. QED
    BY <2>1, SubscriptionWrites, ApplyStateEffect, OtherWrites DEF Quiet
<1>2. QED
  BY <1>1, TypeCorrect, PTL DEF Spec, NoStaleOverwrite

-------------------------------------------------------------------------------
(***************************************************************************)
(* The audit trail.  AuditIsHistory is not inductive: that the next row    *)
(* starts where the last one ended needs that a row written at the current *)
(* version ended in the current status.                                    *)
(***************************************************************************)

AuditEndsAtRow == \A a \in audit : a.version = sub.version => a.to = sub.status

AuditInv == AuditIsHistory /\ AuditEndsAtRow

LEMMA AuditInit == Init => AuditInv
BY DEF Init, StoreInit, AuditInv, AuditIsHistory, AuditEndsAtRow

LEMMA AuditStep == TypeOK /\ AuditInv /\ [Next]_vars => AuditInv'
<1> SUFFICES ASSUME TypeOK, AuditInv, [Next]_vars
             PROVE  AuditInv'
  OBVIOUS
<1>1. sub.version \in Nat /\ \A a \in audit : a.version \in Nat
  BY DEF TypeOK, StoreTypeOK, SubscriptionRow, AuditRow
<1>2. CASE Quiet
  BY <1>2 DEF Quiet, AuditInv, AuditIsHistory, AuditEndsAtRow
<1>3. ASSUME NEW u \in StateUpdate, ApplyState(u)
      PROVE  AuditInv'
  <2> DEFINE new == AuditOf(u, sub')
  <2>1. audit' = audit \cup { new } /\ sub'.version = sub.version + 1
    BY <1>3, ApplyStateEffect
  <2>2. new.version = sub.version + 1 /\ new.from = sub.status /\ new.to = sub'.status
    BY <2>1 DEF AuditOf
  <2>3. \A a \in audit : a.version <= sub.version
    BY DEF AuditInv, AuditIsHistory
  <2>4. AuditEndsAtRow'
    BY <1>1, <2>1, <2>2, <2>3 DEF AuditEndsAtRow
  <2>5. AuditIsHistory'
    BY <1>1, <2>1, <2>2, <2>3 DEF AuditInv, AuditIsHistory, AuditEndsAtRow
  <2>6. QED
    BY <2>4, <2>5 DEF AuditInv
<1>4. CASE ProviderFailed \/ CleanupExpiresSubscription
  BY <1>1, <1>4, OtherWrites DEF AuditInv, AuditIsHistory, AuditEndsAtRow
<1>5. QED
  BY <1>2, <1>3, <1>4, SubscriptionWrites

\* The audit trail of a subscription is a gap-aware history: at most one row
\* per version, and consecutive rows fit together.
THEOREM AuditTrailIsHistory == Spec => []AuditIsHistory
<1>1. AuditInv => AuditIsHistory
  BY DEF AuditInv
<1>2. QED
  BY <1>1, AuditInit, AuditStep, TypeCorrect, PTL DEF Spec

-------------------------------------------------------------------------------
(***************************************************************************)
(* Before the customer is sent to the provider.  ProviderFailed writes     *)
(* CANCELLED over whatever it finds; it finds PENDING because nothing else *)
(* can have happened yet.                                                  *)
(***************************************************************************)

CreatingIsFresh ==
  creating =>
    /\ sub.status = "PENDING"
    /\ ~checkout.session
    /\ clock < CheckoutExpiresAt
    /\ cleanup = Undefined

NothingBeforeSession ==
  ~checkout.session =>
    /\ \A d \in Deliveries : pc[d] = "idle"
    /\ \A r \in Reconcilers : Idle(r)
    /\ ~sub.bound
    /\ sub.status \notin Suspendable
    /\ form = Undefined
    /\ expiryJobs = {}
    /\ expiry = Undefined

SessionInv == CreatingIsFresh /\ NothingBeforeSession

LEMMA SessionInit == Init => SessionInv
BY StoreAssumption
   DEF Init, StoreInit, DeliveriesInit, ReconcilersInit, JobsInit, NewSubscription,
       Suspendable, Idle, SessionInv, CreatingIsFresh, NothingBeforeSession

\* Once there is a session it stays, and nobody is creating the checkout.
LEMMA SessionStays ==
  ASSUME TypeOK, SessionInv, [Next]_vars, checkout.session
  PROVE  checkout'.session /\ ~creating'
<1>1. ~creating /\ checkout \in CheckoutRow
  BY DEF SessionInv, CreatingIsFresh, TypeOK, StoreTypeOK
<1>2. checkout'.session
  <2>1. ASSUME NEW d \in Deliveries, DeliveryNext(d)
        PROVE  checkout'.session
    <3>1. CASE UpdateCheckout(d)
      BY <1>1, <3>1, CheckoutMovedToType DEF UpdateCheckout, CheckoutAfter, CheckoutStates
    <3>2. CASE ~UpdateCheckout(d)
      BY <2>1, <3>2 DEF DeliveryNext, Arrival, RecordEvent, Redeliver, AcknowledgeDuplicate,
         RefuseReplay, DeliveryStep, MarkProcessing, BindCheckout, LoadBound,
         LoadByProviderId, RecordPartialRefund, Apply, Reject, Enqueue, RecordFailure,
         Fault, Crash, storeVars
    <3>3. QED
      BY <3>1, <3>2
  <2>2. CASE JobsNext
    <3>1. CASE PollWrite \/ CleanupExpires
      BY <1>1, <3>1, CheckoutMovedToType DEF PollWrite, CleanupExpires, CheckoutStates
    <3>2. CASE ~PollWrite /\ ~CleanupExpires
      BY <1>1, <2>2, <3>2 DEF JobsNext, StoreProviderSession, ProviderFailed, CreateDies,
         PollRead, OpenForm, Suspend, CloseForm, WorkerNext, CleanupList, CleanupGivesUp,
         ExpiryStart, ExpiryObsolete, ExpiryApply, ExpiryFails, Tick, storeVars
    <3>3. QED
      BY <3>1, <3>2
  <2>3. ASSUME NEW r \in Reconcilers, ReconcilerNext(r)
        PROVE  checkout'.session
    BY <1>1, <2>3 DEF ReconcilerNext, ReconcileStart, Retrieve, NothingChanged,
       ReconcileAmbiguous, ReconcileApply, ReconcileRefused, ReconcileFails, storeVars
  <2>4. CASE UNCHANGED vars
    BY <2>4 DEF vars, storeVars
  <2>5. QED
    BY <2>1, <2>2, <2>3, <2>4 DEF Next
<1>3. ~creating'
  BY <1>1 DEF Next, vars, jobVars, webVars, JobsNext, StoreProviderSession, ProviderFailed,
     CreateDies, PollRead, PollWrite, OpenForm, Suspend, CloseForm, WorkerNext, CleanupList,
     CleanupExpires, CleanupGivesUp, ExpiryStart, ExpiryObsolete, ExpiryApply, ExpiryFails,
     Tick
<1>4. QED
  BY <1>2, <1>3

LEMMA SessionStep == TypeOK /\ SessionInv /\ [Next]_vars => SessionInv'
<1> SUFFICES ASSUME TypeOK, SessionInv, [Next]_vars
             PROVE  SessionInv'
  OBVIOUS
<1>1. CASE checkout.session
  BY <1>1, SessionStays DEF SessionInv, CreatingIsFresh, NothingBeforeSession
<1>2. CASE ~checkout.session
  <2> DEFINE others == << deliveryVars, reconcilerVars >>
  <2> USE <1>2 DEF SessionInv, CreatingIsFresh, NothingBeforeSession
  <2>1. ASSUME NEW d \in Deliveries
        PROVE  ~DeliveryNext(d)
    BY DEF DeliveryNext, Arrival, RecordEvent, Redeliver, AcknowledgeDuplicate, RefuseReplay,
       Arrives, Deliverable, DeliveryStep, MarkProcessing, BindCheckout, LoadBound,
       LoadByProviderId, RecordPartialRefund, Apply, Reject, UpdateCheckout, Enqueue,
       RecordFailure, Fault, Crash
  <2>2. CASE StoreProviderSession
    BY <2>2 DEF StoreProviderSession
  <2>3. CASE ProviderFailed /\ UNCHANGED others
    <3>1. sub'.status = "CANCELLED" /\ ~sub'.bound /\ ~checkout'.session
      BY <2>3, OtherWrites, CheckoutMovedToType
         DEF ProviderFailed, TypeOK, StoreTypeOK, CheckoutStates
    <3>2. QED
      BY <2>3, <3>1 DEF ProviderFailed, Suspendable, deliveryVars, reconcilerVars, Idle, jobQueue, staffVars,
         expiryVars
  <2>4. CASE CleanupExpires /\ UNCHANGED others
    <3>1. sub' = sub \/ (sub'.status = "EXPIRED" /\ ~sub'.bound)
      BY <2>4, OtherWrites DEF CleanupExpires, CleanupExpiresSubscription
    <3>2. ~checkout'.session /\ ~creating
      BY <2>4, CheckoutMovedToType
         DEF CleanupExpires, TypeOK, StoreTypeOK, CheckoutStates
    <3>3. QED
      BY <2>4, <3>1, <3>2 DEF CleanupExpires, Suspendable, deliveryVars, reconcilerVars, Idle, jobQueue, staffVars,
         expiryVars, webVars
  <2>5. CASE PollWrite /\ UNCHANGED others
    <3>1. ~checkout'.session
      BY <2>5, CheckoutMovedToType DEF PollWrite, TypeOK, StoreTypeOK, CheckoutStates
    <3>2. QED
      BY <2>5, <3>1 DEF PollWrite, deliveryVars, reconcilerVars, Idle, jobQueue, staffVars, expiryVars
  <2>6. CASE (CreateDies \/ Tick \/ CleanupList \/ CleanupGivesUp) /\ UNCHANGED others
    <3> USE DEF storeVars, deliveryVars, reconcilerVars, Idle, jobVars, jobQueue, staffVars, expiryVars, webVars
    <3>1. CASE CreateDies
      BY <2>6, <3>1 DEF CreateDies
    <3>2. CASE Tick
      BY <2>6, <3>2 DEF Tick
    <3>3. CASE CleanupList
      <4>1. ~creating
        BY <3>3, StoreAssumption DEF CleanupList, CheckoutExpired, TypeOK, StoreTypeOK
      <4>2. QED
        BY <2>6, <3>3, <4>1 DEF CleanupList
    <3>4. CASE CleanupGivesUp
      BY <2>6, <3>4 DEF CleanupGivesUp
    <3>5. QED
      BY <2>6, <3>1, <3>2, <3>3, <3>4
  <2>7. CASE UNCHANGED vars
    BY <2>7 DEF vars, storeVars, deliveryVars, reconcilerVars, Idle, jobVars, jobQueue, staffVars, expiryVars,
       webVars
  <2>8. /\ ~PollRead /\ ~OpenForm /\ ~Suspend /\ ~CloseForm /\ ~ExpiryApply /\ ~ExpiryFails
        /\ \A expectedAt \in expiryJobs :
             ~ExpiryStart(expectedAt) /\ ~ExpiryObsolete(expectedAt)
    BY DEF PollRead, OpenForm, Suspend, CloseForm, ExpiryApply, ExpiryFails
  <2>9. ASSUME NEW r \in Reconcilers
        PROVE  ~ReconcilerNext(r)
    BY DEF ReconcilerNext, ReconcileStart, Retrieve, NothingChanged, ReconcileAmbiguous,
       ReconcileApply, ReconcileRefused, ReconcileFails, Awaits, Decided
  <2>10. QED
    BY <2>1, <2>2, <2>3, <2>4, <2>5, <2>6, <2>7, <2>8, <2>9 DEF Next, JobsNext, WorkerNext
<1>3. QED
  BY <1>1, <1>2

\* The provider's refusal finds the subscription as it was created.
LEMMA RefusedWhilePending ==
  ASSUME TypeOK, SessionInv, ProviderFailed
  PROVE  sub.status = "PENDING"
BY DEF SessionInv, CreatingIsFresh, ProviderFailed

-------------------------------------------------------------------------------
(***************************************************************************)
(* Entitlements.                                                           *)
(***************************************************************************)

\* The transaction leaves active entitlements only on a row that earns them.
LEMMA ReissuedBacked ==
  ASSUME TypeOK, NEW u \in StateUpdate, ApplyState(u)
  PROVE  EntitlementBacked'
<1>1. entitlement' = Reissued(sub', u.now)
  BY ApplyStateEffect
<1>2. CASE GrantsPremium(sub', u.now)
  BY <1>1, <1>2
     DEF Reissued, GrantsPremium, PaidPeriodRuns, GraceRuns, GrantEnd, EntitlementBacked
<1>3. CASE ~GrantsPremium(sub', u.now)
  BY <1>1, <1>3 DEF Reissued, EntitlementBacked
<1>4. QED
  BY <1>2, <1>3

LEMMA EntitlementStep ==
  TypeOK /\ SessionInv /\ EntitlementBacked /\ [Next]_vars => EntitlementBacked'
<1> SUFFICES ASSUME TypeOK, SessionInv, EntitlementBacked, [Next]_vars
             PROVE  EntitlementBacked'
  OBVIOUS
<1>1. CASE Quiet
  BY <1>1 DEF Quiet, EntitlementBacked
<1>2. CASE ProviderFailed \/ CleanupExpiresSubscription
  BY <1>2, OtherWrites, RefusedWhilePending DEF EntitlementBacked, Unpaid
<1>3. QED
  BY <1>1, <1>2, ReissuedBacked, SubscriptionWrites

\* Premium is never left on a row that does not earn it, by any writer.
THEOREM EntitlementsAreBacked == Spec => []EntitlementBacked
<1>1. Init => EntitlementBacked
  BY DEF Init, StoreInit, EntitlementBacked
<1>2. QED
  BY <1>1, EntitlementStep, SessionInit, SessionStep, TypeCorrect, PTL DEF Spec

-------------------------------------------------------------------------------
(***************************************************************************)
(* Decisions.  A handler that is about to apply an event decided on a row  *)
(* it read earlier.  The row's status has not changed since, unless its    *)
(* version has.                                                            *)
(***************************************************************************)

SnapshotsAreOld ==
  \A d \in Deliveries :
    pc[d] = "apply" =>
      /\ seen[d].version <= sub.version
      /\ seen[d].version = sub.version => seen[d].status = sub.status

\* Only a load makes a delivery ready to apply, and what it holds is the row.
LEMMA SnapshotsKept ==
  ASSUME TypeOK, [Next]_vars, NEW d \in Deliveries, pc'[d] = "apply"
  PROVE  \/ pc[d] = "apply" /\ seen'[d] = seen[d]
         \/ seen'[d] = LoadedRow /\ UNCHANGED sub
<1> USE DEF TypeOK, DeliveriesTypeOK
<1>1. ASSUME NEW e \in Deliveries, DeliveryNext(e)
      PROVE  \/ pc[d] = "apply" /\ seen'[d] = seen[d]
             \/ seen'[d] = LoadedRow /\ UNCHANGED sub
  <2>1. CASE Arrival(e)
    BY <2>1 DEF Arrival, RecordEvent, Redeliver, AcknowledgeDuplicate, RefuseReplay,
       StartHandling
  <2>2. CASE LoadBound(e) \/ LoadByProviderId(e)
    BY <2>2 DEF LoadBound, LoadByProviderId, GoTo, storeVars
  <2>3. CASE RecordPartialRefund(e) \/ Enqueue(e) \/ RecordFailure(e) \/ Crash(e)
    BY <2>3 DEF RecordPartialRefund, Enqueue, RecordFailure, Crash, Succeed, Release
  <2>4. CASE MarkProcessing(e) \/ BindCheckout(e) \/ Apply(e) \/ Reject(e)
             \/ UpdateCheckout(e) \/ Fault(e)
    BY <2>4 DEF MarkProcessing, BindCheckout, Apply, Reject, UpdateCheckout, Fault, GoTo
  <2>5. QED
    BY <1>1, <2>1, <2>2, <2>3, <2>4 DEF DeliveryNext, DeliveryStep
<1>2. CASE UNCHANGED deliveryVars
  BY <1>2 DEF deliveryVars
<1>3. QED
  BY <1>1, <1>2 DEF Next, vars

LEMMA SnapshotsStep == TypeOK /\ SnapshotsAreOld /\ [Next]_vars => SnapshotsAreOld'
<1> SUFFICES ASSUME TypeOK, SnapshotsAreOld, [Next]_vars,
                    NEW d \in Deliveries, pc'[d] = "apply"
             PROVE  /\ seen'[d].version <= sub'.version
                    /\ seen'[d].version = sub'.version => seen'[d].status = sub'.status
  BY DEF SnapshotsAreOld
<1>1. sub.version \in Nat
  BY DEF TypeOK, StoreTypeOK, SubscriptionRow
<1>2. CASE seen'[d] = LoadedRow /\ UNCHANGED sub
  BY <1>1, <1>2 DEF LoadedRow
<1>3. CASE pc[d] = "apply" /\ seen'[d] = seen[d]
  <2>1. /\ seen[d].version \in Nat
        /\ seen[d].version <= sub.version
        /\ seen[d].version = sub.version => seen[d].status = sub.status
    BY <1>3 DEF SnapshotsAreOld, TypeOK, DeliveriesTypeOK, Snapshot
  <2>2. \/ sub'.version = sub.version /\ sub'.status = sub.status
        \/ sub'.version = sub.version + 1
    BY SubscriptionWrites, ApplyStateEffect, OtherWrites DEF Quiet
  <2>3. QED
    BY <1>1, <1>3, <2>1, <2>2
<1>4. QED
  BY <1>2, <1>3, SnapshotsKept

THEOREM SnapshotInvariant == Spec => []SnapshotsAreOld
<1>1. Init => SnapshotsAreOld
  BY DEF Init, DeliveriesInit, SnapshotsAreOld
<1>2. QED
  BY <1>1, SnapshotsStep, TypeCorrect, PTL DEF Spec

(***************************************************************************)
(* The same of a reconciliation, and what it is about to apply: the answer *)
(* of the provider, which differs from the row it read.                    *)
(***************************************************************************)

HoldsRow(held, row) ==
  /\ held.version <= row.version
  /\ held.version = row.version =>
       held.status = row.status /\ held.stateVersion = row.stateVersion

FromAnswer(held) ==
  LET u == held.update
  IN  /\ u.source = "reconciliation"
      /\ u.event = Undefined
      /\ u.expected = held.version
      /\ u.payment # Undefined
      /\ u.stateVersion # Undefined
      /\ u.status = "ACTIVE" => u.payment = "SUCCEEDED"
      /\ ~(held.stateVersion = u.stateVersion /\ held.status = u.status)

ReconcilersAreOld ==
  \A r \in Reconcilers :
    /\ ~Idle(r) => HoldsRow(reconciling[r], sub)
    /\ Decided(r) => FromAnswer(reconciling[r])

\* A reconciliation reports an active subscription only with a paid invoice.
LEMMA ActiveIsPaid ==
  ASSUME NEW s \in Snapshots, SnapshotStatus(s) = "ACTIVE"
  PROVE  s.payment = "SUCCEEDED"
<1>1. s.status \in ProviderStatuses
  BY SnapshotsAssumption DEF ProviderSnapshot
<1>2. QED
  BY <1>1 DEF SnapshotStatus, ActiveUnconfirmed

\* The update computed from an answer that is not what the row already says.
LEMMA RetrievedFromAnswer ==
  ASSUME TypeOK, NEW r \in Reconcilers, NEW s \in Snapshots, Retrieve(r, s)
  PROVE  /\ FromAnswer(reconciling'[r])
         /\ reconciling'[r].version = reconciling[r].version
         /\ reconciling'[r].status = reconciling[r].status
         /\ reconciling'[r].stateVersion = reconciling[r].stateVersion
<1> DEFINE old == reconciling[r]
           new == [ status |-> old.status, version |-> old.version,
                    stateVersion |-> old.stateVersion, due |-> old.due,
                    update |-> SnapshotUpdate(s, old.version) ]
<1>1. reconciling'[r] = new
  BY DEF Retrieve, TypeOK, ReconcilersTypeOK
<1>2. s.payment # Undefined /\ s.stateVersion # Undefined
  BY SnapshotsAssumption, StoreAssumption
     DEF ProviderSnapshot, InvoiceStatuses, PaymentStatuses
<1>3. ~AlreadyReconciled(old, s)
  BY DEF Retrieve
<1>4. FromAnswer(new)
  BY <1>2, <1>3, ActiveIsPaid DEF FromAnswer, SnapshotUpdate, AlreadyReconciled
<1>5. QED
  BY <1>1, <1>4

\* A step leaves what a reconciliation holds alone, begins it, or adds the
\* provider's answer.
LEMMA ReconcilersKept ==
  ASSUME TypeOK, [Next]_vars, NEW r \in Reconcilers, ~Idle(r)'
  PROVE  \/ ~Idle(r) /\ reconciling'[r] = reconciling[r]
         \/ /\ ~Decided(r)' /\ UNCHANGED sub
            /\ HoldsRow(reconciling'[r], sub)
         \/ /\ ~Idle(r) /\ UNCHANGED sub
            /\ \E s \in Snapshots : Retrieve(r, s)
<1> USE DEF TypeOK, ReconcilersTypeOK
<1>1. ASSUME NEW q \in Reconcilers, Returns(q)
      PROVE  ~Idle(r) /\ reconciling'[r] = reconciling[r]
  BY <1>1 DEF Returns, Idle
<1>2. ASSUME NEW q \in Reconcilers, NEW s \in Snapshots, Retrieve(q, s)
      PROVE  \/ ~Idle(r) /\ reconciling'[r] = reconciling[r]
             \/ ~Idle(r) /\ UNCHANGED sub /\ Retrieve(r, s)
  <2>1. CASE q = r
    BY <1>2, <2>1 DEF Retrieve, Awaits, storeVars
  <2>2. CASE q # r
    BY <1>2, <2>2 DEF Retrieve, Idle
  <2>3. QED
    BY <2>1, <2>2
<1>3. ASSUME NEW q \in Reconcilers, NEW due, ReconcileStart(q, due)
      PROVE  \/ ~Idle(r) /\ reconciling'[r] = reconciling[r]
             \/ ~Decided(r)' /\ UNCHANGED sub /\ HoldsRow(reconciling'[r], sub)
  <2>1. CASE q = r
    <3>1. sub.version \in Nat
      BY DEF StoreTypeOK, SubscriptionRow
    <3>2. QED
      BY <1>3, <2>1, <3>1 DEF ReconcileStart, HoldsRow, Decided, storeVars
  <2>2. CASE q # r
    BY <1>3, <2>2 DEF ReconcileStart, Idle
  <2>3. QED
    BY <2>1, <2>2
<1>4. CASE UNCHANGED reconciling
  BY <1>4 DEF Idle
<1>5. QED
  BY <1>1, <1>2, <1>3, <1>4
     DEF Next, ReconcilerNext, NothingChanged, ReconcileAmbiguous, ReconcileApply,
         ReconcileRefused, ReconcileFails, vars, reconcilerVars

LEMMA ReconcilersStep == TypeOK /\ ReconcilersAreOld /\ [Next]_vars => ReconcilersAreOld'
<1> SUFFICES ASSUME TypeOK, ReconcilersAreOld, [Next]_vars,
                    NEW r \in Reconcilers, ~Idle(r)'
             PROVE  /\ HoldsRow(reconciling'[r], sub')
                    /\ Decided(r)' => FromAnswer(reconciling'[r])
  BY DEF ReconcilersAreOld, Decided, FromAnswer
<1>1. sub.version \in Nat
  BY DEF TypeOK, StoreTypeOK, SubscriptionRow
<1>2. CASE ~Idle(r) /\ reconciling'[r] = reconciling[r]
  <2>1. reconciling[r].version \in Nat /\ HoldsRow(reconciling[r], sub)
    BY <1>2 DEF ReconcilersAreOld, TypeOK, ReconcilersTypeOK, Reconciliation, Idle
  <2>2. \/ /\ sub'.version = sub.version
           /\ sub'.status = sub.status
           /\ sub'.stateVersion = sub.stateVersion
        \/ sub'.version = sub.version + 1
    BY SubscriptionWrites, ApplyStateEffect, OtherWrites DEF Quiet
  <2>3. HoldsRow(reconciling'[r], sub')
    BY <1>1, <1>2, <2>1, <2>2 DEF HoldsRow
  <2>4. Decided(r)' => FromAnswer(reconciling'[r])
    BY <1>2 DEF ReconcilersAreOld, Decided, Idle
  <2>5. QED
    BY <2>3, <2>4
<1>3. CASE ~Decided(r)' /\ UNCHANGED sub /\ HoldsRow(reconciling'[r], sub)
  BY <1>3
<1>4. ASSUME ~Idle(r), UNCHANGED sub, NEW s \in Snapshots, Retrieve(r, s)
      PROVE  HoldsRow(reconciling'[r], sub') /\ FromAnswer(reconciling'[r])
  BY <1>4, RetrievedFromAnswer DEF ReconcilersAreOld, HoldsRow
<1>5. QED
  BY <1>2, <1>3, <1>4, ReconcilersKept

LEMMA ReconcilersInvariant == Spec => []ReconcilersAreOld
<1>1. Init => ReconcilersAreOld
  BY DEF Init, ReconcilersInit, ReconcilersAreOld, Idle, Decided
<1>2. QED
  BY <1>1, ReconcilersStep, TypeCorrect, PTL DEF Spec

\* A reconciliation is applied on the row it read.
LEMMA AppliedOnWhatWasRead ==
  ASSUME TypeOK, ReconcilersAreOld, NEW r \in Reconcilers, ReconcileApply(r)
  PROVE  /\ reconciling[r].status = sub.status
         /\ reconciling[r].stateVersion = sub.stateVersion
         /\ FromAnswer(reconciling[r])
<1>1. ~Idle(r) /\ FromAnswer(reconciling[r])
  BY DEF ReconcileApply, ReconcilersAreOld, Decided
<1>2. reconciling[r].version = sub.version
  BY <1>1 DEF ReconcileApply, ApplyState, CanApply, VersionMatches, FromAnswer
<1>3. QED
  BY <1>1, <1>2 DEF ReconcilersAreOld, HoldsRow

-------------------------------------------------------------------------------
\* An event or a provider's answer is applied on the status its handler
\* decided on, although the handler read the row several awaits earlier.
THEOREM DecisionsAreCurrent == Spec => DecidedOnCurrentStatus
<1>1. ASSUME TypeOK, SnapshotsAreOld, [Next]_vars,
             NEW d \in Deliveries, pc[d] = "apply", pc'[d] = "checkout"
      PROVE  seen[d].status = sub.status
  <2>1. Apply(d)
    <3> USE DEF TypeOK, DeliveriesTypeOK
    <3>1. ASSUME NEW e \in Deliveries, DeliveryNext(e), ~Apply(e)
          PROVE  FALSE
      BY <1>1, <3>1 DEF DeliveryNext, Arrival, Arrives, RecordEvent, Redeliver,
         AcknowledgeDuplicate, RefuseReplay, StartHandling, DeliveryStep, MarkProcessing,
         BindCheckout, LoadBound, LoadByProviderId, RecordPartialRefund, Reject,
         UpdateCheckout, Enqueue, RecordFailure, Fault, Crash, GoTo, Succeed, Release
    <3>2. ASSUME NEW e \in Deliveries, Apply(e)
          PROVE  e = d
      BY <1>1, <3>2 DEF Apply, GoTo
    <3>3. QED
      BY <1>1, <3>1, <3>2 DEF Next, vars, deliveryVars
  <2>2. seen[d].version = sub.version
    BY <2>1 DEF Apply, ApplyState, CanApply, VersionMatches, EventUpdate
  <2>3. QED
    BY <1>1, <2>2 DEF SnapshotsAreOld
<1>2. ASSUME TypeOK, ReconcilersAreOld, [Next]_vars,
             NEW r \in Reconcilers, Decided(r), Idle(r)', audit' # audit
      PROVE  reconciling[r].status = sub.status
  <2> USE DEF TypeOK, ReconcilersTypeOK
  <2>1. reconciling'[r] # reconciling[r]
    BY <1>2 DEF Decided, Idle
  <2>2. \E q \in Reconcilers : ReconcilerNext(q)
    BY <1>2, <2>1 DEF Next, vars, reconcilerVars
  <2>3. \E q \in Reconcilers : ReconcileApply(q)
    BY <1>2, <2>2 DEF ReconcilerNext, ReconcileStart, Retrieve, NothingChanged,
       ReconcileAmbiguous, ReconcileRefused, ReconcileFails, storeVars, reconciled
  <2>4. ReconcileApply(r)
    BY <1>2, <2>1, <2>3 DEF ReconcileApply, Returns
  <2>5. QED
    BY <1>2, <2>4, AppliedOnWhatWasRead
<1>3. TypeOK /\ SnapshotsAreOld /\ ReconcilersAreOld /\ [Next]_vars =>
        [ /\ \A d \in Deliveries :
               pc[d] = "apply" /\ pc'[d] = "checkout" => seen[d].status = sub.status
          /\ \A r \in Reconcilers :
               Decided(r) /\ Idle(r)' /\ audit' # audit
                 => reconciling[r].status = sub.status ]_vars
  BY <1>1, <1>2
<1>4. QED
  BY <1>3, SnapshotInvariant, ReconcilersInvariant, TypeCorrect, PTL
     DEF Spec, DecidedOnCurrentStatus

\* A grace period is prolonged only when the provider's state has changed: an
\* event forgets the retrieved state, and a reconciliation that finds the state
\* the row was last written from writes nothing.
THEOREM GraceNotProlonged == Spec => GraceIsNotProlonged
<1>1. ASSUME TypeOK, ReconcilersAreOld, [Next]_vars,
             sub.status = "GRACE_PERIOD", sub'.status = "GRACE_PERIOD",
             sub.stateVersion # Unretrieved, sub'.stateVersion = sub.stateVersion
      PROVE  sub'.graceEnd = sub.graceEnd
  <2>1. CASE Quiet
    BY <2>1 DEF Quiet
  <2>2. ASSUME NEW d \in Deliveries, Apply(d)
        PROVE  FALSE
    <3>1. sub'.stateVersion = Given(Unretrieved, sub.stateVersion)
      BY <1>1, <2>2, UpdatesTyped, ApplyStateEffect DEF Apply, EventUpdate
    <3>2. QED
      BY <1>1, <3>1, StoreAssumption DEF Given, Unretrieved
  <2>3. ASSUME NEW r \in Reconcilers, ReconcileApply(r)
        PROVE  FALSE
    <3>1. /\ sub'.status = reconciling[r].update.status
          /\ sub'.stateVersion = Given(reconciling[r].update.stateVersion, sub.stateVersion)
      BY <1>1, <2>3, UpdatesTyped, ApplyStateEffect DEF ReconcileApply
    <3>2. QED
      BY <1>1, <2>3, <3>1, AppliedOnWhatWasRead DEF FromAnswer, Given
  <2>4. CASE ExpiryApply \/ Suspend
    BY <1>1, <2>4, UpdatesTyped, ApplyStateEffect
       DEF ExpiryApply, ExpiryUpdate, Suspend, SuspendUpdate
  <2>5. CASE ProviderFailed \/ CleanupExpiresSubscription
    BY <1>1, <2>5, OtherWrites
  <2>6. QED
    BY <1>1, <2>1, <2>2, <2>3, <2>4, <2>5, Writers
<1>2. TypeOK /\ ReconcilersAreOld /\ [Next]_vars =>
        [ /\ sub.status = "GRACE_PERIOD"
          /\ sub'.status = "GRACE_PERIOD"
          /\ sub.stateVersion # Unretrieved
          /\ sub'.stateVersion = sub.stateVersion
          => sub'.graceEnd = sub.graceEnd ]_vars
  BY <1>1
<1>3. QED
  BY <1>2, ReconcilersInvariant, TypeCorrect, PTL DEF Spec, GraceIsNotProlonged

-------------------------------------------------------------------------------
(***************************************************************************)
(* Premium is paid for.  The statuses below are entered from each other    *)
(* and, from outside, through ACTIVE only; so a purchase that is in one of *)
(* them, or whose payment column says SUCCEEDED, was activated once.       *)
(***************************************************************************)

PaidStatuses == { "ACTIVE", "PAST_DUE", "GRACE_PERIOD", "SUSPENDED", "DISPUTED" }

PaidWasConfirmed ==
  sub.status \in PaidStatuses \/ sub.payment = "SUCCEEDED" => PaymentConfirmed

\* The transition table admits the paid statuses through ACTIVE only.
LEMMA PaidThroughActive ==
  ASSUME NEW current \in Statuses, NEW next \in PaidStatuses, next # "ACTIVE",
         CanTransition(current, next)
  PROVE  current \in PaidStatuses
BY DEF Statuses, PaidStatuses, CanTransition, allowedTransitions

\* An event that confirms a payment activates.
LEMMA ConfirmationActivates ==
  ASSUME NEW n \in Normalized, NEW current \in Statuses, ConfirmsPayment(n)
  PROVE  NextStatus(n, current) = "ACTIVE"
BY DEF ConfirmsPayment, NextStatus

\* An accepted event that does not confirm a payment leaves ACTIVE alone at
\* most, and reports success only when a lost dispute suspends.
LEMMA OthersDoNotActivate ==
  ASSUME NEW n \in Normalized, NEW current \in Statuses,
         AmountMatches(n), ~ConfirmsPayment(n)
  PROVE  /\ NextStatus(n, current) = "ACTIVE" => current = "ACTIVE"
         /\ PaymentStatus(n) = "SUCCEEDED" => NextStatus(n, current) = "SUSPENDED"
<1>1. n.type \in EventTypes /\ n.amount \in { "match", "mismatch", "absent" }
  BY EventsAssumption DEF NormalizedEvent
<1>2. n.type \notin { "activated", "renewed" }
  BY <1>1 DEF AmountMatches, ConfirmsPayment
<1>3. n.type = "dispute_resolved" => ~DisputeWon(n)
  BY DEF ConfirmsPayment
<1>4. Undefined # "SUCCEEDED"
  BY StoreAssumption DEF PaymentStatuses
<1>5. NextStatus(n, current) = "ACTIVE" => current = "ACTIVE"
  BY <1>1, <1>2, <1>3 DEF NextStatus, EventTypes, StatusAfterFailedPayment
<1>6. PaymentStatus(n) = "SUCCEEDED" => n.type = "dispute_resolved"
  BY <1>1, <1>2, <1>4 DEF PaymentStatus, EventTypes
<1>7. n.type = "dispute_resolved" => NextStatus(n, current) = "SUSPENDED"
  BY <1>3 DEF NextStatus
<1>8. QED
  BY <1>5, <1>6, <1>7

LEMMA PaidStep ==
  TypeOK /\ SnapshotsAreOld /\ ReconcilersAreOld /\ PaidWasConfirmed /\ [Next]_vars
    => PaidWasConfirmed'
<1> SUFFICES ASSUME TypeOK, SnapshotsAreOld, ReconcilersAreOld, PaidWasConfirmed,
                    [Next]_vars
             PROVE  PaidWasConfirmed'
  OBVIOUS
<1>1. sub.status \in Statuses
  BY DEF TypeOK, StoreTypeOK, SubscriptionRow
<1>2. ASSUME audit \subseteq audit', PaymentConfirmed
      PROVE  PaymentConfirmed'
  BY <1>2 DEF PaymentConfirmed
<1>3. CASE Quiet
  BY <1>3 DEF Quiet, PaidWasConfirmed, PaymentConfirmed
<1>4. CASE ProviderFailed \/ CleanupExpiresSubscription
  BY <1>4, OtherWrites DEF PaidWasConfirmed, PaymentConfirmed, PaidStatuses
\* An update that neither activates nor reports a payment.
<1>5. ASSUME NEW u \in StateUpdate, ApplyState(u),
             u.status = "ACTIVE" => sub.status = "ACTIVE",
             u.payment = "SUCCEEDED" => u.status = "SUSPENDED"
      PROVE  PaidWasConfirmed'
  <2>1. u.status \in PaidStatuses => sub.status \in PaidStatuses
    BY <1>1, <1>5, ApplyStateEffect, PaidThroughActive DEF PaidStatuses
  <2>2. sub'.payment = "SUCCEEDED" => sub.payment = "SUCCEEDED" \/ u.status = "SUSPENDED"
    BY <1>5, ApplyStateEffect DEF Given
  <2>3. sub'.status = u.status /\ audit \subseteq audit'
    BY <1>5, ApplyStateEffect
  <2>4. QED
    BY <1>2, <2>1, <2>2, <2>3 DEF PaidWasConfirmed, PaidStatuses
<1>6. ASSUME NEW d \in Deliveries, Apply(d)
      PROVE  PaidWasConfirmed'
  <2> DEFINE n == handling[d]
             u == EventUpdate(n, seen[d])
  <2>1. /\ n \in Normalized /\ seen[d] \in Snapshot /\ seen[d].status \in Statuses
        /\ u \in StateUpdate /\ ApplyState(u) /\ AmountMatches(n)
    BY <1>6, UpdatesTyped DEF Apply, TypeOK, DeliveriesTypeOK, Snapshot
  <2>2. /\ u.status = NextStatus(n, seen[d].status) /\ u.payment = PaymentStatus(n)
        /\ u.event = n.id /\ u.expected = seen[d].version
    BY DEF EventUpdate
  <2>3. CASE ConfirmsPayment(n)
    <3>1. u.status = "ACTIVE"
      BY <2>1, <2>2, <2>3, ConfirmationActivates
    <3>2. AuditOf(u, sub') \in audit' /\ sub'.status = "ACTIVE"
      BY <2>1, <3>1, ApplyStateEffect
    <3>3. PaymentConfirmed'
      BY <2>1, <2>2, <2>3, <3>2 DEF PaymentConfirmed, ConfirmedByEvent, AuditOf
    <3>4. QED
      BY <3>3 DEF PaidWasConfirmed
  <2>4. CASE ~ConfirmsPayment(n)
    <3>1. seen[d].status = sub.status
      BY <1>6, <2>1, <2>2, ApplyStateEffect DEF SnapshotsAreOld, Apply
    <3>2. QED
      BY <1>5, <2>1, <2>2, <2>4, <3>1, OthersDoNotActivate
  <2>5. QED
    BY <2>3, <2>4
<1>7. CASE ExpiryApply
  BY <1>5, <1>7, UpdatesTyped, StoreAssumption DEF ExpiryApply, ExpiryUpdate, PaymentStatuses
<1>8. CASE Suspend
  BY <1>5, <1>8, UpdatesTyped, StoreAssumption DEF Suspend, SuspendUpdate, PaymentStatuses
<1>9. ASSUME NEW r \in Reconcilers, ReconcileApply(r)
      PROVE  PaidWasConfirmed'
  <2> DEFINE u == reconciling[r].update
  <2>1. u \in StateUpdate /\ ApplyState(u) /\ FromAnswer(reconciling[r])
    BY <1>9, UpdatesTyped, AppliedOnWhatWasRead DEF ReconcileApply
  <2>2. CASE u.payment = "SUCCEEDED"
    <3>1. AuditOf(u, sub') \in audit' /\ sub'.payment = "SUCCEEDED"
      BY <2>1, <2>2, ApplyStateEffect DEF FromAnswer, Given
    <3>2. PaymentConfirmed'
      BY <2>1, <3>1 DEF PaymentConfirmed, ConfirmedByProvider, AuditOf, FromAnswer
    <3>3. QED
      BY <3>2 DEF PaidWasConfirmed
  <2>3. CASE u.payment # "SUCCEEDED"
    BY <1>5, <2>1, <2>3 DEF FromAnswer
  <2>4. QED
    BY <2>2, <2>3
<1>10. QED
  BY <1>3, <1>4, <1>6, <1>7, <1>8, <1>9, Writers

LEMMA PaidInvariant == Spec => []PaidWasConfirmed
<1>1. Init => PaidWasConfirmed
  BY DEF Init, StoreInit, NewSubscription, PaidWasConfirmed, PaidStatuses
<1>2. QED
  BY <1>1, PaidStep, SnapshotInvariant, ReconcilersInvariant, TypeCorrect, PTL DEF Spec

LEMMA PaidAndBacked == PaidWasConfirmed /\ EntitlementBacked => PremiumWasPaid
BY DEF PaidWasConfirmed, EntitlementBacked, PremiumWasPaid, PaidStatuses

\* Nothing but an applied provider event that confirmed the payment, or a
\* provider's answer that the invoice is paid, turns premium on.
THEOREM PremiumIsPaid == Spec => []PremiumWasPaid
BY PaidAndBacked, PaidInvariant, EntitlementsAreBacked, PTL

-------------------------------------------------------------------------------
(***************************************************************************)
(* Refinement.                                                             *)
(***************************************************************************)

LifecycleInv ==
  /\ TypeOK
  /\ SessionInv
  /\ EntitlementBacked
  /\ PremiumWasPaid

\* A write of the status along the table, which forgets no confirmation, is a
\* move of the life cycle.
LEMMA MoveByTable ==
  ASSUME TypeOK', EntitlementBacked', PremiumWasPaid',
         CanTransition(sub.status, sub'.status),
         audit \subseteq audit'
  PROVE  Lifecycle!LifecycleNext
<1>1. sub'.status \in Statuses
  BY DEF TypeOK, StoreTypeOK, SubscriptionRow
<1>2. PaymentConfirmed' \in { PaymentConfirmed, TRUE }
  <2>1. PaymentConfirmed' \in BOOLEAN /\ PaymentConfirmed \in BOOLEAN
    BY DEF PaymentConfirmed
  <2>2. PaymentConfirmed => PaymentConfirmed'
    BY DEF PaymentConfirmed, ConfirmedByEvent, ConfirmedByProvider
  <2>3. QED
    BY <2>1, <2>2
<1>3. (entitlement.status = "ACTIVE")'
        \in { FALSE, PaymentConfirmed' /\ sub'.status \in Lifecycle!MayGrant }
  <2>1. entitlement'.status = "ACTIVE" =>
          PaymentConfirmed' /\ sub'.status \in Lifecycle!MayGrant
    BY DEF EntitlementBacked, PremiumWasPaid, Lifecycle!MayGrant
  <2>2. QED
    BY <2>1
<1>4. Lifecycle!Move(sub'.status)
  BY <1>2, <1>3 DEF Lifecycle!Move, Lifecycle!CanTransition, CanTransition,
     Lifecycle!allowedTransitions, allowedTransitions
<1>5. QED
  BY <1>1, <1>4 DEF Lifecycle!LifecycleNext, Lifecycle!Statuses, Statuses

LEMMA LifecycleStep ==
  LifecycleInv /\ LifecycleInv' /\ [Next]_vars
    => [Lifecycle!LifecycleNext]_(Lifecycle!lifecycleVars)
<1> SUFFICES ASSUME LifecycleInv, LifecycleInv', [Next]_vars
             PROVE  \/ Lifecycle!LifecycleNext
                    \/ UNCHANGED Lifecycle!lifecycleVars
  OBVIOUS
<1>1. CASE Quiet
  BY <1>1 DEF Quiet, Lifecycle!lifecycleVars, PaymentConfirmed
<1>2. CASE ProviderFailed \/ CleanupExpiresSubscription
  <2>1. CanTransition(sub.status, sub'.status)
    BY <1>2, OtherWrites, RefusedWhilePending
       DEF LifecycleInv, CanTransition, allowedTransitions, Unpaid
  <2>2. audit' = audit
    BY <1>2, OtherWrites DEF LifecycleInv
  <2>3. QED
    BY <2>1, <2>2, MoveByTable DEF LifecycleInv
<1>3. ASSUME NEW u \in StateUpdate, ApplyState(u)
      PROVE  Lifecycle!LifecycleNext
  <2>1. /\ CanTransition(sub.status, sub'.status)
        /\ audit' = audit \cup { AuditOf(u, sub') }
    BY <1>3, ApplyStateEffect DEF LifecycleInv
  <2>2. QED
    BY <2>1, MoveByTable DEF LifecycleInv
<1>4. QED
  BY <1>1, <1>2, <1>3, SubscriptionWrites DEF LifecycleInv

\* The composed system implements the promised life cycle: whatever writers
\* race, the status moves along the reviewed table and premium follows
\* confirmed payments.
THEOREM BillingImplementsLifecycle == Spec => ImplementsLifecycle
<1>1. Init => Lifecycle!LifecycleInit
  BY DEF Init, StoreInit, NewSubscription, Lifecycle!LifecycleInit, PaymentConfirmed
<1>2. Spec => []LifecycleInv
  <2>1. Spec => []SessionInv
    BY SessionInit, SessionStep, TypeCorrect, PTL DEF Spec
  <2>2. QED
    BY <2>1, TypeCorrect, EntitlementsAreBacked, PremiumIsPaid, PTL DEF LifecycleInv
<1>3. QED
  BY <1>1, <1>2, LifecycleStep, PTL DEF Spec, ImplementsLifecycle, Lifecycle!LifecycleSpec
-------------------------------------------------------------------------------
(***************************************************************************)
(* The ledger.  Only deliveries write it; what the other callers of        *)
(* applyState apply belongs to no event.                                   *)
(***************************************************************************)

LEMMA NoEventApplied ==
  ASSUME TypeOK, NEW u \in StateUpdate, ApplyState(u), u.event = Undefined
  PROVE  /\ UNCHANGED << ledger, payments >>
         /\ \E a : audit' = audit \cup { a } /\ a.event = Undefined
<1>1. u.transaction = Undefined
  BY DEF StateUpdate
<1>2. UNCHANGED << ledger, payments >>
  BY <1>1 DEF ApplyState, MarkedProcessed, RecordedPayment
<1>3. audit' = audit \cup { AuditOf(u, sub') }
  BY ApplyStateEffect
<1>4. AuditOf(u, sub').event = Undefined
  BY DEF AuditOf
<1>5. QED
  BY <1>2, <1>3, <1>4

LEMMA EventApplied ==
  ASSUME TypeOK, NEW d \in Deliveries, Apply(d)
  PROVE  LET id == handling[d].id IN
         /\ id \in EventIds
         /\ ledger' = [ ledger EXCEPT ![id] = "PROCESSED" ]
         /\ \A e \in EventIds : e # id => payments'[e] = payments[e]
         /\ \E a : audit' = audit \cup { a } /\ a.event = id
<1> DEFINE u == EventUpdate(handling[d], seen[d])
<1>1. handling[d].id \in EventIds
  BY EventsAssumption DEF TypeOK, DeliveriesTypeOK, Apply, NormalizedEvent
<1>2. u \in StateUpdate /\ ApplyState(u)
  BY UpdatesTyped DEF Apply
<1>3. u.event = handling[d].id /\ u.event # Undefined
  BY <1>1, StoreAssumption DEF EventUpdate
<1>4. audit' = audit \cup { AuditOf(u, sub') } /\ AuditOf(u, sub').event = u.event
  BY <1>2, ApplyStateEffect DEF AuditOf
<1>5. ledger' = [ ledger EXCEPT ![u.event] = "PROCESSED" ]
  BY <1>2, <1>3 DEF ApplyState, MarkedProcessed
<1>6. \A e \in EventIds : e # u.event => payments'[e] = payments[e]
  BY <1>2 DEF ApplyState, RecordedPayment, TypeOK, StoreTypeOK
<1> HIDE DEF u
<1>7. QED
  BY <1>1, <1>3, <1>4, <1>5, <1>6

\* The steps that are no delivery's.
NoDelivery ==
  /\ UNCHANGED << ledger, payments, deliveryVars >>
  /\ \A a \in audit' \ audit : a.event = Undefined
  /\ audit \subseteq audit'

LEMMA OthersApplyNoEvent ==
  ASSUME TypeOK, ReconcilersAreOld, [Next]_vars
  PROVE  (\E d \in Deliveries : DeliveryNext(d)) \/ NoDelivery
<1>1. ASSUME NEW r \in Reconcilers, ReconcilerNext(r), UNCHANGED deliveryVars
      PROVE  NoDelivery
  <2>1. CASE ReconcileApply(r)
    <3>1. reconciling[r].update.event = Undefined
      BY <2>1, AppliedOnWhatWasRead DEF FromAnswer
    <3>2. QED
      BY <1>1, <2>1, <3>1, UpdatesTyped, NoEventApplied DEF ReconcileApply, NoDelivery
  <2>2. CASE ~ReconcileApply(r)
    BY <1>1, <2>2 DEF ReconcilerNext, ReconcileStart, Retrieve, NothingChanged,
       ReconcileAmbiguous, ReconcileRefused, ReconcileFails, storeVars, reconciled, eventRows,
       NoDelivery
  <2>3. QED
    BY <2>1, <2>2
<1>2. ASSUME JobsNext, UNCHANGED deliveryVars
      PROVE  NoDelivery
  <2>1. CASE ExpiryApply
    BY <1>2, <2>1, UpdatesTyped, NoEventApplied DEF ExpiryApply, ExpiryUpdate, NoDelivery
  <2>2. CASE Suspend
    BY <1>2, <2>2, UpdatesTyped, NoEventApplied DEF Suspend, SuspendUpdate, NoDelivery
  <2>3. CASE ~ExpiryApply /\ ~Suspend
    BY <1>2, <2>3 DEF JobsNext, WorkerNext, CleanupList, CleanupExpires, CleanupGivesUp,
       ExpiryStart, ExpiryObsolete, ExpiryFails, StoreProviderSession, ProviderFailed,
       CreateDies, PollRead, PollWrite, OpenForm, CloseForm, Tick, storeVars, reconciled,
       eventRows, NoDelivery
  <2>4. QED
    BY <2>1, <2>2, <2>3
<1>3. CASE UNCHANGED vars
  BY <1>3 DEF vars, storeVars, reconciled, eventRows, NoDelivery
<1>4. QED
  BY <1>1, <1>2, <1>3 DEF Next

LEMMA ProcessedStep ==
  TypeOK /\ ReconcilersAreOld /\ ProcessedWasApplied /\ [Next]_vars => ProcessedWasApplied'
<1> SUFFICES ASSUME TypeOK, ReconcilersAreOld, ProcessedWasApplied, [Next]_vars
             PROVE  ProcessedWasApplied'
  OBVIOUS
<1>1. CASE NoDelivery
  BY <1>1 DEF NoDelivery, ProcessedWasApplied, AppliedEvents
<1>2. ASSUME NEW d \in Deliveries, DeliveryNext(d)
      PROVE  ProcessedWasApplied'
  <2>1. ledger \in [ EventIds -> LedgerStates ]
    BY DEF TypeOK, StoreTypeOK
  <2>2. CASE Apply(d)
    <3>1. PICK a : audit' = audit \cup { a } /\ a.event = handling[d].id
      BY <2>2, EventApplied
    <3>2. AppliedEvents' = AppliedEvents \cup { handling[d].id }
      BY <3>1 DEF AppliedEvents
    <3>3. \A e \in EventIds :
            e # handling[d].id => ledger'[e] = ledger[e] /\ payments'[e] = payments[e]
      BY <2>1, <2>2, EventApplied
    <3>4. QED
      BY <3>2, <3>3 DEF ProcessedWasApplied
  <2>3. CASE RecordPartialRefund(d)
    <3>1. \A e \in EventIds :
            \/ payments'[e] = "PARTIALLY_REFUNDED"
            \/ ledger'[e] = ledger[e] /\ payments'[e] = payments[e]
      BY <2>3 DEF RecordPartialRefund, TypeOK, StoreTypeOK
    <3>2. UNCHANGED audit
      BY <2>3 DEF RecordPartialRefund, reconciled
    <3>3. QED
      BY <3>1, <3>2 DEF ProcessedWasApplied, AppliedEvents
  <2>4. CASE ~Apply(d) /\ ~RecordPartialRefund(d)
    <3>1. \A e \in EventIds : ledger'[e] = "PROCESSED" => ledger[e] = "PROCESSED"
      BY <1>2, <2>1, <2>4 DEF DeliveryNext, Arrival, RecordEvent, Redeliver,
         AcknowledgeDuplicate, RefuseReplay, DeliveryStep, MarkProcessing, BindCheckout,
         LoadBound, LoadByProviderId, Reject, UpdateCheckout, Enqueue, RecordFailure, Fault,
         Crash, storeVars, eventRows
    <3>2. UNCHANGED << audit, payments >>
      BY <1>2, <2>4 DEF DeliveryNext, Arrival, RecordEvent, Redeliver,
         AcknowledgeDuplicate, RefuseReplay, DeliveryStep, MarkProcessing, BindCheckout,
         LoadBound, LoadByProviderId, Reject, UpdateCheckout, Enqueue, RecordFailure, Fault,
         Crash, storeVars, reconciled, eventRows
    <3>3. QED
      BY <3>1, <3>2 DEF ProcessedWasApplied, AppliedEvents
  <2>5. QED
    BY <2>2, <2>3, <2>4
<1>3. QED
  BY <1>1, <1>2, OthersApplyNoEvent

\* A ledger row that says PROCESSED has had its effect, whatever crashes, fails or
\* is delivered again (provider-events.ts:512-524; reconciliation.ts:303-314).
THEOREM ProcessedEventsWereApplied == Spec => []ProcessedWasApplied
<1>1. Init => ProcessedWasApplied
  BY DEF Init, StoreInit, ProcessedWasApplied
<1>2. QED
  BY <1>1, ProcessedStep, ReconcilersInvariant, TypeCorrect, PTL DEF Spec

-------------------------------------------------------------------------------
(***************************************************************************)
(* The end of the period.  The job reads the row some time before its      *)
(* transaction; as long as the version stays, so does the period's end.    *)
(***************************************************************************)

ExpiryIsDue ==
  expiry # Undefined =>
    /\ expiry.expectedAt <= clock
    /\ expiry.version <= sub.version
    /\ expiry.version = sub.version => sub.periodEnd = expiry.expectedAt

LEMMA ExpiryKept ==
  ASSUME TypeOK, [Next]_vars, expiry' # Undefined
  PROVE  \/ UNCHANGED expiry
         \/ \E expectedAt \in expiryJobs : ExpiryStart(expectedAt)
BY DEF Next, vars, jobVars, expiryVars, JobsNext, StoreProviderSession, ProviderFailed,
   CreateDies, PollRead, PollWrite, OpenForm, Suspend, CloseForm, WorkerNext, CleanupList,
   CleanupExpires, CleanupGivesUp, ExpiryStart, ExpiryObsolete, ExpiryApply, ExpiryFails, Tick

LEMMA ClockGrows == ASSUME TypeOK, [Next]_vars PROVE clock' \in Nat /\ clock <= clock'
<1>0. clock \in Nat
  BY DEF TypeOK, StoreTypeOK
<1>1. CASE Tick
  BY <1>0, <1>1 DEF Tick
<1>2. CASE ~Tick
  <2>1. ASSUME NEW d \in Deliveries, DeliveryNext(d) PROVE UNCHANGED clock
    BY <2>1 DEF DeliveryNext, Arrival, RecordEvent, Redeliver, AcknowledgeDuplicate, RefuseReplay,
       DeliveryStep, MarkProcessing, BindCheckout, LoadBound, LoadByProviderId,
       RecordPartialRefund, Apply, Reject, UpdateCheckout, Enqueue, RecordFailure, Fault, Crash,
       storeVars
  <2>2. ASSUME NEW r \in Reconcilers, ReconcilerNext(r) PROVE UNCHANGED clock
    BY <2>2 DEF ReconcilerNext, ReconcileStart, Retrieve, NothingChanged, ReconcileAmbiguous,
       ReconcileApply, ReconcileRefused, ReconcileFails, storeVars
  <2>3. ASSUME JobsNext PROVE UNCHANGED clock
    BY <1>2, <2>3 DEF JobsNext, StoreProviderSession, ProviderFailed, CreateDies, PollRead,
       PollWrite, OpenForm, Suspend, CloseForm, WorkerNext, CleanupList, CleanupExpires,
       CleanupGivesUp, ExpiryStart, ExpiryObsolete, ExpiryApply, ExpiryFails, storeVars
  <2>4. UNCHANGED clock
    BY <2>1, <2>2, <2>3 DEF Next, vars, storeVars
  <2>5. QED
    BY <1>0, <2>4
<1>3. QED
  BY <1>1, <1>2

LEMMA ExpiryDueStep == TypeOK /\ ExpiryIsDue /\ [Next]_vars => ExpiryIsDue'
<1> SUFFICES ASSUME TypeOK, ExpiryIsDue, [Next]_vars, expiry' # Undefined
             PROVE  /\ expiry'.expectedAt <= clock'
                    /\ expiry'.version <= sub'.version
                    /\ expiry'.version = sub'.version => sub'.periodEnd = expiry'.expectedAt
  BY DEF ExpiryIsDue
<1>0. sub.version \in Nat /\ clock \in Nat /\ clock' \in Nat /\ clock <= clock'
  BY ClockGrows DEF TypeOK, StoreTypeOK, SubscriptionRow
<1>1. CASE UNCHANGED expiry
  <2>1. /\ expiry.expectedAt \in Nat /\ expiry.version \in Nat
        /\ expiry.expectedAt <= clock
        /\ expiry.version <= sub.version
        /\ expiry.version = sub.version => sub.periodEnd = expiry.expectedAt
    BY <1>1 DEF ExpiryIsDue, TypeOK, JobsTypeOK, ExpiryRead
  <2>2. \/ sub'.version = sub.version /\ sub'.periodEnd = sub.periodEnd
        \/ sub'.version = sub.version + 1
    BY SubscriptionWrites, ApplyStateEffect, OtherWrites DEF Quiet
  <2>3. expiry.expectedAt <= clock'
    BY <1>0, <2>1
  <2>4. QED
    BY <1>0, <1>1, <2>1, <2>2, <2>3
<1>2. ASSUME NEW expectedAt \in expiryJobs, ExpiryStart(expectedAt)
      PROVE  /\ expiry'.expectedAt <= clock'
             /\ expiry'.version <= sub'.version
             /\ expiry'.version = sub'.version => sub'.periodEnd = expiry'.expectedAt
  BY <1>0, <1>2 DEF ExpiryStart, PeriodStillEnds, storeVars
<1>3. QED
  BY <1>1, <1>2, ExpiryKept

\* The worker ends a purchase only when its period has run out, also when the
\* period is extended while the job is under way (apps/worker/src/index.ts:321-352).
THEOREM RenewalsAreRespected == Spec => ExpiryRespectsRenewal
<1>1. Init => ExpiryIsDue
  BY DEF Init, JobsInit, ExpiryIsDue
<1>2. Spec => []ExpiryIsDue
  BY <1>1, ExpiryDueStep, TypeCorrect, PTL DEF Spec
<1>3. ASSUME TypeOK, ReconcilersAreOld, ExpiryIsDue, [Next]_vars,
             NEW a \in audit' \ audit, a.source = "worker"
      PROVE  sub.periodEnd <= clock
  <2>1. ASSUME NEW u \in StateUpdate, ApplyState(u)
        PROVE  u.source = "worker"
    BY <1>3, <2>1, ApplyStateEffect DEF AuditOf
  <2>2. ASSUME NEW d \in Deliveries, Apply(d) PROVE FALSE
    <3>1. EventUpdate(handling[d], seen[d]).source = "webhook"
      BY DEF EventUpdate
    <3>2. QED
      BY <1>3, <2>1, <2>2, <3>1, UpdatesTyped DEF Apply
  <2>3. ASSUME NEW r \in Reconcilers, ReconcileApply(r) PROVE FALSE
    <3>1. reconciling[r].update.source = "reconciliation"
      BY <1>3, <2>3, AppliedOnWhatWasRead DEF FromAnswer
    <3>2. QED
      BY <1>3, <2>1, <2>3, <3>1, UpdatesTyped DEF ReconcileApply
  <2>4. ASSUME Suspend PROVE FALSE
    <3>1. SuspendUpdate.source = "admin"
      BY DEF SuspendUpdate
    <3>2. QED
      BY <1>3, <2>1, <2>4, <3>1, UpdatesTyped DEF Suspend
  <2>5. ExpiryApply
    BY <1>3, <2>2, <2>3, <2>4, Writers, OtherWrites DEF Quiet
  <2>6. expiry # Undefined /\ expiry.version = sub.version
    <3>1. ExpiryUpdate.expected = expiry.version
      BY DEF ExpiryUpdate
    <3>2. QED
      BY <1>3, <2>5, <3>1, UpdatesTyped, ApplyStateEffect DEF ExpiryApply
  <2>7. QED
    BY <1>3, <2>6 DEF ExpiryIsDue
<1>4. TypeOK /\ ReconcilersAreOld /\ ExpiryIsDue /\ [Next]_vars =>
        [ \A a \in audit' \ audit : a.source = "worker" => sub.periodEnd <= clock ]_vars
  BY <1>3
<1>5. QED
  BY <1>2, <1>4, ReconcilersInvariant, TypeCorrect, PTL DEF Spec, ExpiryRespectsRenewal
===============================================================================
