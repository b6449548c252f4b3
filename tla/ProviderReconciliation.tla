------------------------ MODULE ProviderReconciliation ------------------------
(***************************************************************************)
(* Authoritative reconciliation: BillingManagementService                  *)
(* #reconcileAuthoritative (packages/billing/src/management.ts).           *)
(*                                                                         *)
(* The row is read, the subscription is retrieved from the provider, and   *)
(* what was retrieved goes through applyState.  The billing owner asks for *)
(* it through the API, an operator on the command line, and the worker for *)
(* stale subscriptions and, on Stripe, when an expire-entitlement job is   *)
(* due.  PayTR has no subscription to retrieve, so there it always throws  *)
(* before it does anything.                                                *)
(***************************************************************************)
EXTENDS BillingStore

CONSTANTS
  Snapshots,          \* what the provider may answer
  Reconcilers,        \* reconciliations that can be in flight at the same time
  MaxReconciliations  \* bound on the number of reconciliations

VARIABLES
  reconciling,     \* what each of them holds
  reconciliations  \* how many have begun

reconcilerVars == << reconciling, reconciliations >>

\* The statuses and payment statuses the Stripe adapter produces.
ProviderStatuses == { "INCOMPLETE", "ACTIVE", "PAST_DUE", "SUSPENDED", "CANCELLED", "EXPIRED" }
InvoiceStatuses  == { "SUCCEEDED", "FAILED", "UNKNOWN", "PENDING" }

\* `updatedAt' is canceled_at, ended_at or, in their absence, the instant the
\* provider created the subscription.
ProviderSnapshot ==
  [ status : ProviderStatuses, payment : InvoiceStatuses, cancelAtPeriodEnd : BOOLEAN,
    end : (Nat \ { Never }) \cup { Undefined },
    updatedAt : (Nat \ { Never }) \cup { Undefined },
    stateVersion : Nat \ { Unretrieved } ]

\* The version is the provider's status, canceled_at and the period end, so it
\* tells cancelAtPeriodEnd too: comparing that column as well, as the code does,
\* adds nothing, and the row does not carry it here.
ASSUME SnapshotsAssumption ==
  /\ \A s \in Snapshots : s \in ProviderSnapshot
  /\ \A s, t \in Snapshots :
       s.stateVersion = t.stateVersion =>
         /\ s.status = t.status
         /\ s.end = t.end
         /\ s.cancelAtPeriodEnd = t.cancelAtPeriodEnd
  /\ MaxReconciliations \in Nat

\* `due' is the expire-entitlement job it is run for; `update' is what it asks
\* of applyState once the provider has answered.
Reconciliation ==
  [ status : Statuses, version : Nat, stateVersion : Nat,
    due : Nat \cup { Undefined }, update : StateUpdate \cup { Undefined } ]

ReconcilersTypeOK ==
  /\ reconciling \in [ Reconcilers -> Reconciliation \cup { Undefined } ]
  /\ reconciliations \in Nat

ReconcilersInit ==
  /\ reconciling = [ r \in Reconcilers |-> Undefined ]
  /\ reconciliations = 0

-------------------------------------------------------------------------------
(***************************************************************************)
(* What a retrieved subscription asks of the row (#stateFromSnapshot).     *)
(***************************************************************************)

CancelScheduled(s) == s.cancelAtPeriodEnd /\ s.end # Undefined

\* (mutant) an active provider subscription is taken for a paid one
NothingIsUnconfirmed(s) == FALSE

ActiveUnconfirmed(s) == s.status = "ACTIVE" /\ s.payment # "SUCCEEDED"

\* On a row that may carry premium the code neither confirms nor withdraws it.
Ambiguous(current, s) ==
  /\ ~CancelScheduled(s)
  /\ ActiveUnconfirmed(s)
  /\ current \in { "ACTIVE", "CANCELLED" }

PeriodIsOver(s) ==
  /\ s.status \in { "CANCELLED", "EXPIRED" }
  /\ s.end # Undefined
  /\ s.end <= clock

SnapshotStatus(s) ==
  IF CancelScheduled(s) THEN "CANCELLED"
  ELSE CASE ActiveUnconfirmed(s)                     -> "INCOMPLETE"
         [] s.status = "PAST_DUE" /\ GraceDays > 0   -> "GRACE_PERIOD"
         [] PeriodIsOver(s)                          -> "EXPIRED"
         [] OTHER                                    -> s.status

SnapshotUpdate(s, expected) ==
  [ source |-> "reconciliation", event |-> Undefined, expected |-> expected,
    status |-> SnapshotStatus(s), payment |-> s.payment,
    periodEnd |-> Given(s.end, Never),
    graceEnd |-> IF SnapshotStatus(s) = "GRACE_PERIOD" THEN clock + GraceDays ELSE Never,
    providerAt |-> Given(s.updatedAt, clock), stateVersion |-> s.stateVersion,
    transaction |-> Undefined, now |-> clock ]

\* (mutant) a reconciliation always writes what it retrieved
NeverUnchanged(current, s) == FALSE

\* The row was last written from this very state of the provider.
AlreadyReconciled(current, s) ==
  /\ current.stateVersion = s.stateVersion
  /\ current.status = SnapshotStatus(s)

-------------------------------------------------------------------------------
Idle(r) == reconciling[r] = Undefined

Awaits(r) == ~Idle(r) /\ reconciling[r].update = Undefined

Decided(r) == ~Idle(r) /\ reconciling[r].update # Undefined

\* Someone asks, or the worker takes up an expiry job that is due and that no
\* other worker is at.
Requested(due) ==
  \/ due = Undefined
  \/ /\ due \in expiryJobs
     /\ due <= clock
     /\ \A r \in Reconcilers : ~Idle(r) => reconciling[r].due # due

ReconcileStart(r, due) ==
  /\ Provider = "STRIPE"
  /\ Idle(r)
  /\ reconciliations < MaxReconciliations
  /\ sub.bound
  /\ Requested(due)
  /\ reconciliations' = reconciliations + 1
  /\ reconciling' =
       [ reconciling EXCEPT ![r] =
           [ status |-> sub.status, version |-> sub.version,
             stateVersion |-> sub.stateVersion, due |-> due, update |-> Undefined ] ]
  /\ UNCHANGED storeVars

Returns(r) ==
  /\ reconciling' = [ reconciling EXCEPT ![r] = Undefined ]
  /\ UNCHANGED reconciliations

\* The expiry job it was run for, if any, is done.
JobDone(r) ==
  IF reconciling[r].due = Undefined THEN UNCHANGED jobQueue ELSE Finish(reconciling[r].due)

\* The job is run again, or its attempts are exhausted.
JobFails(r) == UNCHANGED jobQueue \/ JobDone(r)

Retrievable(s) == s.updatedAt # Undefined => s.updatedAt <= clock

\* The provider answers, and the next state is computed from its answer.
Retrieve(r, s) ==
  /\ Awaits(r)
  /\ Retrievable(s)
  /\ ~Ambiguous(reconciling[r].status, s)
  /\ ~AlreadyReconciled(reconciling[r], s)
  /\ reconciling' =
       [ reconciling EXCEPT ![r] =
           [ status |-> reconciling[r].status, version |-> reconciling[r].version,
             stateVersion |-> reconciling[r].stateVersion, due |-> reconciling[r].due,
             update |-> SnapshotUpdate(s, reconciling[r].version) ] ]
  /\ UNCHANGED reconciliations
  /\ UNCHANGED storeVars

NothingChanged(r, s) ==
  /\ Awaits(r)
  /\ Retrievable(s)
  /\ ~Ambiguous(reconciling[r].status, s)
  /\ AlreadyReconciled(reconciling[r], s)
  /\ Returns(r)
  /\ JobDone(r)
  /\ UNCHANGED << clock, sub, checkout, reconciled, eventRows >>

ReconcileApply(r) ==
  /\ Decided(r)
  /\ ApplyState(reconciling[r].update)
  /\ Returns(r)
  /\ JobDone(r) \/ (Faults /\ UNCHANGED jobQueue)
  /\ UNCHANGED << clock, checkout, payloadHash >>

\* applyState throws.
ReconcileRefused(r) ==
  /\ Decided(r)
  /\ ~CanApply(reconciling[r].update)
  /\ Returns(r)
  /\ JobFails(r)
  /\ UNCHANGED << clock, sub, checkout, reconciled, eventRows >>

\* The answer is ambiguous.
ReconcileAmbiguous(r, s) ==
  /\ Awaits(r)
  /\ Retrievable(s)
  /\ Ambiguous(reconciling[r].status, s)
  /\ Returns(r)
  /\ JobFails(r)
  /\ UNCHANGED << clock, sub, checkout, reconciled, eventRows >>

\* The provider or the database cannot be reached, or the process dies.
ReconcileFails(r) ==
  /\ Faults
  /\ ~Idle(r)
  /\ Returns(r)
  /\ JobFails(r)
  /\ UNCHANGED << clock, sub, checkout, reconciled, eventRows >>

ReconcilerNext(r) ==
  \/ \E due \in expiryJobs \cup { Undefined } : ReconcileStart(r, due)
  \/ \E s \in Snapshots :
       \/ Retrieve(r, s)
       \/ NothingChanged(r, s)
       \/ ReconcileAmbiguous(r, s)
  \/ ReconcileApply(r)
  \/ ReconcileRefused(r)
  \/ ReconcileFails(r)
===============================================================================
