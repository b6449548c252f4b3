\* A long sequence of deliveries, one at a time and without failures, and a
\* staff suspension.
SPECIFICATION Spec
CONSTANTS
  Undefined = Undefined
  Stripe <- StripeTestMode
  Paytr <- PaytrTestMode
  Provider = "STRIPE"
  EventIds <- LifeIds
  Normalized <- Life
  Snapshots = {}
  Reconcilers = {}
  MaxReconciliations = 0
  Deliveries = {d1}
  CheckoutExpiresAt = 4
  GraceDays = 1
  MaxDeliveries = 5
  MaxCrashes = 0
  MaxClock = 3
  MaxExpiryRuns = 0
  MaxForms = 1
  Faults = FALSE
INVARIANTS
  PremiumWasPaid
  AppliedAtMostOnce
PROPERTIES
  ImplementsLifecycle
CHECK_DEADLOCK FALSE
