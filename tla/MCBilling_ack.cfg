\* The callback that owns the event dies after a duplicate was answered.
SPECIFICATION Spec
CONSTANTS
  Undefined = Undefined
  Stripe <- StripeTestMode
  Paytr <- PaytrTestMode
  Provider = "PAYTR"
  EventIds <- OrderIds
  Normalized <- Order
  Snapshots = {}
  Reconcilers = {}
  MaxReconciliations = 0
  Deliveries = {d1, d2}
  CheckoutExpiresAt = 2
  GraceDays = 1
  MaxDeliveries = 2
  MaxCrashes = 1
  MaxClock = 1
  MaxExpiryRuns = 0
  MaxForms = 0
  Faults = FALSE
SYMMETRY RequestSymmetry
INVARIANTS
  AcknowledgedMeansReconciled
CHECK_DEADLOCK FALSE
