\* Two reconciliations race with each other and with the deliveries of a paid
\* purchase, and any of them may fail.
SPECIFICATION Spec
CONSTANTS
  Undefined = Undefined
  Stripe <- StripeTestMode
  Paytr <- PaytrTestMode
  Provider = "STRIPE"
  EventIds <- PaidIds
  Normalized <- PaidPurchase
  Snapshots <- Answers
  Reconcilers = {r1, r2}
  MaxReconciliations = 3
  Deliveries = {d1}
  CheckoutExpiresAt = 4
  GraceDays = 1
  MaxDeliveries = 2
  MaxCrashes = 0
  MaxClock = 3
  MaxExpiryRuns = 0
  MaxForms = 0
  Faults = TRUE
SYMMETRY ReconcilerSymmetry
PROPERTIES
  GraceIsNotProlonged
  DecidedOnCurrentStatus
CHECK_DEADLOCK FALSE
